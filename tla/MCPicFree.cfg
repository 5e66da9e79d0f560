CONSTANT
  Irqs <- MCIrqs
SPECIFICATION Spec
INVARIANT HandlerKnown
