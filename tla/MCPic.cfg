CONSTANT
  Irqs <- MCIrqs
SPECIFICATION FairSpec
INVARIANT PanicCause
PROPERTIES IrqServed IrqReturns
