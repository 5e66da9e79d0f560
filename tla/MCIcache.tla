------------------------------ MODULE MCIcache ------------------------------
(* Instances of Icache: which instructions of interest may reach EX.       *)
EXTENDS Icache, TLC

IcNop == {<<"none", 0>>}
InvalidateOps == IcNop \cup ({"icbir"} \X Lines)
SwitchOps == IcNop \cup ({"ice"} \X {0, 1})
OnOps == IcNop \cup {<<"ice", 1>>}
BootOps == InvalidateOps \cup OnOps

SymLines == Permutations(Lines)
Sym == Permutations(Pages) \cup SymLines
=============================================================================
