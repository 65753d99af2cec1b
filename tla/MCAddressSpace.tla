---------------------------- MODULE MCAddressSpace ----------------------------
(* Instances of AddressSpace for TLC. *)
EXTENDS AddressSpace

\* One placement is enough, since slots are alike.
FirstFit(F, D) ==
  {CHOOSE f \in fs : TRUE : fs \in
     {{f \in [D -> F] : \A o, p \in D : f[o] = f[p] => o = p}} \ {{}}}

\* Which slot an object state sits in does not matter: two states with the same
\* contents, owners and sharing are one.  Nor do the native bytes of an object
\* the program may write: copyOutConcretes sets them before anyone reads them.
\* symbolics is read for allocas only (Deleted).  The store of a symbolic object
\* only decides which of an external call's outcomes changes it, and Outcomes
\* offers them all.
SlotFreeView ==
  <<live, cowKey, kind, frames,
    [s \in State |-> {o \in symbolics[s] : kind[o] = "local"}],
    [o \in ReadOnly |-> native[o]],
    [s \in State |-> [o \in MO |->
       IF Bound(s, o)
       THEN <<heap[objects[s][o]].owner, Contents(objects[s][o]),
              {<<t, p>> \in State \X MO : objects[t][p] = objects[s][o]}>>
       ELSE <<>>]]>>
===============================================================================
