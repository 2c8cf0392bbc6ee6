-------------------------------- MODULE KeyRing --------------------------------
(***************************************************************************)
(* What the driver of a keyboard promises to those who read it: the code   *)
(* of a key that was struck goes in, once, unless there is no room; codes  *)
(* come out once each, in the order in which they went in; a read takes as *)
(* many as it asked for, or all there are; only a read that does not block *)
(* comes back with none; and whoever reads is served while there are       *)
(* codes.                                                                  *)
(***************************************************************************)
EXTENDS Naturals, Sequences

CONSTANTS Readers, Blocking, Codes, Size, MaxAsked

VARIABLES struck,  \* whether a key has been struck: "no", "new", or its code is "in"
          keys,    \* the codes inside, oldest first
          asks,    \* asks[r]: how many more codes r asks for
          got      \* got[r]: those its read has got

vars == <<struck, keys, asks, got>>

RingInit ==
    /\ struck = "no"
    /\ keys = <<>>
    /\ asks = [r \in Readers |-> 0]
    /\ got = [r \in Readers |-> <<>>]

Strikes ==
    /\ struck = "no" /\ struck' = "new"
    /\ UNCHANGED <<keys, asks, got>>

GoesIn ==
    /\ struck = "new" /\ struck' = "in"
    /\ IF Len(keys) < Size THEN \E c \in Codes : keys' = Append(keys, c)
                           ELSE UNCHANGED keys
    /\ UNCHANGED <<asks, got>>

IsOver ==
    /\ struck = "in" /\ struck' = "no"
    /\ UNCHANGED <<keys, asks, got>>

Asks(r) ==
    /\ asks[r] = 0
    /\ \E n \in 1 .. MaxAsked : asks' = [asks EXCEPT ![r] = n]
    /\ got[r] = <<>>
    /\ UNCHANGED <<struck, keys, got>>

Takes(r) ==
    /\ asks[r] > 0 /\ keys # <<>>
    /\ got' = [got EXCEPT ![r] = Append(@, Head(keys))]
    /\ asks' = [asks EXCEPT ![r] = @ - 1]
    /\ keys' = Tail(keys)
    /\ UNCHANGED struck

GoesWithFewer(r) ==
    /\ asks[r] > 0 /\ keys = <<>>
    /\ got[r] # <<>> \/ r \notin Blocking
    /\ asks' = [asks EXCEPT ![r] = 0]
    /\ UNCHANGED <<struck, keys, got>>

Returns(r) ==
    /\ asks[r] = 0 /\ got' = [got EXCEPT ![r] = <<>>]
    /\ UNCHANGED <<struck, keys, asks>>

RingNext ==
    \/ Strikes \/ GoesIn \/ IsOver
    \/ \E r \in Readers : Asks(r) \/ Takes(r) \/ GoesWithFewer(r) \/ Returns(r)

RingSafety == RingInit /\ [][RingNext]_vars

RingSpec ==
    /\ RingSafety
    /\ WF_vars(GoesIn \/ IsOver)
    /\ \A r \in Readers : WF_vars(Takes(r) \/ GoesWithFewer(r))
================================================================================
