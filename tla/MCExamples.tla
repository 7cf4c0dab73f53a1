------------------------------ MODULE MCExamples ------------------------------
(* Five example programs for TLC, each on its own: a behaviour runs one of  *)
(* them and the state of the others stays as it was.                        *)
EXTENDS SkipList, Sorts, UrlCodec, Singleton, Observer

CONSTANTS t1, t2, t3, o1, o2

SkipIdle      == SkipInit      /\ UNCHANGED skipVars
SortIdle      == SortInit      /\ UNCHANGED sortVars
CodecIdle     == CodecInit     /\ UNCHANGED codecVars
SingletonIdle == SingletonInit /\ UNCHANGED singletonVars
ObserverIdle  == ObserverInit  /\ UNCHANGED observerVars

Init == SkipInit /\ SortInit /\ CodecInit /\ SingletonInit /\ ObserverInit

Next ==
    \/ SkipNext /\ SortIdle /\ CodecIdle /\ SingletonIdle /\ ObserverIdle
    \/ SortNext /\ SkipIdle /\ CodecIdle /\ SingletonIdle /\ ObserverIdle
    \/ CodecNext /\ SkipIdle /\ SortIdle /\ SingletonIdle /\ ObserverIdle
    \/ SingletonNext /\ SkipIdle /\ SortIdle /\ CodecIdle /\ ObserverIdle
    \/ ObserverNext /\ SkipIdle /\ SortIdle /\ CodecIdle /\ SingletonIdle

Spec == Init /\ [][Next]_<<skipVars, sortVars, codecVars, singletonVars, observerVars>>

Keys    == {1, 2, 3}
Values  == 0..2
Bytes   == {Space, Plus, Percent, 50, 66, 97, 200}
Callers == {t1, t2, t3}
Observers == {o1, o2}
TwoStates == {"old", "new"}
===============================================================================
