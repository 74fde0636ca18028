----------------------------- MODULE MCSnmpFetch -----------------------------
(***************************************************************************)
(* SnmpFetch for TLC.                                                      *)
(***************************************************************************)
EXTENDS SnmpFetch

(* Three sibling columns of different lengths, one of them longer than the *)
(* row cap by two, one with an instance the decoder rejects, and an        *)
(* instance after them all.  The order of the batches is not that of the   *)
(* OIDs.                                                                   *)
MCScalars   == <<1, 2, 3>>
MCColumns   == <<20, 10, 30>>
MCLast      == [c \in {10, 20, 30} |-> c + 9]
MCInstances == {11, 12, 13, 14, 21, 22, 31, 40}

Plain == [v1 |-> FALSE, noBulk |-> FALSE, limit |-> BatchSize, reps |-> Repetitions,
          cuts |-> FALSE, rogue |-> {}]

ProtocolAgents ==
    {a \in Agent : ~a.cuts /\ a.rogue = {} /\ (a.v1 => ~a.noBulk /\ a.reps = 1)}

SomeScalars == <<"value", "noSuchObject", "noSuchInstance">>

(* Column 10 empty, short, as long as the cap with and without a gap, one  *)
(* row longer, and so much longer that a response goes on past the row     *)
(* that is one too many.                                                   *)
LongColumn == {{}, {11}, {11, 12}, {12, 14}, {11, 12, 13}, {11, 12, 13, 14}}
MCTables   == {long \cup others : long \in LongColumn, others \in SUBSET {21, 22, 31, 40}}

(* Every table with some scalars, some table with every scalars, and two   *)
(* rogues.                                                                 *)
MCPolled ==
    [agent : ProtocolAgents, mib : MCTables, scalar : {SomeScalars}]
        \cup [agent : ProtocolAgents, mib : {{11, 21, 31}},
              scalar : [1..3 -> {"value", "noSuchObject", "noSuchInstance"}]]
        \cup [agent : {[Plain EXCEPT !.rogue = {kind}] : kind \in {"get", "walk"}}, mib : {{11, 21}},
              scalar : {SomeScalars}]

(* A column 10 and, beneath it, the column 12 with more instances than one *)
(* response returns; 17 is again the outer column's own.                   *)
MCNestedColumns   == <<10, 12>>
MCNestedLast      == [c \in {10, 12} |-> IF c = 10 THEN 19 ELSE 16]
MCNestedInstances == {11, 13, 14, 15, 16, 17}
MCNestedPolled    == [agent : {Plain}, mib : SUBSET Instances, scalar : {SomeScalars}]

MCCuttingPolled ==
    [agent : {[Plain EXCEPT !.cuts = TRUE]}, mib : SUBSET Instances, scalar : {SomeScalars}]
=============================================================================
