---------------------------- MODULE MCProfileStore ----------------------------
(***************************************************************************)
(* ProfileStore for TLC.  Every library is of one of four kinds: a graph   *)
(* of extends with up to two parents, one list naming a parent twice, and  *)
(* two of its documents resolved in any order and repeatedly; two or three *)
(* patterns to compare; claims of the same patterns by embedded and user   *)
(* profiles; and an override that reaches through extends.                 *)
(***************************************************************************)
EXTENDS ProfileStore

CONSTANTS
    Roots, Fields,  \* documents of a graph, and their metadata
    Unknown         \* a name that extends may mention and no file has

Document(extends, defines, claims) ==
    [extends |-> extends, defines |-> defines, claims |-> claims]

ParentLists ==
    LET all == Roots \cup {Unknown}
    IN  {<<>>} \cup {<<a>> : a \in all} \cup {<<p[1], p[2]>> : p \in {q \in all \X all : q[1] # q[2]}}
        \cup {<<CHOOSE n \in Roots : TRUE, CHOOSE n \in Roots : TRUE>>}

Graphs ==
    {[embedded |-> docs, user |-> EmptyMap, configured |-> {"p", "q"}, devices |-> {}] :
        docs \in [Roots -> {Document(x, d, <<>>) : x \in ParentLists, d \in SUBSET Fields}]}

Arcs(arcs, n) == UNION {[1..k -> arcs] : k \in 1..n}
Identifiers   == Arcs({1, 2}, 3) \cup {<<1, 1, 2, 2>>}

Claiming(patterns) == Document(<<>>, {}, patterns)
Comparisons ==
    {[embedded |-> docs, user |-> EmptyMap, configured |-> {}, devices |-> Identifiers] :
        docs \in [{"p", "q"} -> {Claiming(<<a>>) : a \in Arcs({Star, 1, 2}, 3)}]
                 \cup [Roots -> {Claiming(<<a>>) : a \in Arcs({Star, 1}, 3)}]}

(* Two embedded profiles, one of which may be abstract, and two user       *)
(* profiles, one of which may hide an embedded one.                        *)
Lists == Arcs({<<1, 1>>, <<1, Star>>}, 2) \cup {<<>>}
Precedences ==
    {[embedded |-> [n \in {"p", "_base"} |-> Claiming(IF n = "p" THEN one ELSE two)],
      user |-> [n \in users |-> Claiming(IF n = "q" THEN three ELSE four)],
      configured |-> {}, devices |-> {<<1, 1>>, <<1, 2>>, <<2, 1>>}] :
        one \in Lists, two \in Lists, three \in Lists, four \in Lists,
        users \in SUBSET {"p", "q"} \cup {{"q", "r"}}}

Overrides ==
    {[embedded |-> [n \in {"p", "_base"} |->
          IF n = "p" THEN Document(<<"_base">>, {}, <<<<1, Star>>>>) ELSE Document(<<>>, Fields, <<<<1, 1>>>>)],
      user |-> [n \in users |-> Document(IF n = "q" THEN <<"p">> ELSE <<>>, {}, <<<<1, 2>>>>)],
      configured |-> {"_base", "q"}, devices |-> {<<1, 1>>, <<1, 2>>}] :
        users \in SUBSET {"p", "q", "_base"}}

MCLibraries == Graphs \cup Comparisons \cup Precedences \cup Overrides
===============================================================================
