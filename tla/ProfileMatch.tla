---------------------------- MODULE ProfileMatch ----------------------------
(***************************************************************************)
(* internal/profile/match.go: the profile for a device's sysObjectID.  An  *)
(* object identifier is the sequence of its arcs, a pattern too, in which  *)
(* Star is an arc "*".  A claim is one pattern of a profile's sysobjectid  *)
(* list; the list may hold a pattern twice.                                *)
(***************************************************************************)
EXTENDS Naturals, Sequences, FiniteSets

Star == 0

(* filepath.Match.  Only a "/" ends a "*", so that it stands for one or    *)
(* more arcs: a pattern matches what can be cut into its arcs.             *)
Matches(pattern, oid) ==
    \E cut \in [DOMAIN oid -> DOMAIN pattern] :
        /\ {cut[i] : i \in DOMAIN oid} = DOMAIN pattern
        /\ \A i, j \in DOMAIN oid : i < j => cut[i] <= cut[j]
        /\ \A i \in DOMAIN oid : pattern[cut[i]] # Star =>
              /\ oid[i] = pattern[cut[i]]
              /\ \A j \in DOMAIN oid \ {i} : cut[j] # cut[i]

(* comparePatterns(a, b) > 0.  Mutant: the shorter pattern comes first.    *)
FirstDifference(a, b) ==
    CHOOSE i \in DOMAIN a : a[i] # b[i] /\ \A j \in 1..(i - 1) : a[j] = b[j]

AtFirstDifference(a, b) ==
    LET i == FirstDifference(a, b)
    IN  IF (a[i] = Star) # (b[i] = Star) THEN b[i] = Star ELSE a[i] > b[i]

Shorter(a, b) ==
    Len(a) < Len(b) \/ (Len(a) = Len(b) /\ a # b /\ AtFirstDifference(a, b))
MoreSpecific(a, b) ==
    Len(a) > Len(b) \/ (Len(a) = Len(b) /\ a # b /\ AtFirstDifference(a, b))

(* buildSysObjectIDIndex, over the profiles that are not abstract.         *)
Claim(profile, user, k, pattern) ==
    [profile |-> profile, user |-> user, number |-> k, pattern |-> pattern]

(* pickForPattern, over the candidates as they are sorted: users first;    *)
(* the order of the others only shows in the message.  Mutant: users are   *)
(* not preferred.                                                          *)
Unranked(c, d)  == FALSE
UserFirst(c, d) == c.user /\ ~d.user
Winner(candidates) == CHOOSE c \in candidates : \A d \in candidates : ~UserFirst(d, c)

Conflicting(candidates) ==
    LET winner == Winner(candidates)
        others == candidates \ {winner}
    IN  others # {} /\ ~(winner.user /\ ~Winner(others).user)

(* Match: the most specific pattern, if any matches, and the profile that  *)
(* has it, if that is one.                                                 *)
NoMatch == [oid |-> <<>>, pattern |-> {}, profile |-> {}]

Match(claims, oid) ==
    LET matching == {p \in {c.pattern : c \in claims} : Matches(p, oid)}
        best == CHOOSE p \in matching : \A q \in matching \ {p} : MoreSpecific(p, q)
        candidates == {c \in claims : c.pattern = best}
    IN  IF matching = {} THEN [NoMatch EXCEPT !.oid = oid]
        ELSE [oid |-> oid, pattern |-> {best},
              profile |-> IF Conflicting(candidates) THEN {} ELSE {Winner(candidates).profile}]
=============================================================================
