--------------------------- MODULE PipeListProofs ---------------------------
(***************************************************************************)
(* What the operations of fq_t and lb_t do to a list of pipes of any       *)
(* length: which pipes are listed, which of them are active, and whose     *)
(* turn it is.                                                             *)
(***************************************************************************)
EXTENDS PipeList, TLAPS

\* No pipe is in the array twice (each pipe knows its index in the array).
NoTwice(s) == \A i, j \in 1 .. Len(s) : s[i] = s[j] => i = j

\* A list of different pipes of S whose counters stay inside of it.
WellFormed(S, l) ==
    /\ l \in PipeLists(S)
    /\ NoTwice(l.pipes)
    /\ l.active <= Len(l.pipes)
    /\ l.current < l.active \/ l.current = 0

\* The fields of a list, and their types.
LEMMA Fields ==
  ASSUME NEW S, NEW l, WellFormed(S, l)
  PROVE  /\ l.pipes \in Seq(S) /\ Len(l.pipes) \in Nat
         /\ l.active \in Nat /\ l.current \in Nat /\ l.more \in BOOLEAN
         /\ l.active <= Len(l.pipes)
         /\ \A i, j \in 1 .. Len(l.pipes) : l.pipes[i] = l.pipes[j] => i = j
  BY DEF WellFormed, PipeLists, NoTwice

\* A list after an assignment to its pipes and their number, and to its turn too.
With(l, t, a) == [l EXCEPT !.pipes = t, !.active = a]
WithTurn(l, t, a, c) == [l EXCEPT !.active = a, !.pipes = t, !.current = c]
WithPipes(l, t) == [l EXCEPT !.pipes = t]

\* The fields after the assignment.
LEMMA WithFields ==
  ASSUME NEW S, NEW l \in PipeLists(S), NEW t \in Seq(S), NEW a \in Nat
  PROVE  /\ With(l, t, a) \in PipeLists(S)
         /\ With(l, t, a).pipes = t /\ With(l, t, a).active = a
         /\ With(l, t, a).current = l.current /\ With(l, t, a).more = l.more
  BY DEF PipeLists, With

\* The same with the turn.
LEMMA WithTurnFields ==
  ASSUME NEW S, NEW l \in PipeLists(S), NEW t \in Seq(S), NEW a \in Nat, NEW c \in Nat
  PROVE  /\ WithTurn(l, t, a, c) \in PipeLists(S)
         /\ WithTurn(l, t, a, c).pipes = t /\ WithTurn(l, t, a, c).active = a
         /\ WithTurn(l, t, a, c).current = c /\ WithTurn(l, t, a, c).more = l.more
  BY DEF PipeLists, WithTurn

\* The same when only the pipes are assigned.
LEMMA WithPipesFields ==
  ASSUME NEW S, NEW l \in PipeLists(S), NEW t \in Seq(S)
  PROVE  /\ WithPipes(l, t) \in PipeLists(S)
         /\ WithPipes(l, t).pipes = t /\ WithPipes(l, t).active = l.active
         /\ WithPipes(l, t).current = l.current /\ WithPipes(l, t).more = l.more
  BY DEF PipeLists, WithPipes

\* array_t::swap exchanges two pipes and moves no other.
LEMMA SwappedAt ==
  ASSUME NEW S, NEW s \in Seq(S), NEW i \in Nat, NEW j \in Nat, i < Len(s), j < Len(s)
  PROVE  /\ Swapped(s, i, j) \in Seq(S)
         /\ Len(Swapped(s, i, j)) = Len(s)
         /\ \A k \in 1 .. Len(s) :
              Swapped(s, i, j)[k] = IF k = j + 1 THEN s[i + 1]
                                    ELSE IF k = i + 1 THEN s[j + 1] ELSE s[k]
<1>1. i + 1 \in 1 .. Len(s) /\ j + 1 \in 1 .. Len(s)
  OBVIOUS
<1>2. s[i + 1] \in S /\ s[j + 1] \in S
  BY <1>1
<1> QED BY <1>1, <1>2 DEF Swapped

\* A swap makes no pipe appear twice.
LEMMA SwappedNoTwice ==
  ASSUME NEW S, NEW s \in Seq(S), NEW i \in Nat, NEW j \in Nat, i < Len(s), j < Len(s),
         NoTwice(s)
  PROVE  NoTwice(Swapped(s, i, j))
<1> DEFINE t == Swapped(s, i, j)
<1>1. /\ Len(t) = Len(s) /\ Len(s) \in Nat
      /\ \A k \in 1 .. Len(s) : t[k] = IF k = j + 1 THEN s[i + 1]
                                       ELSE IF k = i + 1 THEN s[j + 1] ELSE s[k]
  BY SwappedAt
<1>2. i + 1 \in 1 .. Len(s) /\ j + 1 \in 1 .. Len(s)
  OBVIOUS
<1> HIDE DEF t
<1>3. NoTwice(t)
  BY <1>1, <1>2 DEF NoTwice
<1> QED BY <1>3 DEF t

\* array_t::index: where a listed pipe is.
LEMMA IndexOf ==
  ASSUME NEW S, NEW l, WellFormed(S, l), NEW p \in Listed(l)
  PROVE  /\ Index(l, p) \in Nat /\ Index(l, p) < Len(l.pipes)
         /\ l.pipes[Index(l, p) + 1] = p
         /\ p \in ActivePipes(l) <=> Index(l, p) < l.active
<1>1. Len(l.pipes) \in Nat /\ l.active \in Nat /\ l.active <= Len(l.pipes)
  BY Fields
<1> DEFINE c == CHOOSE i \in 1 .. Len(l.pipes) : l.pipes[i] = p
<1>2. c \in 1 .. Len(l.pipes) /\ l.pipes[c] = p
  <2>1. \E i \in 1 .. Len(l.pipes) : l.pipes[i] = p
    BY DEF Listed
  <2> QED BY <2>1
<1>3. Index(l, p) = c - 1
  BY DEF Index
<1> HIDE DEF c
<1>4. Index(l, p) \in Nat /\ Index(l, p) + 1 = c /\ Index(l, p) < Len(l.pipes)
  BY <1>1, <1>2, <1>3
<1>5. p \in ActivePipes(l) <=> c <= l.active
  <2>1. ASSUME NEW i \in 1 .. l.active, l.pipes[i] = p
        PROVE  i = c
    <3>1. i \in 1 .. Len(l.pipes)
      BY <1>1
    <3> QED BY <1>2, <2>1, <3>1, Fields
  <2>2. c <= l.active => c \in 1 .. l.active
    BY <1>1, <1>2
  <2> QED BY <1>1, <1>2, <2>1, <2>2 DEF ActivePipes
<1> QED BY <1>1, <1>2, <1>4, <1>5

\* activated: a passive pipe becomes the last of the active ones.
LEMMA ActivatedList ==
  ASSUME NEW S, NEW l, WellFormed(S, l), NEW p \in Listed(l), p \notin ActivePipes(l)
  PROVE  /\ WellFormed(S, Activated(l, p))
         /\ Listed(Activated(l, p)) = Listed(l)
         /\ ActivePipes(Activated(l, p)) = ActivePipes(l) \cup {p}
         /\ Activated(l, p).current = l.current
         /\ Activated(l, p).more = l.more
         /\ Activated(l, p).active = l.active + 1
         /\ \A i \in 1 .. l.active : Activated(l, p).pipes[i] = l.pipes[i]
<1> DEFINE i == Index(l, p)
           s == l.pipes
           t == Swapped(s, i, l.active)
           m == Activated(l, p)
<1>1. /\ s \in Seq(S) /\ Len(s) \in Nat /\ l.active \in Nat /\ l.current \in Nat
      /\ l.more \in BOOLEAN /\ l.active <= Len(s) /\ NoTwice(s)
      /\ l.current < l.active \/ l.current = 0
  BY Fields DEF WellFormed
<1>2. i \in Nat /\ i < Len(s) /\ s[i + 1] = p /\ ~(i < l.active)
  BY IndexOf
<1>3. l.active < Len(s) /\ i >= l.active
  BY <1>1, <1>2
<1> HIDE DEF i, s
<1>4. /\ t \in Seq(S) /\ Len(t) = Len(s)
      /\ \A k \in 1 .. Len(s) : t[k] = IF k = l.active + 1 THEN s[i + 1]
                                       ELSE IF k = i + 1 THEN s[l.active + 1] ELSE s[k]
  BY <1>1, <1>2, <1>3, SwappedAt
<1>5. NoTwice(t)
  BY <1>1, <1>2, <1>3, SwappedNoTwice
<1>6. /\ m \in PipeLists(S)
      /\ m.pipes = t /\ m.active = l.active + 1 /\ m.current = l.current /\ m.more = l.more
  <2>1. m = With(l, t, l.active + 1)
    BY DEF Activated, With, m, t, i, s
  <2>2. l \in PipeLists(S)
    BY DEF WellFormed
  <2>3. l.active + 1 \in Nat
    BY <1>1
  <2> HIDE DEF t, m
  <2> QED BY <1>4, <2>1, <2>2, <2>3, WithFields
<1> HIDE DEF t, m
<1>7. WellFormed(S, m)
  BY <1>1, <1>3, <1>4, <1>5, <1>6 DEF WellFormed
<1>8. Listed(m) = Listed(l)
  <2>1. ASSUME NEW k \in 1 .. Len(s) PROVE t[k] \in Listed(l) /\ s[k] \in Listed(m)
    <3>1. i + 1 \in 1 .. Len(s) /\ l.active + 1 \in 1 .. Len(s)
      BY <1>1, <1>2, <1>3
    <3>2. t[k] \in {s[k], s[i + 1], s[l.active + 1]}
      BY <1>4
    <3>3. s[k] \in {t[k], t[i + 1], t[l.active + 1]}
      BY <1>4, <3>1
    <3> QED BY <1>4, <1>6, <3>1, <3>2, <3>3 DEF Listed, s
  <2>2. Listed(l) = {s[k] : k \in 1 .. Len(s)} /\ Listed(m) = {t[k] : k \in 1 .. Len(s)}
    BY <1>4, <1>6 DEF Listed, s
  <2> QED BY <2>1, <2>2
<1>9. \A k \in 1 .. l.active : t[k] = s[k] /\ k \in 1 .. Len(s)
  BY <1>1, <1>2, <1>3, <1>4
<1>10. ActivePipes(m) = ActivePipes(l) \cup {p}
  <2>1. t[l.active + 1] = p
    BY <1>1, <1>2, <1>3, <1>4
  <2>2. \A k \in 1 .. (l.active + 1) : k \in 1 .. l.active \/ k = l.active + 1
    BY <1>1
  <2>3. l.active + 1 \in 1 .. (l.active + 1) /\ \A k \in 1 .. l.active : k \in 1 .. (l.active + 1)
    BY <1>1
  <2> QED BY <1>6, <1>9, <2>1, <2>2, <2>3 DEF ActivePipes, s
<1> QED BY <1>6, <1>7, <1>8, <1>9, <1>10 DEF m, s

\* attach: a pipe that is new becomes the last of the active ones.
LEMMA AttachedList ==
  ASSUME NEW S, NEW l, WellFormed(S, l), NEW p \in S, p \notin Listed(l)
  PROVE  /\ WellFormed(S, Attached(l, p))
         /\ Listed(Attached(l, p)) = Listed(l) \cup {p}
         /\ ActivePipes(Attached(l, p)) = ActivePipes(l) \cup {p}
         /\ Attached(l, p).current = l.current
         /\ Attached(l, p).more = l.more
         /\ Attached(l, p).active = l.active + 1
         /\ \A i \in 1 .. l.active : Attached(l, p).pipes[i] = l.pipes[i]
<1> DEFINE s == l.pipes
           t == Append(s, p)
           m == WithPipes(l, t)
<1>1. /\ s \in Seq(S) /\ Len(s) \in Nat /\ l.active \in Nat /\ l.current \in Nat
      /\ l.more \in BOOLEAN /\ l.active <= Len(s)
      /\ l.current < l.active \/ l.current = 0
      /\ \A i, j \in 1 .. Len(s) : s[i] = s[j] => i = j
  BY Fields DEF WellFormed
<1>2. Attached(l, p) = Activated(m, p)
  BY DEF Attached, WithPipes
<1>3. \A k \in 1 .. Len(s) : s[k] # p
  BY DEF Listed
<1>4. l \in PipeLists(S) /\ Listed(l) = {s[k] : k \in 1 .. Len(s)}
  BY DEF WellFormed, Listed
<1> HIDE DEF s
<1>5. /\ t \in Seq(S) /\ Len(t) = Len(s) + 1 /\ t[Len(s) + 1] = p
      /\ \A k \in 1 .. Len(s) : t[k] = s[k]
  BY <1>1
<1> HIDE DEF t
<1>6. /\ m \in PipeLists(S)
      /\ m.pipes = t /\ m.active = l.active /\ m.current = l.current /\ m.more = l.more
  BY <1>4, <1>5, WithPipesFields
<1> HIDE DEF m
<1>7. \A k \in 1 .. Len(t) : k \in 1 .. Len(s) \/ k = Len(s) + 1
  BY <1>1, <1>5
<1>8. NoTwice(t)
  BY <1>1, <1>3, <1>5, <1>7 DEF NoTwice
<1>9. WellFormed(S, m)
  BY <1>1, <1>5, <1>6, <1>8 DEF WellFormed
<1>10. Listed(m) = Listed(l) \cup {p}
  <2>1. Listed(m) = {t[k] : k \in 1 .. Len(t)}
    BY <1>6 DEF Listed
  <2>2. Len(s) + 1 \in 1 .. Len(t) /\ \A k \in 1 .. Len(s) : k \in 1 .. Len(t)
    BY <1>1, <1>5
  <2> QED BY <1>4, <1>5, <1>7, <2>1, <2>2
<1>11. \A k \in 1 .. l.active : k \in 1 .. Len(s) /\ t[k] = s[k]
  BY <1>1, <1>5
<1>12. ActivePipes(m) = ActivePipes(l)
  BY <1>6, <1>11 DEF ActivePipes, s
<1>13. p \notin ActivePipes(m)
  BY <1>3, <1>11, <1>12 DEF ActivePipes, s
<1>14. /\ WellFormed(S, Activated(m, p))
       /\ Listed(Activated(m, p)) = Listed(m)
       /\ ActivePipes(Activated(m, p)) = ActivePipes(m) \cup {p}
       /\ Activated(m, p).current = m.current
       /\ Activated(m, p).more = m.more
       /\ Activated(m, p).active = m.active + 1
       /\ \A i \in 1 .. m.active : Activated(m, p).pipes[i] = m.pipes[i]
  BY <1>9, <1>10, <1>13, ActivatedList
<1> QED BY <1>2, <1>6, <1>10, <1>11, <1>12, <1>14 DEF s

\* The list when the active pipe at index i leaves the active ones.
DeactivatedAt(l, i) ==
    WithTurn(l, Swapped(l.pipes, i, l.active - 1), l.active - 1,
             IF l.current = l.active - 1 THEN 0 ELSE l.current)

\* The pipe goes behind the active ones, and the last of them takes its place.
LEMMA DeactivatedAtList ==
  ASSUME NEW S, NEW l, WellFormed(S, l), NEW i \in Nat, i < l.active
  PROVE  /\ WellFormed(S, DeactivatedAt(l, i))
         /\ Listed(DeactivatedAt(l, i)) = Listed(l)
         /\ ActivePipes(DeactivatedAt(l, i)) = ActivePipes(l) \ {l.pipes[i + 1]}
         /\ Len(DeactivatedAt(l, i).pipes) = Len(l.pipes)
         /\ DeactivatedAt(l, i).more = l.more
         /\ DeactivatedAt(l, i).active = l.active - 1
         /\ DeactivatedAt(l, i).current = (IF l.current = l.active - 1 THEN 0 ELSE l.current)
         /\ \A k \in 1 .. (l.active - 1) : DeactivatedAt(l, i).pipes[k] =
              IF k = i + 1 THEN l.pipes[l.active] ELSE l.pipes[k]
<1> DEFINE s == l.pipes
           a == l.active - 1
           c == IF l.current = l.active - 1 THEN 0 ELSE l.current
           t == Swapped(s, i, a)
           m == DeactivatedAt(l, i)
<1>1. /\ s \in Seq(S) /\ Len(s) \in Nat /\ l.active \in Nat /\ l.current \in Nat
      /\ l.more \in BOOLEAN /\ l.active <= Len(s) /\ NoTwice(s)
      /\ l.current < l.active \/ l.current = 0
      /\ l \in PipeLists(S)
      /\ \A j, k \in 1 .. Len(s) : s[j] = s[k] => j = k
  BY Fields DEF WellFormed
<1>2. /\ a \in Nat /\ a < Len(s) /\ i < Len(s) /\ a + 1 = l.active /\ i <= a
      /\ c \in Nat /\ (c < a \/ c = 0)
  BY <1>1
<1>3. m = WithTurn(l, t, a, c)
  BY DEF DeactivatedAt
<1>4. Listed(l) = {s[k] : k \in 1 .. Len(s)} /\ ActivePipes(l) = {s[k] : k \in 1 .. l.active}
  BY DEF Listed, ActivePipes
<1> HIDE DEF s, a, c
<1>5. /\ t \in Seq(S) /\ Len(t) = Len(s)
      /\ \A k \in 1 .. Len(s) : t[k] = IF k = a + 1 THEN s[i + 1]
                                       ELSE IF k = i + 1 THEN s[a + 1] ELSE s[k]
  BY <1>1, <1>2, SwappedAt
<1>6. NoTwice(t)
  BY <1>1, <1>2, SwappedNoTwice
<1> HIDE DEF t, m
<1>7. /\ m \in PipeLists(S)
      /\ m.pipes = t /\ m.active = a /\ m.current = c /\ m.more = l.more
  <2>1. /\ WithTurn(l, t, a, c) \in PipeLists(S)
        /\ WithTurn(l, t, a, c).pipes = t /\ WithTurn(l, t, a, c).active = a
        /\ WithTurn(l, t, a, c).current = c /\ WithTurn(l, t, a, c).more = l.more
    <3>1. l \in PipeLists(S) /\ t \in Seq(S) /\ a \in Nat /\ c \in Nat
      BY <1>1, <1>2, <1>5
    <3> QED BY <3>1, WithTurnFields
  <2> QED BY <1>3, <2>1
<1>8. WellFormed(S, m)
  BY <1>1, <1>2, <1>5, <1>6, <1>7 DEF WellFormed
<1>9. Listed(m) = Listed(l)
  <2>1. Listed(m) = {t[k] : k \in 1 .. Len(s)}
    BY <1>5, <1>7 DEF Listed
  <2>2. i + 1 \in 1 .. Len(s) /\ a + 1 \in 1 .. Len(s)
    BY <1>1, <1>2
  <2>3. \A k \in 1 .. Len(s) : t[k] \in {s[k], s[i + 1], s[a + 1]}
    BY <1>5
  <2>4. \A k \in 1 .. Len(s) : s[k] \in {t[k], t[i + 1], t[a + 1]}
    BY <1>5, <2>2
  <2> QED BY <1>4, <2>1, <2>2, <2>3, <2>4
<1>10. \A k \in 1 .. a : k \in 1 .. Len(s) /\ t[k] = IF k = i + 1 THEN s[a + 1] ELSE s[k]
  BY <1>1, <1>2, <1>5
<1>11. ActivePipes(m) = ActivePipes(l) \ {s[i + 1]}
  <2>1. ActivePipes(m) = {t[k] : k \in 1 .. a}
    BY <1>7 DEF ActivePipes
  <2>2. /\ a + 1 \in 1 .. l.active /\ \A k \in 1 .. l.active : k \in 1 .. Len(s)
        /\ i + 1 \in 1 .. Len(s) /\ a + 1 \in 1 .. Len(s)
        /\ \A k \in 1 .. a : k \in 1 .. l.active
    BY <1>1, <1>2
  <2>3. ASSUME NEW k \in 1 .. a PROVE t[k] \in ActivePipes(l) \ {s[i + 1]}
    <3>1. CASE k = i + 1
      <4>1. t[k] = s[a + 1] /\ a + 1 # i + 1
        BY <1>2, <1>10, <3>1
      <4> QED BY <1>1, <1>4, <2>2, <4>1
    <3>2. CASE k # i + 1
      <4>1. t[k] = s[k]
        BY <1>10, <3>2
      <4> QED BY <1>1, <1>4, <2>2, <3>2, <4>1
    <3> QED BY <3>1, <3>2
  <2>4. ASSUME NEW k \in 1 .. l.active, s[k] # s[i + 1] PROVE \E j \in 1 .. a : t[j] = s[k]
    <3>1. k # i + 1
      BY <2>4
    <3>2. CASE k = a + 1
      <4>1. i + 1 \in 1 .. a
        BY <1>2, <3>1, <3>2
      <4> QED BY <1>10, <3>2, <4>1
    <3>3. CASE k # a + 1
      <4>1. k \in 1 .. a
        BY <1>2, <3>3
      <4> QED BY <1>10, <3>1, <4>1
    <3> QED BY <3>2, <3>3
  <2> QED BY <1>4, <2>1, <2>3, <2>4
<1> QED BY <1>2, <1>5, <1>7, <1>8, <1>9, <1>10, <1>11 DEF m, s, a, c

\* The current pipe leaves the active ones.
LEMMA DeactivatedList ==
  ASSUME NEW S, NEW l, WellFormed(S, l), l.active > 0
  PROVE  /\ WellFormed(S, Deactivated(l))
         /\ Listed(Deactivated(l)) = Listed(l)
         /\ ActivePipes(Deactivated(l)) = ActivePipes(l) \ {Current(l)}
         /\ Deactivated(l).active = l.active - 1
         /\ Deactivated(l).more = l.more
<1>1. l.current \in Nat /\ l.current < l.active
  BY Fields DEF WellFormed
<1>2. Deactivated(l) = DeactivatedAt(l, l.current)
  BY DEF Deactivated, DeactivatedAt, WithTurn
<1>3. Current(l) = l.pipes[l.current + 1]
  BY DEF Current
<1> QED BY <1>1, <1>2, <1>3, DeactivatedAtList

\* The turn passes on.
LEMMA NextTurnList ==
  ASSUME NEW S, NEW l, WellFormed(S, l), l.active > 0
  PROVE  /\ WellFormed(S, NextTurn(l))
         /\ NextTurn(l).pipes = l.pipes /\ NextTurn(l).active = l.active
         /\ NextTurn(l).more = FALSE
<1> DEFINE c == (l.current + 1) % l.active
<1>1. /\ l.active \in Nat /\ l.current \in Nat /\ l \in PipeLists(S)
  BY Fields DEF WellFormed
<1>2. c \in Nat /\ c < l.active
  BY <1>1
<1>3. NextTurn(l) = [l EXCEPT !.current = c, !.more = FALSE]
  BY DEF NextTurn
<1> HIDE DEF c
<1>4. /\ NextTurn(l) \in PipeLists(S)
      /\ NextTurn(l).pipes = l.pipes /\ NextTurn(l).active = l.active
      /\ NextTurn(l).current = c /\ NextTurn(l).more = FALSE
  BY <1>1, <1>2, <1>3 DEF PipeLists
<1> QED BY <1>2, <1>4 DEF WellFormed

\* pipe_terminated: the pipe goes; of the active pipes the last one takes its
\* place, and loses its turn when it is another one's turn that ends there.
LEMMA TerminatedList ==
  ASSUME NEW S, NEW l, WellFormed(S, l), NEW p \in Listed(l)
  PROVE  /\ WellFormed(S, Terminated(l, p))
         /\ Listed(Terminated(l, p)) = Listed(l) \ {p}
         /\ ActivePipes(Terminated(l, p)) = ActivePipes(l) \ {p}
         /\ Terminated(l, p).more = l.more
         /\ IF p \in ActivePipes(l)
            THEN /\ Terminated(l, p).active = l.active - 1
                 /\ Terminated(l, p).current = (IF l.current = l.active - 1 THEN 0 ELSE l.current)
                 /\ \A k \in 1 .. (l.active - 1) : Terminated(l, p).pipes[k] =
                      IF k = Index(l, p) + 1 THEN l.pipes[l.active] ELSE l.pipes[k]
            ELSE /\ Terminated(l, p).active = l.active
                 /\ Terminated(l, p).current = l.current
                 /\ \A k \in 1 .. l.active : Terminated(l, p).pipes[k] = l.pipes[k]
<1> DEFINE i == Index(l, p)
           m == IF i < l.active THEN DeactivatedAt(l, i) ELSE l
           j == Index(m, p)
           s == m.pipes
           t == Erased(s, j)
           n == WithPipes(m, t)
<1>1. /\ i \in Nat /\ i < Len(l.pipes) /\ l.pipes[i + 1] = p
      /\ p \in ActivePipes(l) <=> i < l.active
  BY IndexOf
<1>2. Terminated(l, p) = n
  BY DEF Terminated, DeactivatedAt, WithTurn, WithPipes
<1> HIDE DEF i
<1>3. /\ WellFormed(S, m) /\ Listed(m) = Listed(l) /\ ActivePipes(m) = ActivePipes(l) \ {p}
      /\ m.more = l.more
  BY <1>1, DeactivatedAtList
<1>4. IF p \in ActivePipes(l)
      THEN /\ m.active = l.active - 1
           /\ m.current = (IF l.current = l.active - 1 THEN 0 ELSE l.current)
           /\ \A k \in 1 .. (l.active - 1) : s[k] = IF k = i + 1 THEN l.pipes[l.active] ELSE l.pipes[k]
      ELSE m = l
  BY <1>1, DeactivatedAtList
<1> HIDE DEF m
<1>5. /\ j \in Nat /\ j < Len(s) /\ s[j + 1] = p /\ ~(j < m.active)
  BY <1>3, IndexOf
<1>6. /\ s \in Seq(S) /\ Len(s) \in Nat /\ m.active \in Nat /\ m.current \in Nat
      /\ m.more \in BOOLEAN /\ m.active <= Len(s)
      /\ m.current < m.active \/ m.current = 0
      /\ m \in PipeLists(S)
      /\ \A h, k \in 1 .. Len(s) : s[h] = s[k] => h = k
  BY <1>3, Fields DEF WellFormed
<1>7. Listed(m) = {s[k] : k \in 1 .. Len(s)} /\ ActivePipes(m) = {s[k] : k \in 1 .. m.active}
  BY DEF Listed, ActivePipes
<1> HIDE DEF j, s
<1>8. /\ t \in Seq(S) /\ Len(t) = Len(s) - 1
      /\ \A k \in 1 .. (Len(s) - 1) : t[k] = IF k = j + 1 THEN s[Len(s)] ELSE s[k]
  <2> DEFINE u == [s EXCEPT ![j + 1] = s[Len(s)]]
  <2>1. j + 1 \in 1 .. Len(s) /\ Len(s) \in 1 .. Len(s)
    BY <1>5, <1>6
  <2>2. s[Len(s)] \in S
    BY <1>6, <2>1
  <2>3. u \in Seq(S) /\ Len(u) = Len(s)
        /\ \A k \in 1 .. Len(s) : u[k] = IF k = j + 1 THEN s[Len(s)] ELSE s[k]
    BY <1>6, <2>1, <2>2
  <2>4. t = SubSeq(u, 1, Len(s) - 1)
    BY DEF Erased
  <2> HIDE DEF u, t
  <2>5. Len(s) - 1 \in Nat
    BY <2>1
  <2> QED BY <1>6, <2>1, <2>3, <2>4, <2>5
<1> HIDE DEF t, n
<1>9. /\ n \in PipeLists(S)
      /\ n.pipes = t /\ n.active = m.active /\ n.current = m.current /\ n.more = m.more
  <2>1. /\ WithPipes(m, t) \in PipeLists(S)
        /\ WithPipes(m, t).pipes = t /\ WithPipes(m, t).active = m.active
        /\ WithPipes(m, t).current = m.current /\ WithPipes(m, t).more = m.more
    BY <1>6, <1>8, WithPipesFields
  <2> QED BY <2>1 DEF n
<1>10. \A k \in 1 .. (Len(s) - 1) : k \in 1 .. Len(s) /\ k # Len(s)
  BY <1>6
<1>11. Len(s) \in 1 .. Len(s) /\ j + 1 \in 1 .. Len(s)
  BY <1>5, <1>6
<1>12. NoTwice(t)
  <2> SUFFICES ASSUME NEW h \in 1 .. (Len(s) - 1), NEW k \in 1 .. (Len(s) - 1), t[h] = t[k]
               PROVE  h = k
    BY <1>8 DEF NoTwice
  <2>1. t[h] = (IF h = j + 1 THEN s[Len(s)] ELSE s[h]) /\ t[k] = (IF k = j + 1 THEN s[Len(s)] ELSE s[k])
    BY <1>8
  <2>2. h \in 1 .. Len(s) /\ h # Len(s) /\ k \in 1 .. Len(s) /\ k # Len(s)
    BY <1>10
  <2>3. s[h] # s[Len(s)] /\ s[k] # s[Len(s)] /\ (s[h] = s[k] => h = k)
    BY <1>6, <1>11, <2>2
  <2> QED BY <2>1, <2>3
<1>13. \A k \in 1 .. m.active : k \in 1 .. (Len(s) - 1) /\ t[k] = s[k]
  BY <1>5, <1>6, <1>8
<1>14. WellFormed(S, n)
  <2>1. m.active <= Len(s) - 1
    BY <1>5, <1>6
  <2> QED BY <1>6, <1>8, <1>9, <1>12, <2>1 DEF WellFormed
<1>15. Listed(n) = Listed(m) \ {p}
  <2>1. Listed(n) = {t[k] : k \in 1 .. (Len(s) - 1)}
    BY <1>8, <1>9 DEF Listed
  <2>2. ASSUME NEW k \in 1 .. (Len(s) - 1) PROVE t[k] \in Listed(m) \ {p}
    <3>1. CASE k = j + 1
      <4>1. t[k] = s[Len(s)] /\ Len(s) # j + 1
        BY <1>8, <1>10, <3>1
      <4> QED BY <1>5, <1>6, <1>7, <1>11, <4>1
    <3>2. CASE k # j + 1
      <4>1. t[k] = s[k]
        BY <1>8, <3>2
      <4> QED BY <1>5, <1>6, <1>7, <1>10, <1>11, <3>2, <4>1
    <3> QED BY <3>1, <3>2
  <2>3. ASSUME NEW k \in 1 .. Len(s), s[k] # p PROVE \E h \in 1 .. (Len(s) - 1) : t[h] = s[k]
    <3>1. k # j + 1
      BY <1>5, <2>3
    <3>2. CASE k = Len(s)
      <4>1. j + 1 \in 1 .. (Len(s) - 1)
        BY <1>6, <1>11, <3>1, <3>2
      <4> QED BY <1>8, <3>2, <4>1
    <3>3. CASE k # Len(s)
      <4>1. k \in 1 .. (Len(s) - 1)
        BY <1>6, <3>3
      <4> QED BY <1>8, <3>1, <4>1
    <3> QED BY <3>2, <3>3
  <2> QED BY <1>7, <2>1, <2>2, <2>3
<1>16. ActivePipes(n) = ActivePipes(m)
  BY <1>7, <1>9, <1>13 DEF ActivePipes
<1>17. CASE p \in ActivePipes(l)
  BY <1>2, <1>3, <1>4, <1>9, <1>13, <1>14, <1>15, <1>16, <1>17 DEF i, n
<1>18. CASE p \notin ActivePipes(l)
  <2>1. s = l.pipes
    BY <1>4, <1>18 DEF s
  <2> QED BY <1>2, <1>3, <1>4, <1>9, <1>13, <1>14, <1>15, <1>16, <1>18, <2>1 DEF i, n
<1> QED BY <1>17, <1>18
=============================================================================
