--------------------------- MODULE DataBaseProofs ---------------------------
(***************************************************************************)
(* What holds of DataBase for every set of data and packets and for every  *)
(* length of a request.                                                    *)
(***************************************************************************)
EXTENDS DataBase, TLAPS

\* Where a call of tuneFunctions is in its two loops.
Places == [row : Nat, column : Nat]

\* Advancing moves the running call only, to a column of its own or the next.
LEMMA AdvancedPlace ==
  ASSUME NEW s \in Seq(Places), Len(s) > 0, formula \in Seq(Seq(DOMAIN avaiablePacks))
  PROVE  /\ Advanced(s) \in Seq(Places)
         /\ Len(Advanced(s)) = Len(s)
         /\ \A k \in 1..(Len(s) - 1) : Advanced(s)[k] = s[k]
         /\ Advanced(s)[Len(s)].column =
              IF s[Len(s)].column + 1 < Len(formula) THEN s[Len(s)].column + 1
              ELSE Len(s) - 1
<1> DEFINE f == s[Len(s)]
           g == IF f.column + 1 < Len(formula) THEN [f EXCEPT !.column = @ + 1]
                ELSE [row |-> f.row + 1, column |-> Len(s) - 1]
<1>1. Len(s) \in 1..Len(s) /\ Len(formula) \in Nat /\ Len(s) - 1 \in Nat
  OBVIOUS
<1>2. f \in Places /\ f.column \in Nat /\ f.row \in Nat
  <2>1. f \in Places
    BY <1>1
  <2> QED BY <2>1 DEF Places
<1>3. Advanced(s) = [s EXCEPT ![Len(s)] = g]
  BY DEF Advanced, Last
<1>4. g \in Places
  <2> HIDE DEF f
  <2>1. [f EXCEPT !.column = f.column + 1] \in Places
    BY <1>2 DEF Places
  <2>2. [row |-> f.row + 1, column |-> Len(s) - 1] \in Places
    BY <1>1, <1>2 DEF Places
  <2> QED BY <2>1, <2>2
<1>5. g.column = IF f.column + 1 < Len(formula) THEN f.column + 1 ELSE Len(s) - 1
  BY <1>1, <1>2 DEF Places
<1> HIDE DEF g
<1> QED BY <1>1, <1>3, <1>4, <1>5

\* The outer calls that remain when the innermost one has returned.
LEMMA FrontPlaces ==
  ASSUME NEW s \in Seq(Places), Len(s) > 1
  PROVE  /\ Front(s) \in Seq(Places)
         /\ Len(Front(s)) = Len(s) - 1
         /\ \A k \in 1..(Len(s) - 1) : Front(s)[k] = s[k]
         /\ Last(Front(s)) = s[Len(s) - 1]
  BY DEF Front, Last

\* Clauses of known packets stay such when packets are added.
LEMMA MoreProviders ==
  ASSUME NEW S, NEW T, S \subseteq T
  PROVE  Seq(S) \subseteq Seq(T)
  OBVIOUS

\* An index entry, or the empty one that index[data] makes, is a clause of
\* known packets.
LEMMA ProvidersType ==
  ASSUME TypeOK, NEW d
  PROVE  Providers(d) \in Seq(DOMAIN avaiablePacks)
<1>1. <<>> \in Seq(DOMAIN avaiablePacks)
  OBVIOUS
<1>2. d \in DOMAIN index => index[d] \in Seq(DOMAIN avaiablePacks)
  BY DEF TypeOK
<1> QED BY <1>1, <1>2 DEF Providers

\* While the search runs: the place of the running call, and where it is in
\* the formula.
LEMMA RunningPlace ==
  ASSUME TypeOK, SearchInBounds, pc \in {"tuning", "returning"}
  PROVE  /\ Len(stack) > 0 /\ Len(stack) \in 1..Len(stack)
         /\ Frame = stack[Len(stack)]
         /\ Frame \in Places /\ Frame.row \in Nat /\ Frame.column \in Nat
         /\ Frame.column + 1 \in 1..Len(formula)
         /\ formula[Frame.column + 1] \in Seq(DOMAIN avaiablePacks)
         /\ InClause => FlagAtFrame \in DOMAIN avaiablePacks
<1>1. Len(stack) > 0 /\ Len(stack) \in 1..Len(stack)
  BY DEF TypeOK, SearchInBounds
<1>2. Frame = stack[Len(stack)]
  BY DEF Frame, Last
<1>3. Frame \in Places
  <2>1. stack \in Seq(Places)
    BY DEF TypeOK, Places
  <2> QED BY <1>1, <1>2, <2>1
<1>4. Frame.row \in Nat /\ Frame.column \in Nat
  BY <1>3 DEF Places
<1>5. Frame.column + 1 \in 1..Len(formula)
  <2>1. Frame.column \in (Len(stack) - 1)..(Len(formula) - 1)
    BY <1>1, <1>2 DEF SearchInBounds
  <2> QED BY <1>4, <2>1 DEF TypeOK
<1>6. formula[Frame.column + 1] \in Seq(DOMAIN avaiablePacks)
  BY <1>5 DEF TypeOK
<1>7. InClause => FlagAtFrame \in DOMAIN avaiablePacks
  BY <1>4, <1>6 DEF InClause, FlagAtFrame
<1> QED BY <1>1, <1>2, <1>3, <1>4, <1>5, <1>6, <1>7

\* A step that raises or lowers one flag of a known packet keeps the types of
\* everything that is stated in terms of the known packets.
LEMMA FlagType ==
  ASSUME TypeOK, NEW p \in DOMAIN avaiablePacks, NEW b \in BOOLEAN,
         avaiablePacks' = [avaiablePacks EXCEPT ![p] = b]
  PROVE  /\ DOMAIN avaiablePacks' = DOMAIN avaiablePacks
         /\ \A q \in DOMAIN avaiablePacks' : avaiablePacks'[q] \in BOOLEAN
<1>1. DOMAIN avaiablePacks' = DOMAIN avaiablePacks
  OBVIOUS
<1>2. \A q \in DOMAIN avaiablePacks : avaiablePacks'[q] = IF q = p THEN b ELSE avaiablePacks[q]
  OBVIOUS
<1> QED BY <1>1, <1>2 DEF TypeOK

\* The invariant of the loops and of the recursion.
BoundsInv == TypeOK /\ SearchInBounds

\* An empty data base searches nothing.
LEMMA BoundsInit == Init => BoundsInv
<1> SUFFICES ASSUME Init PROVE BoundsInv
  OBVIOUS
<1>1. DOMAIN index = {} /\ DOMAIN avaiablePacks = {}
  BY DEF Init
<1>2. /\ request \in Seq(Data) /\ listed \in 0..Len(request)
      /\ formula \in Seq(Seq(DOMAIN avaiablePacks))
      /\ stack \in Seq([row : Nat, column : Nat])
  BY DEF Init
<1>3. added \in 0..MaxAdded /\ result \subseteq DOMAIN avaiablePacks
  BY DataBaseAssumption DEF Init
<1> QED BY <1>1, <1>2, <1>3 DEF Init, BoundsInv, TypeOK, SearchInBounds

\* addPacket runs between requests and touches no frame.
LEMMA BoundsAddPacket ==
  ASSUME BoundsInv, NEW p \in Packs, NEW content \in SUBSET Data, AddPacket(p, content)
  PROVE  BoundsInv'
<1> USE DEF BoundsInv
<1>1. DOMAIN avaiablePacks' = DOMAIN avaiablePacks \cup {p}
  BY DEF AddPacket
<1>2. \A q \in DOMAIN avaiablePacks' : avaiablePacks'[q] \in BOOLEAN
  BY DEF AddPacket, TypeOK
<1>3. Seq(DOMAIN avaiablePacks) \subseteq Seq(DOMAIN avaiablePacks')
  BY <1>1, MoreProviders
<1>4. formula' \in Seq(Seq(DOMAIN avaiablePacks'))
  <2>1. Seq(Seq(DOMAIN avaiablePacks)) \subseteq Seq(Seq(DOMAIN avaiablePacks'))
    BY <1>3, MoreProviders
  <2> QED BY <2>1 DEF AddPacket, searchVars, requestVars, TypeOK
<1>5. DOMAIN index' \subseteq Data
  BY DEF AddPacket, TypeOK
<1>6. \A d \in DOMAIN index' : index'[d] \in Seq(DOMAIN avaiablePacks')
  <2> SUFFICES ASSUME NEW d \in DOMAIN index'
               PROVE  index'[d] \in Seq(DOMAIN avaiablePacks')
    OBVIOUS
  <2>1. Providers(d) \in Seq(DOMAIN avaiablePacks')
    BY <1>3, ProvidersType
  <2>2. p \in DOMAIN avaiablePacks'
    BY <1>1
  <2>3. Append(Providers(d), p) \in Seq(DOMAIN avaiablePacks')
    BY <2>1, <2>2
  <2>4. CASE d \in content
    BY <2>3, <2>4 DEF AddPacket
  <2>5. CASE d \notin content
    <3>1. d \in DOMAIN index /\ index'[d] = index[d]
      BY <2>5 DEF AddPacket
    <3> QED BY <3>1, <1>3 DEF TypeOK
  <2> QED BY <2>4, <2>5
<1>7. added' \in 0..MaxAdded /\ pc' = "idle"
  BY DataBaseAssumption DEF AddPacket, TypeOK
<1>8. result' \subseteq DOMAIN avaiablePacks' \/ result' = NotFound
  BY <1>1 DEF AddPacket, searchVars, TypeOK
<1>9. /\ request' = request /\ listed' = listed /\ maxSize' = maxSize
      /\ recCallNum' = recCallNum /\ stack' = stack /\ res' = res
  BY DEF AddPacket, searchVars, requestVars
<1>10. DOMAIN avaiablePacks' \subseteq Packs
  BY <1>1 DEF TypeOK
<1>11. before' \subseteq DOMAIN avaiablePacks'
  BY <1>1 DEF AddPacket, searchVars, requestVars, TypeOK
<1> QED BY <1>2, <1>4, <1>5, <1>6, <1>7, <1>8, <1>9, <1>10, <1>11 DEF TypeOK, SearchInBounds

\* A request starts with nothing listed and no frame.
LEMMA BoundsProvide ==
  ASSUME BoundsInv, NEW k \in 0..MaxRequest, NEW r \in [1..k -> Data], ProvidePackets(r)
  PROVE  BoundsInv'
<1> USE DEF BoundsInv
<1>1. r \in Seq(Data) /\ Len(r) = k
  BY DataBaseAssumption
<1>2. before' \subseteq DOMAIN avaiablePacks
  BY DEF ProvidePackets, Taken
<1> QED BY <1>1, <1>2, DataBaseAssumption DEF ProvidePackets, TypeOK, SearchInBounds

\* A round of the first loop of providePackets opens no frame.
LEMMA BoundsListDatum ==
  ASSUME BoundsInv, ListDatum
  PROVE  BoundsInv'
<1> USE DEF BoundsInv
<1> DEFINE data == request[listed + 1]
           orClause == Providers(data)
<1>1. data \in Data
  BY DEF ListDatum, TypeOK
<1>2. orClause \in Seq(DOMAIN avaiablePacks)
  BY ProvidersType
<1> HIDE DEF orClause
<1>3. /\ DOMAIN avaiablePacks' = DOMAIN avaiablePacks
      /\ \A q \in DOMAIN avaiablePacks' : avaiablePacks'[q] \in BOOLEAN
  <2>1. CASE Len(orClause) = 1
    <3>1. orClause[1] \in DOMAIN avaiablePacks
      BY <1>2, <2>1
    <3>2. avaiablePacks' = [avaiablePacks EXCEPT ![orClause[1]] = TRUE]
      BY <2>1 DEF ListDatum, orClause
    <3> QED BY <3>1, <3>2, FlagType
  <2>2. CASE Len(orClause) # 1
    BY <2>2 DEF ListDatum, orClause, TypeOK
  <2> QED BY <2>1, <2>2
<1>4. formula' \in Seq(Seq(DOMAIN avaiablePacks')) /\ maxSize' \in Nat
  <2>1. \/ formula' = formula /\ maxSize' = maxSize
        \/ formula' = Append(formula, orClause) /\ maxSize' \in {Len(orClause), maxSize}
    BY DEF ListDatum, orClause
  <2>2. formula \in Seq(Seq(DOMAIN avaiablePacks)) /\ maxSize \in Nat
    BY DEF TypeOK
  <2>3. /\ Append(formula, orClause) \in Seq(Seq(DOMAIN avaiablePacks))
        /\ Len(orClause) \in Nat
    BY <1>2, <2>2
  <2> QED BY <1>3, <2>1, <2>2, <2>3
<1>5. DOMAIN index' = DOMAIN index \cup {data}
  BY DEF ListDatum
<1>6. \A d \in DOMAIN index' : index'[d] \in Seq(DOMAIN avaiablePacks')
  <2>1. \A d \in DOMAIN index' : index'[d] = Providers(d)
    BY DEF ListDatum
  <2> QED BY <2>1, <1>3, ProvidersType
<1>7. listed' \in 0..Len(request)
  BY DEF ListDatum, TypeOK
<1>8. pc' = "listing" /\ UNCHANGED <<added, request, before, recCallNum, stack, res, result>>
  BY DEF ListDatum
<1> QED BY <1>1, <1>3, <1>4, <1>5, <1>6, <1>7, <1>8 DEF TypeOK, SearchInBounds

\* The common end of providePackets, whichever loop it leaves.
LEMMA BoundsCollect ==
  ASSUME BoundsInv, Collect, UNCHANGED <<index, added, requestVars, res>>
  PROVE  BoundsInv'
<1> USE DEF BoundsInv
<1>1. /\ DOMAIN avaiablePacks' = DOMAIN avaiablePacks
      /\ \A q \in DOMAIN avaiablePacks' : avaiablePacks'[q] \in BOOLEAN
  BY DEF Collect, resetPackets
<1>2. result' \subseteq DOMAIN avaiablePacks'
  BY <1>1 DEF Collect, Taken
<1>3. pc' = "answered" /\ stack' = <<>> /\ recCallNum' = recCallNum
  BY DEF Collect
<1> QED BY <1>1, <1>2, <1>3 DEF requestVars, TypeOK, SearchInBounds

\* A search that begins is at the first place of the formula.
LEMMA BoundsTune ==
  ASSUME BoundsInv, NEW i \in Nat, i < Len(formula), Tune(i),
         UNCHANGED <<index, added, requestVars, res>>
  PROVE  BoundsInv'
<1> USE DEF BoundsInv
<1>1. [row |-> 0, column |-> 0] \in Places
  BY DEF Places
<1>2. stack' \in Seq(Places) /\ Len(stack') = 1 /\ stack'[1].column = 0
  BY <1>1 DEF Tune
<1>3. pc' = "tuning" /\ recCallNum' = i /\ UNCHANGED <<avaiablePacks, result>>
  BY DEF Tune
<1>4. TypeOK'
  BY <1>2, <1>3 DEF TypeOK, requestVars, Places
<1>5. SearchInBounds'
  <2>1. Len(formula) \in Nat /\ formula' = formula
    BY DEF TypeOK, requestVars
  <2> QED BY <1>2, <1>3, <2>1 DEF SearchInBounds
<1> QED BY <1>4, <1>5

\* The outermost call starts at the first clause, if there is one.
LEMMA BoundsEndListing ==
  ASSUME BoundsInv, EndListing
  PROVE  BoundsInv'
<1>1. CASE formula = <<>>
  BY <1>1, BoundsCollect DEF EndListing
<1>2. CASE formula # <<>>
  <2>1. Len(formula) > 0
    BY <1>2 DEF BoundsInv, TypeOK
  <2> QED BY <1>2, <2>1, BoundsTune DEF EndListing
<1> QED BY <1>1, <1>2

\* A call that goes on to its next place.
LEMMA BoundsAdvance ==
  ASSUME BoundsInv, pc \in {"tuning", "returning"}, NEW n \in 1..Len(stack),
         NEW s \in Seq(Places), Len(s) = n, \A k \in 1..n : s[k] = stack[k],
         stack' = Advanced(s), pc' = "tuning",
         DOMAIN avaiablePacks' = DOMAIN avaiablePacks,
         \A q \in DOMAIN avaiablePacks' : avaiablePacks'[q] \in BOOLEAN,
         UNCHANGED <<index, added, requestVars, recCallNum, res, result>>
  PROVE  BoundsInv'
<1> USE DEF BoundsInv
<1>1. /\ formula \in Seq(Seq(DOMAIN avaiablePacks)) /\ Len(formula) \in Nat
      /\ Len(s) > 0 /\ Len(stack) \in Nat /\ recCallNum \in Nat
  BY DEF TypeOK
<1>2. /\ stack' \in Seq(Places) /\ Len(stack') = n
      /\ \A k \in 1..(n - 1) : stack'[k] = stack[k]
      /\ stack'[n].column = IF stack[n].column + 1 < Len(formula)
                            THEN stack[n].column + 1 ELSE n - 1
  <2>1. s[n] = stack[n] /\ \A k \in 1..(n - 1) : s[k] = stack[k]
    OBVIOUS
  <2>2. /\ Advanced(s) \in Seq(Places)
        /\ Len(Advanced(s)) = Len(s)
        /\ \A k \in 1..(Len(s) - 1) : Advanced(s)[k] = s[k]
        /\ Advanced(s)[Len(s)].column =
             IF s[Len(s)].column + 1 < Len(formula) THEN s[Len(s)].column + 1
             ELSE Len(s) - 1
    BY <1>1, AdvancedPlace
  <2> QED BY <2>1, <2>2
<1>3. TypeOK'
  BY <1>2 DEF TypeOK, requestVars, Places
<1>4. SearchInBounds'
  <2>1. formula' = formula /\ recCallNum' = recCallNum
    BY DEF requestVars
  <2>2. recCallNum < Len(formula) /\ n \in 1..(recCallNum + 1)
    BY <1>1 DEF SearchInBounds
  <2>3. ASSUME NEW k \in 1..n
        PROVE  stack'[k].column \in (k - 1)..(Len(formula) - 1)
    <3>1. stack[k].column \in (k - 1)..(Len(formula) - 1)
      BY <1>1 DEF SearchInBounds
    <3>2. CASE k = n
      BY <1>1, <1>2, <2>2, <3>1, <3>2
    <3>3. CASE k # n
      <4>1. k \in 1..(n - 1)
        BY <1>1, <3>3
      <4> QED BY <1>2, <3>1, <4>1
    <3> QED BY <3>2, <3>3
  <2>4. ASSUME NEW k \in 1..(n - 1)
        PROVE  stack'[k].row < Len(formula[stack'[k].column + 1])
    <3>1. k \in 1..(Len(stack) - 1) /\ stack'[k] = stack[k]
      BY <1>1, <1>2
    <3>2. stack[k].row < Len(formula[stack[k].column + 1])
      BY <3>1 DEF SearchInBounds
    <3> QED BY <3>1, <3>2
  <2> QED BY <1>2, <2>1, <2>2, <2>3, <2>4 DEF SearchInBounds
<1> QED BY <1>3, <1>4

\* A place outside its clause: the loops go on inside the formula.
LEMMA BoundsSkipPlace ==
  ASSUME BoundsInv, SkipPlace
  PROVE  BoundsInv'
<1>1. /\ stack \in Seq(Places) /\ Len(stack) \in 1..Len(stack)
      /\ \A q \in DOMAIN avaiablePacks : avaiablePacks[q] \in BOOLEAN
  BY RunningPlace DEF BoundsInv, SkipPlace, TypeOK, Places
<1>2. /\ pc = "tuning" /\ pc' = "tuning" /\ stack' = Advanced(stack)
      /\ UNCHANGED <<avaiablePacks, index, added, requestVars, recCallNum, res, result>>
  BY DEF SkipPlace
<1> QED BY <1>1, <1>2, BoundsAdvance

\* A place that is tried: the call returns, or goes on inside the formula.
LEMMA BoundsTryPlace ==
  ASSUME BoundsInv, TryPlace
  PROVE  BoundsInv'
<1>1. /\ TypeOK /\ stack \in Seq(Places) /\ Len(stack) \in 1..Len(stack)
      /\ FlagAtFrame \in DOMAIN avaiablePacks
  BY RunningPlace DEF BoundsInv, TryPlace, TypeOK, Places
<1>2. evaluateAND \in BOOLEAN
  BY DEF evaluateAND
<1>3. /\ DOMAIN avaiablePacks' = DOMAIN avaiablePacks
      /\ \A q \in DOMAIN avaiablePacks' : avaiablePacks'[q] \in BOOLEAN
  BY <1>1, <1>2, FlagType DEF TryPlace
<1>4. pc = "tuning" /\ UNCHANGED <<index, added, requestVars, recCallNum, result>>
  BY DEF TryPlace
<1>5. CASE evaluateAND
  <2>1. pc' = "returning" /\ res' = TRUE /\ UNCHANGED stack
    BY <1>5 DEF TryPlace
  <2> QED BY <1>3, <1>4, <2>1 DEF BoundsInv, TypeOK, SearchInBounds, requestVars
<1>6. CASE ~evaluateAND
  <2>1. stack' = Advanced(stack) /\ UNCHANGED <<pc, res>>
    BY <1>6 DEF TryPlace
  <2> QED BY <1>1, <1>3, <1>4, <2>1, BoundsAdvance
<1> QED BY <1>5, <1>6

\* The nested call starts at the column of its number, which the formula has
\* because the recursion is not deeper than recCallNum.
LEMMA BoundsRecur ==
  ASSUME BoundsInv, Recur
  PROVE  BoundsInv'
<1>1. /\ TypeOK /\ stack \in Seq(Places) /\ Len(stack) \in 1..Len(stack)
      /\ FlagAtFrame \in DOMAIN avaiablePacks
      /\ Frame = stack[Len(stack)]
  BY RunningPlace DEF BoundsInv, Recur, TypeOK, Places
<1>2. /\ DOMAIN avaiablePacks' = DOMAIN avaiablePacks
      /\ \A q \in DOMAIN avaiablePacks' : avaiablePacks'[q] \in BOOLEAN
  BY <1>1, FlagType DEF Recur
<1>3. /\ pc = "tuning" /\ pc' = "tuning" /\ InClause /\ recCallNum # Len(stack) - 1
      /\ UNCHANGED <<index, added, requestVars, recCallNum, res, result>>
  BY DEF Recur, callNumber
<1>4. stack' = Append(stack, [row |-> 0, column |-> Len(stack)])
  BY <1>1 DEF Recur, callNumber
<1>5. /\ stack' \in Seq(Places) /\ Len(stack') = Len(stack) + 1
      /\ \A k \in 1..Len(stack) : stack'[k] = stack[k]
      /\ stack'[Len(stack) + 1].column = Len(stack)
  <2>1. [row |-> 0, column |-> Len(stack)] \in Places
    BY <1>1 DEF Places
  <2> QED BY <1>1, <1>4, <2>1
<1>6. TypeOK'
  BY <1>2, <1>3, <1>5 DEF BoundsInv, TypeOK, requestVars, Places
<1>7. SearchInBounds'
  <2>1. /\ Len(formula) \in Nat /\ recCallNum \in Nat
        /\ formula' = formula /\ recCallNum' = recCallNum
    BY <1>3 DEF BoundsInv, TypeOK, requestVars
  <2>2. recCallNum < Len(formula) /\ Len(stack) < recCallNum + 1
    BY <1>1, <1>3, <2>1 DEF BoundsInv, SearchInBounds
  <2>3. ASSUME NEW k \in 1..(Len(stack) + 1)
        PROVE  stack'[k].column \in (k - 1)..(Len(formula) - 1)
    <3>1. CASE k = Len(stack) + 1
      BY <1>1, <1>5, <2>1, <2>2, <3>1
    <3>2. CASE k \in 1..Len(stack)
      BY <1>3, <1>5, <3>2 DEF BoundsInv, SearchInBounds
    <3> QED BY <1>1, <3>1, <3>2
  <2>4. ASSUME NEW k \in 1..Len(stack)
        PROVE  stack'[k].row < Len(formula[stack'[k].column + 1])
    <3>1. CASE k = Len(stack)
      BY <1>1, <1>3, <1>5, <3>1 DEF InClause
    <3>2. CASE k \in 1..(Len(stack) - 1)
      BY <1>3, <1>5, <3>2 DEF BoundsInv, SearchInBounds
    <3> QED BY <1>1, <3>1, <3>2
  <2> QED BY <1>1, <1>5, <2>1, <2>2, <2>3, <2>4 DEF SearchInBounds
<1> QED BY <1>6, <1>7 DEF BoundsInv

\* The loops are over: the frame returns without looking at the formula.
LEMMA BoundsFallOff ==
  ASSUME BoundsInv, FallOff
  PROVE  BoundsInv'
  BY DEF BoundsInv, FallOff, TypeOK, SearchInBounds, requestVars

\* A nested call returns to a frame that is inside the formula.
LEMMA BoundsReturnToCaller ==
  ASSUME BoundsInv, ReturnToCaller
  PROVE  BoundsInv'
<1> DEFINE s == Front(stack)
           n == Len(stack) - 1
           f == stack[n]
           p == formula[f.column + 1][f.row + 1]
<1>1. /\ TypeOK /\ stack \in Seq(Places) /\ Len(stack) > 1 /\ Len(stack) \in Nat
      /\ pc = "returning" /\ Len(formula) \in Nat /\ recCallNum \in Nat
      /\ UNCHANGED <<index, added, requestVars, recCallNum, res, result>>
  BY DEF BoundsInv, ReturnToCaller, TypeOK, Places
<1>2. n \in 1..Len(stack) /\ n \in 1..n /\ n \in 1..(Len(stack) - 1)
  BY <1>1
<1>3. /\ s \in Seq(Places) /\ Len(s) = n
      /\ \A k \in 1..n : s[k] = stack[k]
      /\ Last(s) = f
  BY <1>1, FrontPlaces
<1>4. p \in DOMAIN avaiablePacks
  <2>1. /\ f.column \in (n - 1)..(Len(formula) - 1)
        /\ f.row < Len(formula[f.column + 1])
    BY <1>1, <1>2 DEF BoundsInv, SearchInBounds
  <2>2. f.row \in Nat /\ f.column \in Nat
    <3>1. f \in Places
      BY <1>1, <1>2
    <3> QED BY <3>1 DEF Places
  <2>3. f.column + 1 \in 1..Len(formula)
    BY <1>1, <2>1, <2>2
  <2>4. formula[f.column + 1] \in Seq(DOMAIN avaiablePacks)
    <3>1. formula \in Seq(Seq(DOMAIN avaiablePacks))
      BY <1>1 DEF TypeOK
    <3> HIDE DEF f
    <3> QED BY ONLY <2>3, <3>1
  <2> QED BY <2>1, <2>2, <2>4
<1>5. CASE res
  <2>1. stack' = s /\ UNCHANGED <<avaiablePacks, pc>>
    BY <1>5 DEF ReturnToCaller
  <2>2. TypeOK'
    BY <1>1, <1>3, <2>1 DEF TypeOK, requestVars, Places
  <2>3. SearchInBounds'
    <3>1. /\ recCallNum < Len(formula) /\ n \in 1..(recCallNum + 1)
          /\ formula' = formula /\ recCallNum' = recCallNum
      BY <1>1 DEF BoundsInv, SearchInBounds, requestVars
    <3>2. ASSUME NEW k \in 1..n
          PROVE  stack'[k].column \in (k - 1)..(Len(formula) - 1)
      <4>1. k \in 1..Len(stack) /\ stack'[k] = stack[k]
        BY <1>1, <1>3, <2>1
      <4> QED BY <1>1, <4>1 DEF BoundsInv, SearchInBounds
    <3>3. ASSUME NEW k \in 1..(n - 1)
          PROVE  stack'[k].row < Len(formula[stack'[k].column + 1])
      <4>1. k \in 1..(Len(stack) - 1) /\ stack'[k] = stack[k]
        BY <1>1, <1>3, <2>1
      <4> QED BY <1>1, <4>1 DEF BoundsInv, SearchInBounds
    <3> QED BY <1>3, <2>1, <3>1, <3>2, <3>3 DEF SearchInBounds
  <2> QED BY <2>2, <2>3 DEF BoundsInv
<1>6. CASE ~res
  <2>1. /\ avaiablePacks' = [avaiablePacks EXCEPT ![p] = FALSE]
        /\ stack' = Advanced(s)
        /\ pc' = "tuning"
    BY <1>3, <1>6 DEF ReturnToCaller
  <2>2. /\ DOMAIN avaiablePacks' = DOMAIN avaiablePacks
        /\ \A q \in DOMAIN avaiablePacks' : avaiablePacks'[q] \in BOOLEAN
    BY <1>1, <1>4, <2>1, FlagType
  <2> HIDE DEF s, n
  <2> QED BY <1>1, <1>2, <1>3, <2>1, <2>2, BoundsAdvance
<1> QED BY <1>5, <1>6

\* The outermost call returns and leaves no frame.
LEMMA BoundsReturnToProvide ==
  ASSUME BoundsInv, ReturnToProvide
  PROVE  BoundsInv'
<1>1. UNCHANGED <<index, added, requestVars, res>>
  BY DEF ReturnToProvide
<1>2. CASE Collect
  BY <1>1, <1>2, BoundsCollect
<1>3. CASE recCallNum < Len(formula) - 1 /\ Tune(recCallNum + 1)
  <2>1. recCallNum + 1 \in Nat /\ recCallNum + 1 < Len(formula)
    BY <1>3 DEF BoundsInv, TypeOK
  <2> QED BY <1>1, <1>3, <2>1, BoundsTune
<1>4. CASE Refuse
  BY <1>1, <1>4 DEF Refuse, BoundsInv, TypeOK, SearchInBounds, requestVars
<1> QED BY <1>2, <1>3, <1>4 DEF ReturnToProvide

\* Every step keeps the search inside the formula.
LEMMA BoundsStep ==
  ASSUME BoundsInv, [Next]_dbVars
  PROVE  BoundsInv'
<1>1. CASE UNCHANGED dbVars
  BY <1>1 DEF dbVars, searchVars, requestVars, BoundsInv, TypeOK, SearchInBounds
<1>2. CASE Search
  BY <1>2, BoundsListDatum, BoundsEndListing, BoundsSkipPlace, BoundsTryPlace,
     BoundsRecur, BoundsFallOff, BoundsReturnToCaller, BoundsReturnToProvide
     DEF Search
<1> QED BY <1>1, <1>2, BoundsAddPacket, BoundsProvide DEF Next

\* The data base and the search keep their types, whatever is added and
\* requested.
THEOREM TypeCorrect == Spec => []TypeOK
<1>1. Spec => []BoundsInv
  BY BoundsInit, BoundsStep, PTL DEF Spec
<1>2. BoundsInv => TypeOK
  BY DEF BoundsInv
<1> QED BY <1>1, <1>2, PTL

\* The unchecked subscripts of tuneFunctions stay in the formula, at every
\* depth of the recursion and for formulas of any shape.
THEOREM SearchStaysInBounds == Spec => []SearchInBounds
<1>1. Spec => []BoundsInv
  BY BoundsInit, BoundsStep, PTL DEF Spec
<1>2. BoundsInv => SearchInBounds
  BY DEF BoundsInv
<1> QED BY <1>1, <1>2, PTL

-----------------------------------------------------------------------------
\* The i-th requested datum has one provider.
Single(i) == Len(Providers(request[i])) = 1

\* Every requested datum has a provider.
AllProvided == \A i \in 1..Len(request) : Providers(request[i]) # <<>>

\* What the first loop of providePackets has done: the packet of a datum with
\* one provider is taken, the first datum with several makes the first clause.
Gathered ==
  /\ \A i \in 1..listed : Single(i) => avaiablePacks[Providers(request[i])[1]]
  /\ \A i \in 1..listed :
       ~Single(i) /\ (\A j \in 1..(i - 1) : Single(j)) =>
         Len(formula) > 0 /\ formula[1] = Providers(request[i])
  /\ Len(formula) > 0 => maxSize > 0 /\ \E j \in 1..listed : ~Single(j)
  /\ \A c \in 1..Len(formula) : Len(formula[c]) > 0

\* When everything requested has a provider, the search takes the packet at
\* its first place and returns TRUE.
FoundInv ==
  /\ pc # "idle" => \A i \in 1..listed : request[i] \in DOMAIN index
  /\ pc \in {"tuning", "returning", "answered"} => listed = Len(request)
  /\ pc \in {"tuning", "returning"} => Len(formula) > 0
  /\ AllProvided =>
       /\ pc \in {"listing", "tuning", "returning"} => Gathered
       /\ pc = "tuning" => Len(stack) = 1 /\ stack[1] = [row |-> 0, column |-> 0] /\ recCallNum = 0
       /\ pc = "returning" => res /\ Len(stack) = 1 /\ avaiablePacks[formula[1][1]]
  /\ ProvidedAreFound

\* Inserting the data that index[data] does not find adds no provider.
LEMMA SameProviders ==
  ASSUME ListDatum, NEW d
  PROVE  Providers(d)' = Providers(d)
  BY DEF ListDatum, Providers

\* A clause that is not empty begins with a packet.
LEMMA FirstProvider ==
  ASSUME TypeOK, NEW d, Providers(d) # <<>>
  PROVE  /\ Len(Providers(d)) \in Nat /\ Len(Providers(d)) > 0
         /\ Providers(d)[1] \in DOMAIN avaiablePacks
<1>1. Providers(d) \in Seq(DOMAIN avaiablePacks)
  BY ProvidersType
<1> QED BY <1>1

\* Nothing is provided at the start.
LEMMA FoundInit == Init => FoundInv
<1> SUFFICES ASSUME Init PROVE FoundInv
  OBVIOUS
<1> QED BY DEF Init, FoundInv, ProvidedAreFound

\* addPacket answers nothing.
LEMMA FoundAddPacket ==
  ASSUME NEW p, NEW content, AddPacket(p, content)
  PROVE  FoundInv'
<1>1. pc' = "idle"
  BY DEF AddPacket
<1> QED BY <1>1 DEF FoundInv, ProvidedAreFound

\* A request starts with no packet listed.
LEMMA FoundProvide ==
  ASSUME NEW r, ProvidePackets(r)
  PROVE  FoundInv'
<1>1. pc' = "listing" /\ listed' = 0 /\ formula' = <<>>
  BY DEF ProvidePackets
<1>2. Gathered'
  BY <1>1 DEF Gathered
<1> QED BY <1>1, <1>2 DEF FoundInv, ProvidedAreFound

\* A round of the first loop keeps what the earlier rounds have done.
LEMMA GatheredListDatum ==
  ASSUME BoundsInv, AllProvided, Gathered, ListDatum
  PROVE  Gathered'
<1> DEFINE d == request[listed + 1]
           c == Providers(d)
<1>1. /\ TypeOK /\ pc = "listing" /\ listed < Len(request) /\ listed' = listed + 1
      /\ listed \in Nat /\ Len(request) \in Nat /\ request' = request
      /\ formula \in Seq(Seq(DOMAIN avaiablePacks)) /\ Len(formula) \in Nat
      /\ maxSize \in Nat
  BY DEF BoundsInv, TypeOK, ListDatum
<1>2. \A i : Providers(request[i])' = Providers(request[i])
  BY <1>1, SameProviders
<1>3. \A i : Single(i)' <=> Single(i)
  BY <1>2 DEF Single
<1>4. c # <<>> /\ Len(c) \in Nat /\ Len(c) > 0 /\ c[1] \in DOMAIN avaiablePacks
      /\ c \in Seq(DOMAIN avaiablePacks)
  BY <1>1, FirstProvider, ProvidersType DEF AllProvided
<1>5. Single(listed + 1) <=> Len(c) = 1
  BY DEF Single
<1>6. CASE Len(c) = 1
  <2>1. avaiablePacks' = [avaiablePacks EXCEPT ![c[1]] = TRUE] /\ UNCHANGED <<formula, maxSize>>
    BY <1>6 DEF ListDatum
  <2>2. ASSUME NEW i \in 1..(listed + 1), Single(i)
        PROVE  avaiablePacks'[Providers(request[i])[1]]
    <3>1. CASE i = listed + 1
      BY <1>4, <2>1, <3>1
    <3>2. CASE i \in 1..listed
      <4> DEFINE q == Providers(request[i])[1]
      <4>1. q \in DOMAIN avaiablePacks /\ avaiablePacks[q]
        BY <1>1, <2>2, <3>2, FirstProvider DEF AllProvided, Gathered
      <4> HIDE DEF q, c
      <4>2. avaiablePacks'[q]
        BY <2>1, <4>1
      <4> QED BY <4>2 DEF q
    <3> QED BY <1>1, <3>1, <3>2
  <2>3. ASSUME NEW i \in 1..(listed + 1), ~Single(i), \A j \in 1..(i - 1) : Single(j)
        PROVE  Len(formula) > 0 /\ formula[1] = Providers(request[i])
    <3>1. i \in 1..listed
      BY <1>1, <1>5, <1>6, <2>3
    <3> QED BY <2>3, <3>1 DEF Gathered
  <2>4. Len(formula) > 0 => maxSize > 0 /\ \E j \in 1..(listed + 1) : ~Single(j)
    BY <1>1 DEF Gathered
  <2>5. \A k \in 1..Len(formula) : Len(formula[k]) > 0
    BY DEF Gathered
  <2> QED BY <1>1, <1>2, <1>3, <2>1, <2>2, <2>3, <2>4, <2>5 DEF Gathered
<1>7. CASE Len(c) # 1
  <2>1. /\ formula' = Append(formula, c) /\ UNCHANGED avaiablePacks
        /\ maxSize' = IF Len(c) > maxSize THEN Len(c) ELSE maxSize
    BY <1>7 DEF ListDatum
  <2> HIDE DEF c
  <2>2. /\ Len(formula') = Len(formula) + 1
        /\ \A k \in 1..Len(formula) : formula'[k] = formula[k]
        /\ formula'[Len(formula) + 1] = c
    BY <1>1, <1>4, <2>1
  <2>3. ASSUME NEW i \in 1..(listed + 1), Single(i)
        PROVE  avaiablePacks'[Providers(request[i])[1]]
    <3>1. i # listed + 1
      BY <1>5, <1>7, <2>3
    <3>2. i \in 1..listed
      BY ONLY <1>1, <3>1, i \in 1..(listed + 1)
    <3> QED BY <2>1, <2>3, <3>2 DEF Gathered
  <2>4. ASSUME NEW i \in 1..(listed + 1), ~Single(i), \A j \in 1..(i - 1) : Single(j)
        PROVE  Len(formula') > 0 /\ formula'[1] = Providers(request[i])
    <3>1. CASE i = listed + 1
      <4>1. Len(formula) = 0
        BY <1>1, <2>4, <3>1 DEF Gathered
      <4> QED BY <2>2, <3>1, <4>1 DEF c
    <3>2. CASE i \in 1..listed
      <4>1. Len(formula) > 0 /\ formula[1] = Providers(request[i])
        BY <2>4, <3>2 DEF Gathered
      <4> QED BY <1>1, <2>2, <4>1
    <3> QED BY <1>1, <3>1, <3>2
  <2>5. maxSize' > 0 /\ ~Single(listed + 1) /\ listed + 1 \in 1..(listed + 1)
    BY <1>1, <1>4, <1>5, <1>7, <2>1
  <2>6. \A k \in 1..Len(formula') : Len(formula'[k]) > 0
    <3> SUFFICES ASSUME NEW k \in 1..(Len(formula) + 1)
                 PROVE  Len(formula'[k]) > 0
      BY <2>2
    <3>1. CASE k = Len(formula) + 1
      BY <1>4, <2>2, <3>1
    <3>2. CASE k \in 1..Len(formula)
      BY <2>2, <3>2 DEF Gathered
    <3>3. k \in 1..Len(formula) \/ k = Len(formula) + 1
      BY <1>1
    <3> QED BY <3>1, <3>2, <3>3
  <2> QED BY <1>1, <1>2, <1>3, <2>3, <2>4, <2>5, <2>6 DEF Gathered
<1> QED BY <1>6, <1>7

\* A datum with one provider raises its flag, one with several adds a clause.
LEMMA FoundListDatum ==
  ASSUME BoundsInv, FoundInv, ListDatum
  PROVE  FoundInv'
<1>1. pc = "listing" /\ pc' = "listing" /\ request' = request /\ listed' = listed + 1
      /\ listed \in Nat
  BY DEF ListDatum, BoundsInv, TypeOK
<1>2. DOMAIN index' = DOMAIN index \cup {request[listed + 1]}
  BY DEF ListDatum
<1>3. \A i \in 1..listed' : request'[i] \in DOMAIN index'
  BY <1>1, <1>2 DEF FoundInv
<1>4. ASSUME AllProvided' PROVE Gathered'
  <2>1. \A i : Providers(request[i])' = Providers(request[i])
    BY <1>1, SameProviders
  <2>2. AllProvided
    BY <1>1, <1>4, <2>1 DEF AllProvided
  <2> QED BY <1>1, <2>2, GatheredListDatum DEF FoundInv
<1> QED BY <1>1, <1>3, <1>4 DEF FoundInv, ProvidedAreFound

\* The answer of a search that found its packets.
LEMMA FoundCollect ==
  ASSUME BoundsInv, FoundInv, pc \in {"listing", "returning"}, listed = Len(request),
         AllProvided => Len(formula) = 0 \/ avaiablePacks[formula[1][1]],
         Collect, UNCHANGED <<index, added, requestVars, res>>
  PROVE  FoundInv'
<1>1. /\ TypeOK /\ pc' = "answered" /\ Len(request) \in Nat
      /\ request' = request /\ index' = index /\ listed' = listed
      /\ result' = {p \in DOMAIN avaiablePacks : avaiablePacks[p]}
  BY DEF BoundsInv, TypeOK, Collect, Taken, requestVars
<1>2. \A i \in 1..Len(request) : request[i] \in DOMAIN index /\ Providers(request[i]) = index[request[i]]
  BY DEF FoundInv, Providers
<1>3. ProvidedAreFound'
  <2> SUFFICES ASSUME \A d \in ToSet(request) : index[d] # <<>>
               PROVE  /\ result' # NotFound
                      /\ \A i \in 1..Len(request) :
                           Len(index[request[i]]) = 1 \/ (\A j \in 1..(i - 1) : Len(index[request[j]]) = 1)
                             => Listed(request[i])'
    BY <1>1 DEF ProvidedAreFound
  <2>1. AllProvided
    <3>1. \A i \in 1..Len(request) : request[i] \in ToSet(request)
      <4>1. DOMAIN request = 1..Len(request)
        BY DEF BoundsInv, TypeOK
      <4> QED BY <4>1 DEF ToSet
    <3> QED BY <1>2, <3>1 DEF AllProvided
  <2>2. Gathered
    BY <2>1 DEF FoundInv
  <2>3. result' # NotFound
    BY <1>1, DataBaseAssumption DEF TypeOK
  <2>4. ASSUME NEW i \in 1..Len(request),
               Len(index[request[i]]) = 1 \/ (\A j \in 1..(i - 1) : Len(index[request[j]]) = 1)
        PROVE  Listed(request[i])'
    <3> DEFINE c == Providers(request[i])
    <3>1. c # <<>> /\ c = index[request[i]] /\ c \in Seq(DOMAIN avaiablePacks)
          /\ Len(c) > 0 /\ c[1] \in DOMAIN avaiablePacks
      BY <1>1, <1>2, <2>1, FirstProvider, ProvidersType DEF AllProvided
    <3>2. avaiablePacks[c[1]]
      <4>1. CASE Single(i)
        BY <2>2, <4>1 DEF Gathered
      <4>2. CASE ~Single(i)
        <5>1. \A j \in 1..(i - 1) : Single(j)
          BY <1>1, <1>2, <2>4, <4>2 DEF Single
        <5>2. Len(formula) > 0 /\ formula[1] = c
          BY <2>2, <4>2, <5>1 DEF Gathered
        <5> QED BY <2>1, <5>2
      <4> QED BY <4>1, <4>2
    <3> HIDE DEF c
    <3>3. c[1] \in result' /\ c[1] \in ToSet(c)
      BY <1>1, <3>1, <3>2 DEF ToSet
    <3> QED BY <1>1, <3>1, <3>3 DEF Listed
  <2> QED BY <2>3, <2>4
<1> QED BY <1>1, <1>2, <1>3 DEF FoundInv

\* Requests without a choice are answered from the raised flags at once.
LEMMA FoundEndListing ==
  ASSUME BoundsInv, FoundInv, EndListing
  PROVE  FoundInv'
<1>1. /\ pc = "listing" /\ listed = Len(request) /\ UNCHANGED <<index, added, requestVars, res>>
      /\ formula \in Seq(Seq(DOMAIN avaiablePacks))
  BY DEF EndListing, BoundsInv, TypeOK
<1>2. CASE formula = <<>>
  <2>1. Len(formula) = 0 /\ Collect
    BY <1>2 DEF EndListing
  <2> QED BY <1>1, <2>1, FoundCollect
<1>3. CASE formula # <<>>
  <2>1. Len(formula) > 0
    BY <1>1, <1>3
  <2>2. /\ pc' = "tuning" /\ UNCHANGED <<avaiablePacks, index, requestVars>>
        /\ Len(stack') = 1 /\ stack'[1] = [row |-> 0, column |-> 0] /\ recCallNum' = 0
    BY <1>3 DEF EndListing, Tune
  <2>3. AllProvided' <=> AllProvided
    BY <2>2 DEF AllProvided, Providers, requestVars
  <2>4. Gathered' <=> Gathered
    BY <2>2 DEF Gathered, Single, Providers, requestVars
  <2> QED BY <1>1, <2>1, <2>2, <2>3, <2>4 DEF FoundInv, ProvidedAreFound, requestVars
<1> QED BY <1>2, <1>3

\* Only the first place is tried when everything requested has a provider.
LEMMA FoundTuning ==
  ASSUME BoundsInv, FoundInv, pc = "tuning", AllProvided
  PROVE  /\ Gathered /\ evaluateAND /\ InClause /\ Frame.row < maxSize
         /\ recCallNum = callNumber /\ FlagAtFrame = formula[1][1]
         /\ formula[1][1] \in DOMAIN avaiablePacks
<1>1. /\ Gathered /\ Len(formula) > 0 /\ recCallNum = 0
      /\ Len(stack) = 1 /\ stack[1] = [row |-> 0, column |-> 0]
      /\ maxSize > 0 /\ Len(formula) \in Nat /\ Len(formula[1]) > 0
      /\ formula \in Seq(Seq(DOMAIN avaiablePacks))
  BY DEF FoundInv, Gathered, BoundsInv, TypeOK
<1>2. Frame.row = 0 /\ Frame.column = 0 /\ callNumber = 0
  BY <1>1 DEF Frame, Last, callNumber
<1>3. evaluateAND
  <2>1. \A c \in DOMAIN formula : Len(formula[c]) > 0
    BY <1>1 DEF Gathered
  <2>2. \A c \in DOMAIN formula : formula[c] # <<>>
    BY <2>1
  <2> QED BY <2>2 DEF evaluateAND, evaluateOR
<1>4. InClause /\ FlagAtFrame = formula[1][1]
  BY <1>1, <1>2 DEF InClause, FlagAtFrame
<1>5. formula[1] \in Seq(DOMAIN avaiablePacks)
  BY <1>1
<1>6. formula[1][1] \in DOMAIN avaiablePacks
  BY <1>1, <1>5
<1> QED BY <1>1, <1>2, <1>3, <1>4, <1>6

\* The first place tried ends the search: evaluateOR tests pointers.
LEMMA FoundTryPlace ==
  ASSUME BoundsInv, FoundInv, TryPlace
  PROVE  FoundInv'
<1>1. /\ pc = "tuning" /\ pc' \in {"tuning", "returning"} /\ UNCHANGED <<index, requestVars>>
  BY DEF TryPlace
<1>2. AllProvided' <=> AllProvided
  BY <1>1 DEF AllProvided, Providers, requestVars
<1>3. ASSUME AllProvided
      PROVE  /\ Gathered' /\ pc' = "returning" /\ res' /\ Len(stack') = 1
             /\ avaiablePacks'[formula'[1][1]]
  <2>1. /\ Gathered /\ evaluateAND /\ FlagAtFrame = formula[1][1]
        /\ formula[1][1] \in DOMAIN avaiablePacks
    BY <1>1, <1>3, FoundTuning
  <2>2. /\ avaiablePacks' = [avaiablePacks EXCEPT ![formula[1][1]] = TRUE]
        /\ pc' = "returning" /\ res' = TRUE /\ stack' = stack
    <3>1. avaiablePacks' = [avaiablePacks EXCEPT ![FlagAtFrame] = evaluateAND]
      BY DEF TryPlace
    <3>2. evaluateAND = TRUE
      BY <2>1 DEF evaluateAND
    <3>3. pc' = "returning" /\ res' = TRUE /\ stack' = stack
      BY <2>1 DEF TryPlace
    <3> QED BY <2>1, <3>1, <3>2, <3>3
  <2>3. avaiablePacks'[formula[1][1]]
    BY <2>1, <2>2
  <2>4. Gathered'
    <3>1. ASSUME NEW i \in 1..listed, Single(i)
          PROVE  avaiablePacks'[Providers(request[i])[1]]
      <4> DEFINE q == Providers(request[i])[1]
      <4>1. i \in 1..Len(request)
        BY <1>1 DEF FoundInv
      <4>2. q \in DOMAIN avaiablePacks /\ avaiablePacks[q]
        BY <1>3, <2>1, <3>1, <4>1, FirstProvider DEF AllProvided, Gathered, BoundsInv
      <4> HIDE DEF q
      <4>3. avaiablePacks'[q]
        BY <2>2, <4>2
      <4> QED BY <4>3 DEF q
    <3> QED BY <1>1, <2>1, <3>1 DEF Gathered, Single, Providers, requestVars
  <2>5. Len(stack) = 1
    BY <1>1, <1>3 DEF FoundInv
  <2> QED BY <1>1, <2>2, <2>3, <2>4, <2>5 DEF requestVars
<1> QED BY <1>1, <1>2, <1>3 DEF FoundInv, ProvidedAreFound, requestVars

\* The other steps of the search are not taken when everything requested has a
\* provider.
LEMMA FoundOtherSteps ==
  ASSUME BoundsInv, FoundInv, SkipPlace \/ Recur \/ FallOff \/ ReturnToCaller
  PROVE  FoundInv'
<1>1. ~AllProvided
  <2>1. SkipPlace \/ Recur \/ FallOff => ~AllProvided
    <3>1. CASE SkipPlace
      BY <3>1, FoundTuning DEF SkipPlace
    <3>2. CASE Recur
      BY <3>2, FoundTuning DEF Recur
    <3>3. CASE FallOff
      <4>1. Frame.row \in Nat /\ maxSize \in Nat
        BY <3>3, RunningPlace DEF FallOff, BoundsInv, TypeOK
      <4> QED BY <3>3, <4>1, FoundTuning DEF FallOff
    <3> QED BY <3>1, <3>2, <3>3
  <2>2. ASSUME ReturnToCaller, AllProvided PROVE FALSE
    <3>1. pc = "returning" /\ Len(stack) > 1
      BY <2>2 DEF ReturnToCaller
    <3>2. Len(stack) = 1
      BY <2>2, <3>1 DEF FoundInv
    <3> QED BY <3>1, <3>2
  <2> QED BY <2>1, <2>2
<1>2. pc \in {"tuning", "returning"} /\ pc' \in {"tuning", "returning"} /\ UNCHANGED <<index, requestVars>>
  BY DEF SkipPlace, Recur, FallOff, ReturnToCaller
<1>3. ~AllProvided'
  BY <1>1, <1>2 DEF AllProvided, Providers, requestVars
<1> QED BY <1>2, <1>3 DEF FoundInv, ProvidedAreFound, requestVars

\* The outermost call has raised the flag of the first choice when it returns.
LEMMA FoundReturnToProvide ==
  ASSUME BoundsInv, FoundInv, ReturnToProvide
  PROVE  FoundInv'
<1>1. pc = "returning" /\ UNCHANGED <<index, added, requestVars, res>>
  BY DEF ReturnToProvide
<1>2. CASE Collect
  BY <1>1, <1>2, FoundCollect DEF FoundInv
<1>3. CASE ~res /\ Tune(recCallNum + 1)
  <2>1. ~AllProvided /\ pc' = "tuning"
    BY <1>1, <1>3 DEF FoundInv, Tune
  <2>2. ~AllProvided'
    BY <1>1, <2>1 DEF AllProvided, Providers, requestVars
  <2> QED BY <1>1, <2>1, <2>2 DEF FoundInv, ProvidedAreFound, requestVars
<1>4. CASE ~res /\ Refuse
  <2>1. ~AllProvided
    BY <1>1, <1>4 DEF FoundInv
  <2>2. \A i \in 1..Len(request) : request[i] \in DOMAIN index
    BY <1>1 DEF FoundInv
  <2>3. \E i \in 1..Len(request) : index[request[i]] = <<>>
    BY <2>1, <2>2 DEF AllProvided, Providers
  <2>4. \E d \in ToSet(request) : index[d] = <<>>
    <3>1. DOMAIN request = 1..Len(request)
      BY DEF BoundsInv, TypeOK
    <3> QED BY <2>3, <3>1 DEF ToSet
  <2>5. ProvidedAreFound'
    BY <1>1, <2>4 DEF ProvidedAreFound, requestVars
  <2> QED BY <1>1, <1>4, <2>5 DEF Refuse, FoundInv, requestVars
<1> QED BY <1>2, <1>3, <1>4 DEF ReturnToProvide

\* Every step keeps track of the raised flags.
LEMMA FoundStep ==
  ASSUME BoundsInv, FoundInv, [Next]_dbVars
  PROVE  FoundInv'
<1>1. CASE UNCHANGED dbVars
  BY <1>1 DEF dbVars, searchVars, requestVars, FoundInv, AllProvided, Gathered, Single,
     Providers, ProvidedAreFound, Listed
<1>2. CASE Search
  BY <1>2, FoundListDatum, FoundEndListing, FoundTryPlace, FoundOtherSteps,
     FoundReturnToProvide DEF Search
<1> QED BY <1>1, <1>2, FoundAddPacket, FoundProvide DEF Next

\* Whatever the data base holds, a request whose data all have providers is
\* answered: the only packets of its data are listed, and one of the first datum
\* that has a choice.
THEOREM ProvidedDataAreFound == Spec => []ProvidedAreFound
<1>1. Init => BoundsInv /\ FoundInv
  BY BoundsInit, FoundInit
<1>2. BoundsInv /\ FoundInv /\ [Next]_dbVars => (BoundsInv /\ FoundInv)'
  BY BoundsStep, FoundStep
<1>3. FoundInv => ProvidedAreFound
  BY DEF FoundInv
<1> QED BY <1>1, <1>2, <1>3, PTL DEF Spec
-----------------------------------------------------------------------------
\* The packets of the first n requested data with one provider, of the others,
\* and of the clauses.
SoleOf(n) == {p \in DOMAIN avaiablePacks : \E i \in 1..n :
                Len(Providers(request[i])) = 1 /\ p \in ToSet(Providers(request[i]))}
ChosenOf(n) == {p \in DOMAIN avaiablePacks : \E i \in 1..n :
                  Len(Providers(request[i])) # 1 /\ p \in ToSet(Providers(request[i]))}
InFormula == {p \in DOMAIN avaiablePacks : \E c \in 1..Len(formula) : p \in ToSet(formula[c])}

\* The packet at the place of a call, and the places its loops have passed.
FlagAt(f) == formula[f.column + 1][f.row + 1]
Passed(row, column, f) == row < f.row \/ (row = f.row /\ column < f.column)

\* The first search, which does not recur, has put back what it has passed; a
\* later one starts from clauses without a taken packet, and those it has
\* taken are the packets of the pending calls.
PutBack ==
  \A c \in 1..Len(formula) : \A r \in 1..Len(formula[c]) :
    Passed(r - 1, c - 1, Frame) => formula[c][r] \notin Taken
OnlyPending ==
  \A p \in Taken \cap InFormula : \E k \in 1..(Len(stack) - 1) : p = FlagAt(stack[k])
SearchFlags ==
  /\ pc = "tuning" \/ (pc = "returning" /\ ~res) =>
       IF recCallNum = 0 THEN PutBack ELSE OnlyPending
  /\ pc = "returning" /\ ~res => Frame.row >= maxSize

\* Which flags are up, from the call of providePackets to its answer.
LeftInv ==
  /\ pc = "listing" => Taken = before \cup SoleOf(listed)
  /\ pc \in {"listing", "tuning", "returning"} =>
       /\ InFormula = ChosenOf(listed)
       /\ \A c \in 1..Len(formula) : Len(formula[c]) <= maxSize
  /\ pc \in {"tuning", "returning"} =>
       Taken \ InFormula = (before \cup Sole) \ InFormula
  /\ SearchFlags
  /\ LeftBehind

\* Raising or lowering a flag adds its packet to the taken ones or removes it.
LEMMA TakenRaised ==
  ASSUME NEW p \in DOMAIN avaiablePacks, avaiablePacks' = [avaiablePacks EXCEPT ![p] = TRUE]
  PROVE  Taken' = Taken \cup {p} /\ DOMAIN avaiablePacks' = DOMAIN avaiablePacks
<1>1. DOMAIN avaiablePacks' = DOMAIN avaiablePacks /\ avaiablePacks'[p] = TRUE
  OBVIOUS
<1>2. \A q \in DOMAIN avaiablePacks : q # p => avaiablePacks'[q] = avaiablePacks[q]
  OBVIOUS
<1> QED BY <1>1, <1>2, Zenon DEF Taken

\* The same for a flag that is lowered.
LEMMA TakenLowered ==
  ASSUME NEW p \in DOMAIN avaiablePacks, avaiablePacks' = [avaiablePacks EXCEPT ![p] = FALSE]
  PROVE  Taken' = Taken \ {p} /\ DOMAIN avaiablePacks' = DOMAIN avaiablePacks
<1>1. DOMAIN avaiablePacks' = DOMAIN avaiablePacks /\ avaiablePacks'[p] = FALSE
  OBVIOUS
<1>2. \A q \in DOMAIN avaiablePacks : q # p => avaiablePacks'[q] = avaiablePacks[q]
  OBVIOUS
<1> QED BY <1>1, <1>2, Zenon DEF Taken

\* A packet of a clause is at one of its places.
LEMMA PlaceInFormula ==
  ASSUME TypeOK, NEW c \in 1..Len(formula), NEW r \in 1..Len(formula[c])
  PROVE  formula[c][r] \in InFormula
<1>1. formula[c] \in Seq(DOMAIN avaiablePacks)
  BY DEF TypeOK
<1>2. formula[c][r] \in DOMAIN avaiablePacks /\ formula[c][r] \in ToSet(formula[c])
  BY <1>1 DEF ToSet
<1> QED BY <1>2 DEF InFormula

\* And conversely.
LEMMA InFormulaPlace ==
  ASSUME TypeOK, NEW p \in InFormula
  PROVE  \E c \in 1..Len(formula) : \E r \in 1..Len(formula[c]) : formula[c][r] = p
<1>1. PICK c \in 1..Len(formula) : p \in ToSet(formula[c])
  BY DEF InFormula
<1>2. formula[c] \in Seq(DOMAIN avaiablePacks)
  BY DEF TypeOK
<1>3. \E r \in 1..Len(formula[c]) : formula[c][r] = p
  BY <1>1, <1>2 DEF ToSet
<1> QED BY <1>3

\* Nothing is taken at the start.
LEMMA LeftInit == Init => LeftInv
  BY DEF Init, LeftInv, SearchFlags, LeftBehind

\* addPacket answers nothing.
LEMMA LeftAddPacket ==
  ASSUME NEW p, NEW content, AddPacket(p, content)
  PROVE  LeftInv'
<1>1. pc' = "idle"
  BY DEF AddPacket
<1> QED BY <1>1 DEF LeftInv, SearchFlags, LeftBehind

\* A request finds taken what it finds taken.
LEMMA LeftProvide ==
  ASSUME NEW r, ProvidePackets(r)
  PROVE  LeftInv'
<1>1. /\ pc' = "listing" /\ listed' = 0 /\ formula' = <<>> /\ before' = Taken
      /\ avaiablePacks' = avaiablePacks
  BY DEF ProvidePackets
<1>2. Taken' = Taken
  BY <1>1 DEF Taken
<1>3. SoleOf(listed)' = {} /\ ChosenOf(listed)' = {} /\ InFormula' = {}
  <2>1. 1..0 = {} /\ Len(<<>>) = 0
    OBVIOUS
  <2> QED BY <1>1, <2>1 DEF SoleOf, ChosenOf, InFormula
<1>4. \A c \in 1..Len(formula') : Len(formula'[c]) <= maxSize'
  BY <1>1
<1> QED BY <1>1, <1>2, <1>3, <1>4 DEF LeftInv, SearchFlags, LeftBehind

\* What a round of the first loop adds to the packets it has to do with.
LEMMA OneMoreDatum ==
  ASSUME NEW n \in Nat, Providers(request[n + 1]) \in Seq(DOMAIN avaiablePacks)
  PROVE  LET c == Providers(request[n + 1])
         IN /\ Len(c) = 1 => /\ SoleOf(n + 1) = SoleOf(n) \cup {c[1]}
                             /\ ChosenOf(n + 1) = ChosenOf(n)
            /\ Len(c) # 1 => /\ SoleOf(n + 1) = SoleOf(n)
                             /\ ChosenOf(n + 1) = ChosenOf(n) \cup ToSet(c)
<1> DEFINE c == Providers(request[n + 1])
<1>1. \A i : i \in 1..(n + 1) <=> i \in 1..n \/ i = n + 1
  OBVIOUS
<1>2. ToSet(c) \subseteq DOMAIN avaiablePacks
  BY DEF ToSet
<1>3. Len(c) = 1 => ToSet(c) = {c[1]}
  BY DEF ToSet
<1>4. ASSUME Len(c) = 1
      PROVE  SoleOf(n + 1) = SoleOf(n) \cup ToSet(c) /\ ChosenOf(n + 1) = ChosenOf(n)
  BY <1>1, <1>2, <1>4, Zenon DEF SoleOf, ChosenOf
<1>5. ASSUME Len(c) # 1
      PROVE  SoleOf(n + 1) = SoleOf(n) /\ ChosenOf(n + 1) = ChosenOf(n) \cup ToSet(c)
  BY <1>1, <1>2, <1>5, Zenon DEF SoleOf, ChosenOf
<1> QED BY <1>3, <1>4, <1>5

\* A round of the first loop takes the only packet of a datum, or leaves the
\* choice to the search.
LEMMA LeftListDatum ==
  ASSUME BoundsInv, LeftInv, ListDatum
  PROVE  LeftInv'
<1> DEFINE c == Providers(request[listed + 1])
<1>1. /\ TypeOK /\ pc = "listing" /\ pc' = "listing" /\ listed \in Nat /\ listed' = listed + 1
      /\ request' = request /\ before' = before
      /\ formula \in Seq(Seq(DOMAIN avaiablePacks)) /\ Len(formula) \in Nat /\ maxSize \in Nat
  BY DEF BoundsInv, TypeOK, ListDatum
<1>2. c \in Seq(DOMAIN avaiablePacks) /\ Len(c) \in Nat
  <2>1. c \in Seq(DOMAIN avaiablePacks)
    BY <1>1, ProvidersType
  <2> QED BY <2>1
<1>3. \A d : Providers(d)' = Providers(d)
  BY SameProviders
<1>4. /\ Taken = before \cup SoleOf(listed) /\ InFormula = ChosenOf(listed)
      /\ \A k \in 1..Len(formula) : Len(formula[k]) <= maxSize
  BY <1>1 DEF LeftInv
<1>5. /\ Len(c) = 1 => /\ SoleOf(listed + 1) = SoleOf(listed) \cup {c[1]}
                       /\ ChosenOf(listed + 1) = ChosenOf(listed)
      /\ Len(c) # 1 => /\ SoleOf(listed + 1) = SoleOf(listed)
                       /\ ChosenOf(listed + 1) = ChosenOf(listed) \cup ToSet(c)
  BY <1>1, <1>2, OneMoreDatum
<1>6. CASE Len(c) = 1
  <2>1. avaiablePacks' = [avaiablePacks EXCEPT ![c[1]] = TRUE] /\ UNCHANGED <<formula, maxSize>>
    BY <1>6 DEF ListDatum
  <2> HIDE DEF c
  <2>2. c[1] \in DOMAIN avaiablePacks
    BY <1>2, <1>6
  <2>3. Taken' = Taken \cup {c[1]} /\ DOMAIN avaiablePacks' = DOMAIN avaiablePacks
    BY <2>1, <2>2, TakenRaised
  <2>4. InFormula' = InFormula
    BY <2>1, <2>3 DEF InFormula
  <2>5. SoleOf(listed)' = SoleOf(listed + 1) /\ ChosenOf(listed)' = ChosenOf(listed + 1)
    BY <1>1, <1>3, <2>3 DEF SoleOf, ChosenOf
  <2> QED BY <1>1, <1>4, <1>5, <1>6, <2>1, <2>3, <2>4, <2>5 DEF LeftInv, SearchFlags, LeftBehind
<1>7. CASE Len(c) # 1
  <2>1. /\ formula' = Append(formula, c) /\ avaiablePacks' = avaiablePacks
        /\ maxSize' = IF Len(c) > maxSize THEN Len(c) ELSE maxSize
    BY <1>7 DEF ListDatum
  <2> HIDE DEF c
  <2>2. /\ Len(formula') = Len(formula) + 1 /\ formula'[Len(formula) + 1] = c
        /\ \A k \in 1..Len(formula) : formula'[k] = formula[k]
        /\ \A k : k \in 1..Len(formula') <=> k \in 1..Len(formula) \/ k = Len(formula) + 1
    BY <1>1, <1>2, <2>1
  <2>3. Taken' = Taken
    BY <2>1 DEF Taken
  <2>4. SoleOf(listed)' = SoleOf(listed + 1) /\ ChosenOf(listed)' = ChosenOf(listed + 1)
    BY <1>1, <1>3, <2>1 DEF SoleOf, ChosenOf
  <2>5. InFormula' = InFormula \cup ToSet(c)
    <3>1. ToSet(c) \subseteq DOMAIN avaiablePacks
      BY <1>2 DEF ToSet
    <3> QED BY <2>1, <2>2, <3>1, Zenon DEF InFormula
  <2>6. ASSUME NEW k \in 1..Len(formula') PROVE Len(formula'[k]) <= maxSize'
    <3>1. CASE k \in 1..Len(formula)
      <4>1. Len(formula[k]) <= maxSize /\ formula'[k] = formula[k] /\ Len(formula[k]) \in Nat
        <5>1. formula[k] \in Seq(DOMAIN avaiablePacks)
          BY <1>1, <3>1
        <5> QED BY <1>4, <2>2, <3>1, <5>1
      <4> QED BY <1>1, <1>2, <2>1, <4>1
    <3>2. CASE k = Len(formula) + 1
      BY <1>1, <1>2, <2>1, <2>2, <3>2
    <3> QED BY <2>2, <3>1, <3>2
  <2> QED BY <1>1, <1>4, <1>5, <1>7, <2>3, <2>4, <2>5, <2>6 DEF LeftInv, SearchFlags, LeftBehind
<1> QED BY <1>6, <1>7

\* The steps of the search touch only packets of the clauses.
LEMMA LeftSearch ==
  ASSUME LeftInv, pc \in {"tuning", "returning"}, pc' \in {"tuning", "returning"},
         UNCHANGED <<index, requestVars>>, DOMAIN avaiablePacks' = DOMAIN avaiablePacks,
         Taken' \ InFormula = Taken \ InFormula, SearchFlags'
  PROVE  LeftInv'
<1>1. /\ request' = request /\ listed' = listed /\ formula' = formula
      /\ maxSize' = maxSize /\ before' = before
  BY DEF requestVars
<1>2. \A d : Providers(d)' = Providers(d)
  BY DEF Providers
<1>3. ChosenOf(listed)' = ChosenOf(listed) /\ Sole' = Sole
  BY <1>1, <1>2 DEF ChosenOf, Sole
<1>4. InFormula' = InFormula
  BY <1>1 DEF InFormula
<1> QED BY <1>1, <1>3, <1>4 DEF LeftInv, LeftBehind

\* The end of providePackets, with packets of clauses taken or without.
LEMMA LeftCollect ==
  ASSUME BoundsInv, LeftInv, InFormula = Chosen, Taken \ InFormula = (before \cup Sole) \ InFormula,
         Collect, UNCHANGED <<index, added, requestVars, res>>
  PROVE  LeftInv'
<1>1. /\ pc' = "answered" /\ result' = Taken /\ avaiablePacks' = resetPackets
      /\ request' = request /\ before' = before
  BY DEF Collect, requestVars
<1>2. DOMAIN avaiablePacks' = DOMAIN avaiablePacks /\ Taken' = {}
  BY <1>1 DEF resetPackets, Taken
<1>3. Sole' = Sole /\ Chosen' = Chosen
  BY <1>1, <1>2 DEF Sole, Chosen, Providers
<1>4. result' # NotFound
  <2>1. Taken \subseteq Packs
    BY DEF Taken, BoundsInv, TypeOK
  <2> QED BY <1>1, <2>1, DataBaseAssumption
<1> QED BY <1>1, <1>2, <1>3, <1>4 DEF LeftInv, SearchFlags, LeftBehind

\* When the first loop has ended it has seen all of the request.
LEMMA WholeRequest ==
  ASSUME listed = Len(request)
  PROVE  SoleOf(listed) = Sole /\ ChosenOf(listed) = Chosen
  BY DEF SoleOf, ChosenOf, Sole, Chosen

\* The first search has passed nothing yet.
LEMMA LeftEndListing ==
  ASSUME BoundsInv, LeftInv, EndListing
  PROVE  LeftInv'
<1>1. /\ pc = "listing" /\ listed = Len(request) /\ UNCHANGED <<index, added, requestVars, res>>
      /\ formula \in Seq(Seq(DOMAIN avaiablePacks))
  BY DEF EndListing, BoundsInv, TypeOK
<1>2. InFormula = Chosen /\ Taken = before \cup Sole
  BY <1>1, WholeRequest DEF LeftInv
<1>3. CASE formula = <<>>
  BY <1>1, <1>2, <1>3, LeftCollect DEF EndListing
<1>4. CASE formula # <<>>
  <2>1. /\ pc' = "tuning" /\ avaiablePacks' = avaiablePacks /\ recCallNum' = 0
        /\ stack' = << [row |-> 0, column |-> 0] >>
        /\ request' = request /\ listed' = listed /\ formula' = formula
        /\ maxSize' = maxSize /\ before' = before
    BY <1>1, <1>4 DEF EndListing, Tune, requestVars
  <2>2. \A d : Providers(d)' = Providers(d)
    BY <1>1 DEF Providers
  <2>3. ChosenOf(listed)' = ChosenOf(listed) /\ Sole' = Sole /\ Taken' = Taken
        /\ InFormula' = InFormula
    BY <2>1, <2>2 DEF ChosenOf, Sole, Taken, InFormula
  <2>4. PutBack'
    <3>1. Frame' = [row |-> 0, column |-> 0]
      BY <2>1 DEF Frame, Last
    <3>2. \A c, r \in Nat : ~Passed(r, c, [row |-> 0, column |-> 0])
      BY DEF Passed
    <3>3. \A c \in 1..Len(formula) : \A r \in 1..Len(formula[c]) : c - 1 \in Nat /\ r - 1 \in Nat
      OBVIOUS
    <3> QED BY <2>1, <3>1, <3>2, <3>3 DEF PutBack
  <2> QED BY <1>1, <1>2, <2>1, <2>3, <2>4 DEF LeftInv, SearchFlags, LeftBehind
<1> QED BY <1>3, <1>4

\* What a call that does not recur has passed after one more place.
LEMMA PassedAdvanced ==
  ASSUME NEW s \in Seq(Places), Len(s) = 1, formula \in Seq(Seq(DOMAIN avaiablePacks)),
         NEW row \in Nat, NEW column \in 0..(Len(formula) - 1),
         Passed(row, column, Advanced(s)[1])
  PROVE  Passed(row, column, s[1]) \/ (row = s[1].row /\ column = s[1].column)
<1>1. s[1] \in Places /\ Len(formula) \in Nat
  <2>1. 1 \in 1..Len(s) /\ s \in Seq(Places)
    OBVIOUS
  <2>2. s[1] \in Places
    BY ONLY <2>1
  <2> QED BY <2>2
<1>2. PICK f : f = s[1]
  OBVIOUS
<1>3. f \in Places /\ f.row \in Nat /\ f.column \in Nat
  BY <1>1, <1>2 DEF Places
<1> DEFINE g == IF f.column + 1 < Len(formula) THEN [f EXCEPT !.column = f.column + 1]
                ELSE [row |-> f.row + 1, column |-> 0]
<1>4. Advanced(s)[1] = g
  <2>1. Advanced(s) = [s EXCEPT ![1] = g]
    BY <1>2 DEF Advanced, Last
  <2> HIDE DEF g
  <2> QED BY <2>1
<1>5. \/ f.column + 1 < Len(formula) /\ g.row = f.row /\ g.column = f.column + 1
      \/ f.column + 1 >= Len(formula) /\ g.row = f.row + 1 /\ g.column = 0
  BY <1>1, <1>3 DEF Places
<1> HIDE DEF g
<1>6. Passed(row, column, g)
  BY <1>4
<1>7. Passed(row, column, f) \/ (row = f.row /\ column = f.column)
  <2>1. row < g.row \/ (row = g.row /\ column < g.column)
    BY <1>6 DEF Passed
  <2>2. row < f.row \/ (row = f.row /\ column < f.column) \/ (row = f.row /\ column = f.column)
    BY ONLY <1>1, <1>3, <1>5, <2>1, row \in Nat, column \in 0..(Len(formula) - 1)
  <2> QED BY <2>2 DEF Passed
<1> QED BY <1>2, <1>7

\* A call that goes on with the packet of its place put back.
LEMMA SearchAdvance ==
  ASSUME BoundsInv, LeftInv, pc = "tuning", pc' = "tuning", stack' = Advanced(stack),
         Taken' \subseteq Taken, InClause => FlagAtFrame \notin Taken',
         UNCHANGED <<requestVars, recCallNum>>, DOMAIN avaiablePacks' = DOMAIN avaiablePacks
  PROVE  SearchFlags'
<1>1. /\ TypeOK /\ formula' = formula /\ recCallNum' = recCallNum /\ recCallNum \in Nat
      /\ formula \in Seq(Seq(DOMAIN avaiablePacks)) /\ Len(formula) \in Nat
      /\ stack \in Seq(Places) /\ Len(stack) \in Nat
      /\ Len(stack) \in 1..(recCallNum + 1) /\ Frame = stack[Len(stack)]
      /\ Frame.row \in Nat /\ Frame.column \in Nat
  <2>1. TypeOK /\ SearchInBounds /\ formula' = formula /\ recCallNum' = recCallNum
    BY DEF BoundsInv, requestVars
  <2>2. Frame = stack[Len(stack)] /\ Frame.row \in Nat /\ Frame.column \in Nat
    BY <2>1, RunningPlace
  <2>3. /\ recCallNum \in Nat /\ formula \in Seq(Seq(DOMAIN avaiablePacks))
        /\ stack \in Seq(Places)
    BY <2>1 DEF TypeOK, Places
  <2>4. Len(stack) \in 1..(recCallNum + 1)
    BY <2>1 DEF SearchInBounds
  <2> QED BY <2>1, <2>2, <2>3, <2>4
<1>2. /\ Len(stack') = Len(stack)
      /\ \A k \in 1..(Len(stack) - 1) : stack'[k] = stack[k]
  <2>1. Len(stack) > 0
    BY <1>1
  <2> QED BY <1>1, <2>1, AdvancedPlace
<1>3. CASE recCallNum = 0
  <2>1. Len(stack) = 1 /\ Frame = stack[1] /\ Frame' = Advanced(stack)[1]
    <3>1. Len(stack) = 1 /\ Len(stack') = 1
      BY <1>1, <1>2, <1>3
    <3>2. Frame' = stack'[Len(stack')]
      BY DEF Frame, Last
    <3> QED BY <1>1, <3>1, <3>2
  <2>2. PutBack
    BY <1>3 DEF LeftInv, SearchFlags
  <2>3. ASSUME NEW c \in 1..Len(formula), NEW r \in 1..Len(formula[c]),
               Passed(r - 1, c - 1, Frame')
        PROVE  formula[c][r] \notin Taken'
    <3>1. r - 1 \in Nat /\ c - 1 \in 0..(Len(formula) - 1)
      BY <1>1
    <3>2. Passed(r - 1, c - 1, Frame) \/ (r - 1 = Frame.row /\ c - 1 = Frame.column)
      BY <1>1, <2>1, <2>3, <3>1, PassedAdvanced
    <3>3. CASE Passed(r - 1, c - 1, Frame)
      BY <2>2, <3>3 DEF PutBack
    <3>4. CASE r - 1 = Frame.row /\ c - 1 = Frame.column
      <4>1. c = Frame.column + 1 /\ r = Frame.row + 1
        BY <1>1, <3>4
      <4>2. Frame.row < Len(formula[c])
        <5>1. formula[c] \in Seq(DOMAIN avaiablePacks)
          BY <1>1
        <5> QED BY <1>1, <4>1, <5>1
      <4> QED BY <4>1, <4>2 DEF InClause, FlagAtFrame
    <3> QED BY <3>2, <3>3, <3>4
  <2>4. PutBack'
    BY <1>1, <2>3 DEF PutBack
  <2> QED BY <1>1, <1>3, <2>4 DEF SearchFlags
<1>4. CASE recCallNum # 0
  <2>1. OnlyPending
    BY <1>4 DEF LeftInv, SearchFlags
  <2>2. InFormula' = InFormula
    BY <1>1 DEF InFormula
  <2>3. \A k \in 1..(Len(stack) - 1) : FlagAt(stack[k])' = FlagAt(stack[k])
    BY <1>1, <1>2 DEF FlagAt
  <2>4. OnlyPending'
    BY <1>2, <2>1, <2>2, <2>3 DEF OnlyPending
  <2> QED BY <1>1, <1>4, <2>4 DEF SearchFlags
<1> QED BY <1>3, <1>4

\* A place outside its clause holds no packet.
LEMMA LeftSkipPlace ==
  ASSUME BoundsInv, LeftInv, SkipPlace
  PROVE  LeftInv'
<1>1. /\ pc = "tuning" /\ pc' = "tuning" /\ stack' = Advanced(stack) /\ ~InClause
      /\ avaiablePacks' = avaiablePacks /\ UNCHANGED <<index, requestVars, recCallNum>>
  BY DEF SkipPlace
<1>2. Taken' = Taken
  BY <1>1 DEF Taken
<1>3. SearchFlags'
  BY <1>1, <1>2, SearchAdvance
<1> QED BY <1>1, <1>2, <1>3, LeftSearch

\* A packet that is tried is one of the clauses; it stays taken or is put back.
LEMMA LeftTryPlace ==
  ASSUME BoundsInv, LeftInv, TryPlace
  PROVE  LeftInv'
<1>1. /\ TypeOK /\ pc = "tuning" /\ InClause /\ UNCHANGED <<index, requestVars, recCallNum>>
  BY DEF BoundsInv, TryPlace
<1>2. FlagAtFrame \in DOMAIN avaiablePacks /\ FlagAtFrame \in InFormula
  <2>1. /\ FlagAtFrame \in DOMAIN avaiablePacks /\ Frame.row \in Nat
        /\ Frame.column + 1 \in 1..Len(formula)
        /\ formula[Frame.column + 1] \in Seq(DOMAIN avaiablePacks)
    BY <1>1, RunningPlace DEF BoundsInv
  <2>2. Frame.row + 1 \in 1..Len(formula[Frame.column + 1])
    BY <1>1, <2>1 DEF InClause
  <2> QED BY <1>1, <2>1, <2>2, PlaceInFormula DEF FlagAtFrame
<1>3. CASE evaluateAND
  <2>1. /\ pc' = "returning" /\ res' = TRUE
        /\ avaiablePacks' = [avaiablePacks EXCEPT ![FlagAtFrame] = TRUE]
    <3>1. evaluateAND = TRUE
      BY <1>3 DEF evaluateAND
    <3> QED BY <3>1 DEF TryPlace
  <2>2. Taken' = Taken \cup {FlagAtFrame} /\ DOMAIN avaiablePacks' = DOMAIN avaiablePacks
    BY <1>2, <2>1, TakenRaised
  <2>3. SearchFlags'
    BY <2>1 DEF SearchFlags
  <2> QED BY <1>1, <1>2, <2>1, <2>2, <2>3, LeftSearch
<1>4. CASE ~evaluateAND
  <2>1. /\ pc' = "tuning" /\ stack' = Advanced(stack)
        /\ avaiablePacks' = [avaiablePacks EXCEPT ![FlagAtFrame] = FALSE]
    <3>1. evaluateAND = FALSE
      BY <1>4 DEF evaluateAND
    <3> QED BY <1>1, <3>1 DEF TryPlace
  <2>2. Taken' = Taken \ {FlagAtFrame} /\ DOMAIN avaiablePacks' = DOMAIN avaiablePacks
    BY <1>2, <2>1, TakenLowered
  <2>3. SearchFlags'
    BY <1>1, <2>1, <2>2, SearchAdvance
  <2> QED BY <1>1, <1>2, <2>1, <2>2, <2>3, LeftSearch
<1> QED BY <1>3, <1>4

\* A call that recurs becomes a pending one, with its packet taken.
LEMMA LeftRecur ==
  ASSUME BoundsInv, LeftInv, Recur
  PROVE  LeftInv'
<1>1. /\ TypeOK /\ pc = "tuning" /\ pc' = "tuning" /\ InClause
      /\ UNCHANGED <<index, requestVars, recCallNum>> /\ formula' = formula
      /\ recCallNum # Len(stack) - 1
  BY DEF BoundsInv, Recur, requestVars, callNumber
<1>2. /\ FlagAtFrame \in DOMAIN avaiablePacks /\ FlagAtFrame \in InFormula
      /\ FlagAtFrame = FlagAt(stack[Len(stack)])
  <2>1. /\ FlagAtFrame \in DOMAIN avaiablePacks /\ Frame.row \in Nat
        /\ Frame.column + 1 \in 1..Len(formula) /\ Frame = stack[Len(stack)]
        /\ formula[Frame.column + 1] \in Seq(DOMAIN avaiablePacks)
    BY <1>1, RunningPlace DEF BoundsInv
  <2>2. Frame.row + 1 \in 1..Len(formula[Frame.column + 1])
    BY <1>1, <2>1 DEF InClause
  <2>3. FlagAtFrame \in InFormula
    BY <1>1, <2>1, <2>2, PlaceInFormula DEF FlagAtFrame
  <2> QED BY <2>1, <2>3 DEF FlagAtFrame, FlagAt
<1>3. Taken' = Taken \cup {FlagAtFrame} /\ DOMAIN avaiablePacks' = DOMAIN avaiablePacks
  BY <1>2, TakenRaised DEF Recur
<1>4. /\ stack \in Seq(Places) /\ Len(stack) \in Nat /\ Len(stack) > 0
      /\ recCallNum # 0 /\ recCallNum' # 0
  <2>1. /\ stack \in Seq(Places) /\ recCallNum \in Nat /\ Len(stack) \in 1..(recCallNum + 1)
    BY <1>1 DEF BoundsInv, TypeOK, SearchInBounds, Places
  <2> QED BY <1>1, <2>1
<1>5. /\ Len(stack') = Len(stack) + 1
      /\ \A k \in 1..Len(stack) : stack'[k] = stack[k]
  <2>1. PICK f : stack' = Append(stack, f)
    BY DEF Recur
  <2> QED BY <1>4, <2>1
<1>6. OnlyPending
  BY <1>1, <1>4 DEF LeftInv, SearchFlags
<1>7. OnlyPending'
  <2> SUFFICES ASSUME NEW p \in Taken' \cap InFormula
               PROVE  \E k \in 1..(Len(stack') - 1) : p = FlagAt(stack[k])'
    <3>1. InFormula' = InFormula
      BY <1>1, <1>3 DEF InFormula
    <3> QED BY <3>1 DEF OnlyPending
  <2>1. \A k \in 1..Len(stack) : k \in 1..(Len(stack') - 1) /\ FlagAt(stack[k])' = FlagAt(stack[k])
    BY <1>1, <1>4, <1>5 DEF FlagAt
  <2>2. CASE p = FlagAtFrame
    <3>1. Len(stack) \in 1..Len(stack)
      BY <1>4
    <3> QED BY <1>2, <2>1, <2>2, <3>1
  <2>3. CASE p \in Taken
    <3>1. PICK k \in 1..(Len(stack) - 1) : p = FlagAt(stack[k])
      BY <1>6, <2>3 DEF OnlyPending
    <3>2. k \in 1..Len(stack)
      BY <1>4
    <3> QED BY <2>1, <3>1, <3>2
  <2> QED BY <1>3, <2>2, <2>3
<1>8. SearchFlags'
  BY <1>1, <1>4, <1>7 DEF SearchFlags
<1> QED BY <1>1, <1>2, <1>3, <1>8, LeftSearch

\* The loops are over: every place is passed.
LEMMA LeftFallOff ==
  ASSUME BoundsInv, LeftInv, FallOff
  PROVE  LeftInv'
<1>1. /\ pc = "tuning" /\ pc' = "returning" /\ Frame.row >= maxSize
      /\ UNCHANGED <<index, requestVars, recCallNum, stack, avaiablePacks>>
  BY DEF FallOff
<1>2. /\ Taken' = Taken /\ Frame' = Frame /\ maxSize' = maxSize
      /\ formula' = formula /\ InFormula' = InFormula
  BY <1>1 DEF Taken, Frame, InFormula, requestVars
<1>3. SearchFlags'
  <2>1. PutBack' <=> PutBack
    BY <1>2 DEF PutBack, Passed
  <2>2. OnlyPending' <=> OnlyPending
    BY <1>1, <1>2 DEF OnlyPending, FlagAt
  <2> QED BY <1>1, <1>2, <2>1, <2>2 DEF LeftInv, SearchFlags
<1> QED BY <1>1, <1>2, <1>3, LeftSearch

\* A pending call whose nested call has failed puts its own packet back.
LEMMA LeftReturnToCaller ==
  ASSUME BoundsInv, LeftInv, ReturnToCaller
  PROVE  LeftInv'
<1> DEFINE s == Front(stack)
           n == Len(stack) - 1
           p == FlagAt(stack[n])
<1>1. /\ TypeOK /\ stack \in Seq(Places) /\ Len(stack) > 1 /\ Len(stack) \in Nat
      /\ pc = "returning" /\ recCallNum \in Nat /\ Len(stack) \in 1..(recCallNum + 1)
      /\ formula \in Seq(Seq(DOMAIN avaiablePacks)) /\ formula' = formula
      /\ UNCHANGED <<index, requestVars, recCallNum, res>>
  <2>1. /\ TypeOK /\ SearchInBounds /\ pc = "returning" /\ Len(stack) > 1
        /\ UNCHANGED <<index, requestVars, recCallNum, res>>
    BY DEF BoundsInv, ReturnToCaller
  <2>2. /\ stack \in Seq(Places) /\ recCallNum \in Nat
        /\ formula \in Seq(Seq(DOMAIN avaiablePacks))
    BY <2>1 DEF TypeOK, Places
  <2>3. Len(stack) \in 1..(recCallNum + 1)
    BY <2>1 DEF SearchInBounds
  <2>4. formula' = formula
    BY <2>1 DEF requestVars
  <2> QED BY <2>1, <2>2, <2>3, <2>4
<1>2. n \in 1..(Len(stack) - 1) /\ n \in 1..Len(stack) /\ n \in Nat /\ n > 0 /\ recCallNum # 0
  BY <1>1
<1>3. s \in Seq(Places) /\ Len(s) = n /\ Last(s) = stack[n] /\ \A k \in 1..n : s[k] = stack[k]
  BY <1>1, FrontPlaces
<1>4. p \in InFormula /\ p \in DOMAIN avaiablePacks
  <2> DEFINE f == stack[n]
  <2>1. /\ f.column \in (n - 1)..(Len(formula) - 1)
        /\ f.row < Len(formula[f.column + 1])
    BY <1>1, <1>2 DEF BoundsInv, SearchInBounds
  <2>2. f.row \in Nat /\ f.column \in Nat
    <3>1. f \in Places
      BY <1>1, <1>2
    <3> QED BY <3>1 DEF Places
  <2>3. f.column + 1 \in 1..Len(formula)
    BY <1>1, <2>1, <2>2
  <2>4. f.row + 1 \in 1..Len(formula[f.column + 1])
    <3>1. formula[f.column + 1] \in Seq(DOMAIN avaiablePacks)
      BY <1>1, <2>3
    <3> QED BY <2>1, <2>2, <3>1
  <2>5. p \in InFormula
    BY <1>1, <2>3, <2>4, PlaceInFormula DEF FlagAt
  <2> QED BY <2>5 DEF InFormula
<1>5. CASE res
  <2>1. UNCHANGED <<avaiablePacks, pc>>
    BY <1>5 DEF ReturnToCaller
  <2>2. Taken' = Taken
    BY <2>1 DEF Taken
  <2>3. SearchFlags'
    BY <1>1, <1>5, <2>1 DEF SearchFlags
  <2> QED BY <1>1, <2>1, <2>2, <2>3, LeftSearch
<1>6. CASE ~res
  <2>1. /\ avaiablePacks' = [avaiablePacks EXCEPT ![p] = FALSE]
        /\ stack' = Advanced(s) /\ pc' = "tuning"
    BY <1>3, <1>6 DEF ReturnToCaller, FlagAt
  <2> HIDE DEF s
  <2>2. Taken' = Taken \ {p} /\ DOMAIN avaiablePacks' = DOMAIN avaiablePacks
    <3> HIDE DEF p
    <3> QED BY <1>4, <2>1, TakenLowered
  <2>3. /\ Len(stack') = n /\ \A k \in 1..(n - 1) : stack'[k] = stack[k]
    <3>1. Len(s) > 0
      BY <1>2, <1>3
    <3>2. Len(stack') = Len(s) /\ \A k \in 1..(Len(s) - 1) : stack'[k] = s[k]
      BY <1>1, <1>3, <2>1, <3>1, AdvancedPlace
    <3> QED BY <1>2, <1>3, <3>2
  <2>4. OnlyPending
    BY <1>1, <1>2, <1>6 DEF LeftInv, SearchFlags
  <2>5. OnlyPending'
    <3>1. InFormula' = InFormula
      BY <1>1, <2>2 DEF InFormula
    <3> SUFFICES ASSUME NEW q \in Taken' \cap InFormula
                 PROVE  \E k \in 1..(Len(stack') - 1) : q = FlagAt(stack[k])'
      BY <3>1 DEF OnlyPending
    <3>2. PICK k \in 1..n : q = FlagAt(stack[k])
      BY <2>2, <2>4 DEF OnlyPending
    <3>3. k # n
      BY <2>2, <3>2
    <3>4. k \in 1..(n - 1)
      BY <1>2, <3>3
    <3>5. FlagAt(stack[k])' = FlagAt(stack[k])
      BY <1>1, <2>3, <3>4 DEF FlagAt
    <3> QED BY <2>3, <3>2, <3>4, <3>5
  <2>6. SearchFlags'
    BY <1>1, <1>2, <2>1, <2>5 DEF SearchFlags
  <2> QED BY <1>1, <1>4, <2>1, <2>2, <2>6, LeftSearch
<1> QED BY <1>5, <1>6

\* A search that has failed has put back every packet of the clauses.
LEMMA FailedSearch ==
  ASSUME BoundsInv, LeftInv, pc = "returning", ~res, Len(stack) = 1
  PROVE  Taken \cap InFormula = {}
<1>1. CASE recCallNum = 0
  <2>1. PutBack /\ Frame.row >= maxSize /\ TypeOK
    BY <1>1 DEF LeftInv, SearchFlags, BoundsInv
  <2>2. Frame.row \in Nat /\ maxSize \in Nat
    BY RunningPlace DEF BoundsInv, TypeOK
  <2>3. ASSUME NEW p \in InFormula PROVE p \notin Taken
    <3>1. PICK c \in 1..Len(formula) : \E r \in 1..Len(formula[c]) : formula[c][r] = p
      BY <2>1, InFormulaPlace
    <3>2. PICK r \in 1..Len(formula[c]) : formula[c][r] = p
      BY <3>1
    <3>3. Len(formula[c]) <= maxSize /\ Len(formula[c]) \in Nat
      <4>1. formula[c] \in Seq(DOMAIN avaiablePacks)
        BY <2>1 DEF TypeOK
      <4> QED BY <4>1 DEF LeftInv
    <3>4. r - 1 < Frame.row
      BY <2>1, <2>2, <3>3
    <3> QED BY <2>1, <3>2, <3>4 DEF PutBack, Passed
  <2> QED BY <2>3
<1>2. CASE recCallNum # 0
  <2>1. OnlyPending
    BY <1>2 DEF LeftInv, SearchFlags
  <2>2. 1..(Len(stack) - 1) = {}
    OBVIOUS
  <2> QED BY <2>1, <2>2 DEF OnlyPending
<1> QED BY <1>1, <1>2

\* The outermost call returns: a list, a deeper search, or a refusal.
LEMMA LeftReturnToProvide ==
  ASSUME BoundsInv, FoundInv, LeftInv, ReturnToProvide
  PROVE  LeftInv'
<1>1. /\ pc = "returning" /\ Len(stack) = 1 /\ UNCHANGED <<index, added, requestVars, res>>
      /\ request' = request /\ listed' = listed /\ formula' = formula
      /\ maxSize' = maxSize /\ before' = before /\ recCallNum \in Nat
  BY DEF ReturnToProvide, requestVars, BoundsInv, TypeOK
<1>2. InFormula = Chosen /\ Taken \ InFormula = (before \cup Sole) \ InFormula
  BY <1>1, WholeRequest DEF LeftInv, FoundInv
<1>3. CASE Collect
  BY <1>1, <1>2, <1>3, LeftCollect
<1>4. CASE ~res /\ Tune(recCallNum + 1)
  <2>1. /\ pc' = "tuning" /\ avaiablePacks' = avaiablePacks /\ recCallNum' # 0
    BY <1>1, <1>4 DEF Tune
  <2>2. Taken' = Taken /\ InFormula' = InFormula
    BY <1>1, <2>1 DEF Taken, InFormula
  <2>3. OnlyPending'
    BY <1>1, <1>4, <2>2, FailedSearch DEF OnlyPending
  <2>4. SearchFlags'
    BY <2>1, <2>3 DEF SearchFlags
  <2> QED BY <1>1, <2>1, <2>2, <2>4, LeftSearch
<1>5. CASE ~res /\ Refuse
  <2>1. pc' = "answered" /\ result' = NotFound /\ avaiablePacks' = avaiablePacks
    BY <1>5 DEF Refuse
  <2>2. Taken' = Taken /\ Sole' = Sole /\ Chosen' = Chosen
    BY <1>1, <2>1 DEF Taken, Sole, Chosen, Providers
  <2>3. Taken = (before \cup Sole) \ Chosen
    BY <1>1, <1>2, <1>5, FailedSearch
  <2> QED BY <1>1, <2>1, <2>2, <2>3 DEF LeftInv, SearchFlags, LeftBehind
<1> QED BY <1>3, <1>4, <1>5 DEF ReturnToProvide

\* Every step accounts for the flags it raises and lowers.
LEMMA LeftStep ==
  ASSUME BoundsInv, FoundInv, LeftInv, [Next]_dbVars
  PROVE  LeftInv'
<1>1. CASE UNCHANGED dbVars
  BY <1>1 DEF dbVars, searchVars, requestVars, LeftInv, SearchFlags, PutBack, OnlyPending,
     Passed, FlagAt, Frame, Taken, InFormula, SoleOf, ChosenOf, Sole, Chosen, Providers, LeftBehind
<1>2. CASE Search
  BY <1>2, LeftListDatum, LeftEndListing, LeftSkipPlace, LeftTryPlace, LeftRecur,
     LeftFallOff, LeftReturnToCaller, LeftReturnToProvide DEF Search
<1> QED BY <1>1, <1>2, LeftAddPacket, LeftProvide DEF Next

\* For data bases and requests of any size, the flags one request leaves up for
\* the next are exactly those LeftBehind names: a refusal hands its only packets
\* on to the next list, and the search itself never leaves a packet taken.
THEOREM FlagsLeftBehind == Spec => []LeftBehind
<1>1. Init => BoundsInv /\ FoundInv /\ LeftInv
  BY BoundsInit, FoundInit, LeftInit
<1>2. BoundsInv /\ FoundInv /\ LeftInv /\ [Next]_dbVars => (BoundsInv /\ FoundInv /\ LeftInv)'
  BY BoundsStep, FoundStep, LeftStep
<1>3. LeftInv => LeftBehind
  BY DEF LeftInv
<1> QED BY <1>1, <1>2, <1>3, PTL DEF Spec
=============================================================================
