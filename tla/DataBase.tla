------------------------------ MODULE DataBase ------------------------------
(***************************************************************************)
(* ComuFrame/DataBase.cpp: which packets hold which data, and the search   *)
(* for the packets that answer a request.  providePackets is a machine     *)
(* here, for its search, tuneFunctions, recurs and communicates through    *)
(* flags it sets in avaiablePacks: each action is one round of a loop or   *)
(* one return, and `stack` holds one frame per pending call.  Falling off  *)
(* the end of tuneFunctions returns either truth value.                    *)
(***************************************************************************)
EXTENDS Naturals, Sequences, SequencesExt

CONSTANTS Data,      \* names of data, "name_type"
          Packs,     \* names of packets, "name_sender"
          MaxAdded,  \* bound: calls of addPacket
          MaxRequest \* bound: data in one request

\* What providePackets returns when the search fails.
NotFound == {"can't find your data in the DB"}

\* The name of a packet has an underscore, so the message is not a packet.
ASSUME DataBaseAssumption ==
  MaxAdded \in Nat /\ MaxRequest \in Nat /\ NotFound \notin SUBSET Packs

VARIABLES
  index,         \* data -> the packets that hold it, in the order they came
  avaiablePacks, \* packet -> its flag, TRUE for "taken"
  added,         \* calls of addPacket so far (bounded by MaxAdded)
  pc,            \* "idle", "listing", "tuning", "returning", "answered"
  request,       \* requestedData, the argument of providePackets
  listed,        \* rounds of the first loop of providePackets so far
  formula,       \* andClause: a clause for each datum without a single provider
  maxSize,       \* the length of the longest clause
  recCallNum,    \* i of providePackets: how deep this search recurs
  stack,         \* the pending calls of tuneFunctions, outermost first
  res,           \* what the call that is returning returns
  result,        \* what providePackets returned
  before         \* history: the packets that were taken when it was called

requestVars == <<request, listed, formula, maxSize, before>>
searchVars == <<requestVars, recCallNum, stack, res, result>>
dbVars == <<index, avaiablePacks, added, pc, searchVars>>

Init ==
  /\ index = [d \in {} |-> <<>>]
  /\ avaiablePacks = [p \in {} |-> FALSE]
  /\ added = 0
  /\ pc = "idle"
  /\ request = <<>>
  /\ listed = 0
  /\ formula = <<>>
  /\ maxSize = 0
  /\ recCallNum = 0
  /\ stack = <<>>
  /\ res = FALSE
  /\ result = {}
  /\ before = {}

\* index[data] of an unordered_map: an unknown key has no packets.
Providers(d) == IF d \in DOMAIN index THEN index[d] ELSE <<>>

\* addPacket: packet p with the data of `content`.  A name that is already
\* there ("name_sender" does not tell "A_b","c" from "A","b_c") keeps its flag.
AddPacket(p, content) ==
  /\ pc \in {"idle", "answered"}
  /\ added < MaxAdded
  /\ added' = added + 1
  /\ avaiablePacks' = [q \in DOMAIN avaiablePacks \cup {p} |->
                         IF q \in DOMAIN avaiablePacks THEN avaiablePacks[q] ELSE FALSE]
  /\ index' = [d \in DOMAIN index \cup content |->
                 IF d \in content THEN Append(Providers(d), p) ELSE index[d]]
  /\ pc' = "idle"
  /\ UNCHANGED searchVars

\* The packets whose flag is up.
Taken == {p \in DOMAIN avaiablePacks : avaiablePacks[p]}

\* avaiablePacks after resetPackets.
resetPackets == [p \in DOMAIN avaiablePacks |-> FALSE]

\* providePackets is called with the data r.
ProvidePackets(r) ==
  /\ pc \in {"idle", "answered"}
  /\ pc' = "listing"
  /\ request' = r
  /\ listed' = 0
  /\ formula' = <<>>
  /\ maxSize' = 0
  /\ before' = Taken
  /\ UNCHANGED <<index, avaiablePacks, added, recCallNum, stack, res, result>>

\* A round of its first loop: it takes the packet of a datum that has one
\* provider, and makes a clause of the providers of any other datum.
\* index[data] inserts the data it does not find.
ListDatum ==
  LET data     == request[listed + 1]
      orClause == Providers(data)
  IN /\ pc = "listing"
     /\ listed < Len(request)
     /\ index' = [d \in DOMAIN index \cup {data} |-> Providers(d)]
     /\ IF Len(orClause) = 1
        THEN /\ avaiablePacks' = [avaiablePacks EXCEPT ![orClause[1]] = TRUE]
             /\ UNCHANGED <<formula, maxSize>>
        ELSE /\ formula' = Append(formula, orClause)
             /\ maxSize' = IF Len(orClause) > maxSize THEN Len(orClause) ELSE maxSize
             /\ UNCHANGED avaiablePacks
     /\ listed' = listed + 1
     /\ UNCHANGED <<added, pc, request, before, recCallNum, stack, res, result>>

\* The end of providePackets: it lists the taken packets and resets the flags.
Collect ==
  /\ result' = Taken
  /\ avaiablePacks' = resetPackets
  /\ pc' = "answered"
  /\ stack' = <<>>
  /\ UNCHANGED recCallNum

\* The second loop of providePackets calls tuneFunctions(&andClause, maxSize, i, 0).
Tune(i) ==
  /\ recCallNum' = i
  /\ stack' = << [row |-> 0, column |-> 0] >>
  /\ pc' = "tuning"
  /\ UNCHANGED <<avaiablePacks, result>>

\* The first loop has ended: the search begins, if there is a clause.
EndListing ==
  /\ pc = "listing"
  /\ listed = Len(request)
  /\ IF formula = <<>> THEN Collect ELSE Tune(0)
  /\ UNCHANGED <<index, added, requestVars, res>>

\* The running call of tuneFunctions, and its place in the formula.
Frame == Last(stack)
callNumber == Len(stack) - 1
InClause == Frame.row < Len(formula[Frame.column + 1])
FlagAtFrame == formula[Frame.column + 1][Frame.row + 1]

\* A form of Advanced that starts the next row at column 0.
AdvancedFromZero(s) ==
  LET f == Last(s)
  IN [s EXCEPT ![Len(s)] = IF f.column + 1 < Len(formula)
                           THEN [f EXCEPT !.column = @ + 1]
                           ELSE [row |-> f.row + 1, column |-> 0]]

\* A form of Advanced that stays in its row.
AdvancedInRow(s) ==
  LET f == Last(s)
  IN [s EXCEPT ![Len(s)] = [f EXCEPT !.column = IF @ + 1 < Len(formula) THEN @ + 1
                                                ELSE Len(s) - 1]]

\* The stack with the running call at its next place: the next column of the
\* row, or the first column (callNumber) of the next row.
Advanced(s) ==
  LET f == Last(s)
  IN [s EXCEPT ![Len(s)] = IF f.column + 1 < Len(formula)
                           THEN [f EXCEPT !.column = @ + 1]
                           ELSE [row |-> f.row + 1, column |-> Len(s) - 1]]

\* A form of evaluateOR with its test inverted.
evaluateORInverted(clause) == clause = <<>>

\* evaluateOR tests the pointers of a clause, which are never null.
evaluateOR(clause) == clause # <<>>
evaluateAND == \A c \in DOMAIN formula : evaluateOR(formula[c])

\* A round of the loops at a place outside its clause.
SkipPlace ==
  /\ pc = "tuning"
  /\ Frame.row < maxSize
  /\ ~InClause
  /\ stack' = Advanced(stack)
  /\ UNCHANGED <<index, avaiablePacks, added, pc, requestVars, recCallNum, res, result>>

\* A form of TryPlace that leaves the packet taken.
TryPlaceKeeps ==
  /\ pc = "tuning"
  /\ Frame.row < maxSize
  /\ InClause
  /\ recCallNum = callNumber
  /\ avaiablePacks' = [avaiablePacks EXCEPT ![FlagAtFrame] = TRUE]
  /\ IF evaluateAND
     THEN pc' = "returning" /\ res' = TRUE /\ UNCHANGED stack
     ELSE stack' = Advanced(stack) /\ UNCHANGED <<pc, res>>
  /\ UNCHANGED <<index, added, requestVars, recCallNum, result>>

\* A round of the innermost call: take the packet, evaluate, and put the packet
\* back when the formula does not hold.
TryPlace ==
  /\ pc = "tuning"
  /\ Frame.row < maxSize
  /\ InClause
  /\ recCallNum = callNumber
  /\ avaiablePacks' = [avaiablePacks EXCEPT ![FlagAtFrame] = evaluateAND]
  /\ IF evaluateAND
     THEN pc' = "returning" /\ res' = TRUE /\ UNCHANGED stack
     ELSE stack' = Advanced(stack) /\ UNCHANGED <<pc, res>>
  /\ UNCHANGED <<index, added, requestVars, recCallNum, result>>

\* A round of an outer call: take the packet and recur.
Recur ==
  /\ pc = "tuning"
  /\ Frame.row < maxSize
  /\ InClause
  /\ recCallNum # callNumber
  /\ avaiablePacks' = [avaiablePacks EXCEPT ![FlagAtFrame] = TRUE]
  /\ stack' = Append(stack, [row |-> 0, column |-> callNumber + 1])
  /\ UNCHANGED <<index, added, pc, requestVars, recCallNum, res, result>>

\* The loops end and the function ends without a return statement.
FallOff ==
  /\ pc = "tuning"
  /\ Frame.row >= maxSize
  /\ pc' = "returning"
  /\ res' \in BOOLEAN
  /\ UNCHANGED <<index, avaiablePacks, added, requestVars, recCallNum, stack, result>>

\* A nested call returns to the call that made it, which returns TRUE at once
\* or puts its packet back and goes on.
ReturnToCaller ==
  /\ pc = "returning"
  /\ Len(stack) > 1
  /\ LET s == Front(stack)
         f == Last(s)
     IN IF res
        THEN stack' = s /\ UNCHANGED <<avaiablePacks, pc>>
        ELSE /\ avaiablePacks' = [avaiablePacks EXCEPT ![formula[f.column + 1][f.row + 1]] = FALSE]
             /\ stack' = Advanced(s)
             /\ pc' = "tuning"
  /\ UNCHANGED <<index, added, requestVars, recCallNum, res, result>>

\* A form of Refuse without its return: the taken packets are listed as well.
RefuseAndList ==
  /\ result' = NotFound \cup Taken
  /\ avaiablePacks' = resetPackets
  /\ pc' = "answered"
  /\ stack' = <<>>
  /\ UNCHANGED recCallNum

\* providePackets reports that the data cannot be found and returns at once,
\* leaving the flags as they are.
Refuse ==
  /\ result' = NotFound
  /\ pc' = "answered"
  /\ stack' = <<>>
  /\ UNCHANGED <<avaiablePacks, recCallNum>>

\* The outermost call returns to the second loop of providePackets: TRUE ends
\* it; FALSE makes it search one level deeper or, at the last level, refuse.
ReturnToProvide ==
  /\ pc = "returning"
  /\ Len(stack) = 1
  /\ \/ res /\ Collect
     \/ ~res /\ recCallNum < Len(formula) - 1 /\ Tune(recCallNum + 1)
     \/ ~res /\ recCallNum = Len(formula) - 1 /\ Refuse
  /\ UNCHANGED <<index, added, requestVars, res>>

Search == \/ ListDatum \/ EndListing
          \/ SkipPlace \/ TryPlace \/ Recur \/ FallOff
          \/ ReturnToCaller \/ ReturnToProvide

Next ==
  \/ \E p \in Packs, content \in SUBSET Data : AddPacket(p, content)
  \/ \E k \in 0..MaxRequest : \E r \in [1..k -> Data] : ProvidePackets(r)
  \/ Search

Spec == Init /\ [][Next]_dbVars

\* The caller of providePackets waits for it to return.
FairSpec == Spec /\ WF_dbVars(Search)
-----------------------------------------------------------------------------
\* Type invariant of the data base and of the search.
TypeOK ==
  /\ DOMAIN index \subseteq Data
  /\ \A d \in DOMAIN index : index[d] \in Seq(DOMAIN avaiablePacks)
  /\ DOMAIN avaiablePacks \subseteq Packs
  /\ \A p \in DOMAIN avaiablePacks : avaiablePacks[p] \in BOOLEAN
  /\ added \in 0..MaxAdded
  /\ pc \in {"idle", "listing", "tuning", "returning", "answered"}
  /\ request \in Seq(Data)
  /\ listed \in 0..Len(request)
  /\ maxSize \in Nat
  /\ formula \in Seq(Seq(DOMAIN avaiablePacks))
  /\ recCallNum \in Nat
  /\ stack \in Seq([row : Nat, column : Nat])
  /\ res \in BOOLEAN
  /\ result \subseteq DOMAIN avaiablePacks \/ result = NotFound
  /\ before \subseteq DOMAIN avaiablePacks

\* Every place the search touches is in the formula: a call reads columns from
\* its own number on, a pending call waits at a place where it took a packet,
\* and the recursion is no deeper than the formula is long (the subscripts of
\* tuneFunctions are unchecked).
SearchInBounds ==
  pc \in {"tuning", "returning"} =>
    /\ recCallNum < Len(formula)
    /\ Len(stack) \in 1..(recCallNum + 1)
    /\ \A k \in 1..Len(stack) : stack[k].column \in (k - 1)..(Len(formula) - 1)
    /\ \A k \in 1..(Len(stack) - 1) :
         stack[k].row < Len(formula[stack[k].column + 1])

\* The packets of the requested data with one provider, and of the others.
Sole == {p \in DOMAIN avaiablePacks : \E i \in 1..Len(request) :
           Len(Providers(request[i])) = 1 /\ p \in ToSet(Providers(request[i]))}
Chosen == {p \in DOMAIN avaiablePacks : \E i \in 1..Len(request) :
             Len(Providers(request[i])) # 1 /\ p \in ToSet(Providers(request[i]))}

\* What one request leaves to the next, although data share packets, a packet
\* may come twice and the search raises and lowers the same flags many times.
\* A request that is refused (DataBase.cpp:52) leaves taken exactly the packets
\* it found taken and the only packets of its data, less all that the search
\* could choose from, which it has put back.  One that is answered leaves
\* nothing; its list holds all those packets, the ones left by earlier refusals
\* included, and besides them only packets that the search could choose from.
LeftBehind ==
  pc = "answered" =>
    LET kept == (before \cup Sole) \ Chosen
    IN IF result = NotFound
       THEN Taken = kept
       ELSE /\ Taken = {}
            /\ kept \subseteq result
            /\ result \subseteq kept \cup Chosen

Listed(d) == \E p \in result : p \in ToSet(index[d])

\* When every requested datum has a provider, providePackets does not report
\* that the data cannot be found; it lists the packet of every datum that has
\* one provider, and a packet of the first datum that has several.
ProvidedAreFound ==
  pc = "answered" /\ (\A d \in ToSet(request) : index[d] # <<>>) =>
    /\ result # NotFound
    /\ \A i \in 1..Len(request) :
         Len(index[request[i]]) = 1 \/ (\A j \in 1..(i - 1) : Len(index[request[j]]) = 1)
           => Listed(request[i])

\* providePackets returns: the search ends however its calls answer.
SearchEnds == pc = "listing" ~> pc = "answered"

\* "given a set of data requested from a node provide the packets in wich they
\* can be found": when every requested datum has a provider each is listed.
AllDataCovered ==
  pc = "answered" /\ (\A d \in ToSet(request) : index[d] # <<>>) =>
    \A d \in ToSet(request) : Listed(d)
=============================================================================
