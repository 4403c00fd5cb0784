--------------------------- MODULE ExchangeProofs ---------------------------
(* Blockades and money of the exchange for any requests, wallets, amounts and *)
(* rates; what races of requests leave in the currency factory and the wallet *)
(* directory for any requests, symbols and holders; and the treasury watcher  *)
(* for any hashes, rows, batch, errors and crashes.                           *)
EXTENDS Exchange, CurrencyFactory, OnChain, Sums, SequenceTheorems, TLAPS

SwapFields == {"pc", "from", "to", "out", "in"}

\* As much of the types as the argument needs.
Shape ==
    /\ DOMAIN swap = Req /\ \A r \in Req : DOMAIN swap[r] = SwapFields
    /\ pair \in [Pair -> [rate : Rates \cup {Nil}, enabled : BOOLEAN]]

\* A sealed pair is closed to new swaps and none over it is under way.
SealedInv ==
    /\ \A p \in sealed : p \in Pair => ~Open(p)
    /\ \A r \in Req : swap[r].pc # "idle" => PairOf(swap[r].from, swap[r].to) \notin sealed

IInv == Shape /\ SealedInv

LetsNoneThrough == \A j \in journal' \ journal : j.status = "completed" => PairOf(j.from, j.to) \notin sealed

-----------------------------------------------------------------------------
LEMMA InitInv == ExchangeInit => IInv
  BY DEF ExchangeInit, IInv, Shape, SealedInv, SwapFields, Idle

LEMMA Edited ==
    ASSUME IInv, NEW p \in Pair, NEW rate \in Rates \cup {Nil}, NEW e \in BOOLEAN,
           pair' = [pair EXCEPT ![p] = [rate |-> rate, enabled |-> e]], Seal(p, e),
           UNCHANGED <<swap, journal>>
    PROVE  IInv' /\ LetsNoneThrough
  <1> DEFINE new == [rate |-> rate, enabled |-> e]
  <1>1. UNCHANGED <<swap, journal>>
    OBVIOUS
  <1>2. pair' = [pair EXCEPT ![p] = new] /\ Seal(p, e) /\ new.enabled = e
        /\ new \in [rate : Rates \cup {Nil}, enabled : BOOLEAN]
    OBVIOUS
  <1> HIDE DEF new
  <1>3. Shape'
    BY <1>1, <1>2 DEF IInv, Shape
  <1>4. \A q \in sealed' : q \in Pair => ~Open(q)'
    <2>1. pair'[p] = new /\ \A q \in Pair \ {p} : pair'[q] = pair[q]
      BY <1>2 DEF IInv, Shape
    <2> QED
      BY <1>2, <2>1 DEF IInv, SealedInv, Seal, Open
  <1>5. \A r \in Req : swap[r].pc # "idle" => PairOf(swap[r].from, swap[r].to) \notin sealed'
    BY <1>2 DEF IInv, SealedInv, Seal, Running
  <1>6. SealedInv'
    BY <1>1, <1>4, <1>5 DEF SealedInv, PairOf
  <1>7. LetsNoneThrough
    BY <1>1 DEF LetsNoneThrough
  <1> QED
    BY <1>3, <1>6, <1>7 DEF IInv

LEMMA EditStep ==
    ASSUME IInv, NEW p \in Pair, NEW e \in BOOLEAN, SetPairEnabled(p, e) \/ DeletePair(p)
    PROVE  IInv' /\ LetsNoneThrough
  <1>1. CASE SetPairEnabled(p, e)
    <2>1. pair[p] \in [rate : Rates \cup {Nil}, enabled : BOOLEAN]
      BY DEF IInv, Shape
    <2>2. [pair[p] EXCEPT !.enabled = e] = [rate |-> pair[p].rate, enabled |-> e]
          /\ pair[p].rate \in Rates \cup {Nil}
      BY <2>1
    <2>3. pair' = [pair EXCEPT ![p] = [pair[p] EXCEPT !.enabled = e]]
      BY <1>1 DEF SetPairEnabled
    <2>4. Seal(p, e) /\ UNCHANGED <<swap, journal>>
      BY <1>1 DEF SetPairEnabled
    <2> QED
      BY <2>2, <2>3, <2>4, Edited
  <1>2. CASE DeletePair(p)
    <2>1. /\ pair' = [pair EXCEPT ![p] = [rate |-> Nil, enabled |-> FALSE]]
          /\ Seal(p, FALSE) /\ UNCHANGED <<swap, journal>>
      BY <1>2 DEF DeletePair
    <2> QED
      BY <2>1, Edited
  <1> QED
    BY <1>1, <1>2

\* A swap starts over an open pair, which no sealed one is.
LEMMA TransferStep ==
    ASSUME IInv, NEW r \in Req, NEW from \in Wallet, NEW to \in Wallet, NEW amount \in Amounts,
           CrossStateTransfer(r, from, to, amount)
    PROVE  IInv' /\ LetsNoneThrough
  <1> DEFINE new == [pc |-> "read", from |-> from, to |-> to, out |-> amount,
                     in |-> Converted(amount, pair[PairOf(from, to)].rate)]
  <1>1. DOMAIN new = SwapFields /\ new.from = from /\ new.to = to
    BY DEF SwapFields
  <1>2. swap' = [swap EXCEPT ![r] = new] /\ UNCHANGED <<pair, journal, sealed>>
    BY DEF CrossStateTransfer
  <1>3. PairOf(from, to) \notin sealed
    BY DEF CrossStateTransfer, IInv, SealedInv
  <1> HIDE DEF new
  <1>4. Shape' /\ \A q \in Req : swap'[q] = IF q = r THEN new ELSE swap[q]
    BY <1>1, <1>2 DEF IInv, Shape
  <1>5. SealedInv'
    BY <1>1, <1>2, <1>3, <1>4 DEF IInv, SealedInv, Open, PairOf
  <1> QED
    BY <1>2, <1>4, <1>5 DEF IInv, LetsNoneThrough

\* A swap goes on: its wallets stay.
LEMMA GoesOn ==
    ASSUME IInv, NEW r \in Req, NEW pc, swap[r].pc # "idle", swap' = [swap EXCEPT ![r].pc = pc],
           UNCHANGED <<pair, journal, sealed>>
    PROVE  IInv' /\ LetsNoneThrough
  <1>1. DOMAIN swap' = Req /\ \A q \in Req : /\ DOMAIN swap'[q] = SwapFields
                                             /\ swap'[q].from = swap[q].from /\ swap'[q].to = swap[q].to
                                             /\ swap'[q].pc # "idle" => swap[q].pc # "idle"
    BY DEF IInv, Shape, SwapFields
  <1> QED
    BY <1>1 DEF IInv, Shape, SealedInv, Open, PairOf, LetsNoneThrough

\* A swap ends, or fails, with a row of its own wallets or none.
LEMMA Ends ==
    ASSUME IInv, NEW r \in Req, NEW rows, NEW s, swap[r].pc # "idle", swap' = [swap EXCEPT ![r] = s],
           s = Idle \/ s = [swap[r] EXCEPT !.pc = "failed"],
           journal' = journal \cup rows, UNCHANGED <<pair, sealed>>,
           \A j \in rows : j.from = swap[r].from /\ j.to = swap[r].to
    PROVE  IInv' /\ LetsNoneThrough
  <1>1. /\ DOMAIN s = SwapFields
        /\ s.pc # "idle" => s.from = swap[r].from /\ s.to = swap[r].to
    <2>1. CASE s = Idle
      BY <2>1 DEF Idle, SwapFields
    <2>2. CASE s = [swap[r] EXCEPT !.pc = "failed"]
      <3>1. DOMAIN swap[r] = SwapFields
        BY DEF IInv, Shape
      <3>2. DOMAIN s = SwapFields
        BY <2>2, <3>1
      <3> QED
        BY <2>2, <3>1, <3>2 DEF SwapFields
    <2> QED
      BY <2>1, <2>2
  <1>2. Shape' /\ SealedInv'
    <2>1. Shape' /\ \A q \in Req : swap'[q] = IF q = r THEN s ELSE swap[q]
      BY <1>1 DEF IInv, Shape
    <2> QED
      BY <1>1, <2>1 DEF IInv, SealedInv, Open, PairOf
  <1>3. \A j \in journal' \ journal : j.from = swap[r].from /\ j.to = swap[r].to
    OBVIOUS
  <1>4. LetsNoneThrough
    BY <1>3 DEF IInv, SealedInv, LetsNoneThrough
  <1> QED
    BY <1>2, <1>4 DEF IInv

LEMMA SwapStep == ASSUME ExchangeConstants, IInv, NEW r \in Req, Step(r) PROVE IInv' /\ LetsNoneThrough
  <1>1. CASE ReadSource(r)
    BY <1>1, GoesOn DEF ReadSource, Goto
  <1>2. CASE Debit(r)
    BY <1>2, GoesOn DEF Debit, Goto
  <1>3. CASE Credit(r)
    BY <1>3, GoesOn DEF Credit, Goto
  <1>4. CASE Abort(r)
    <2>1. swap[r].pc # "idle"
      BY <1>4 DEF Abort, Deadlocked, WaitsFor, ExchangeConstants
    <2> QED
      BY <1>4, <2>1, GoesOn DEF Abort, Goto
  <1>5. CASE Commit(r)
    <2> DEFINE rows == {RowOf(swap[r], "completed")}
    <2>1. /\ \A j \in rows : j.from = swap[r].from /\ j.to = swap[r].to
          /\ swap[r].pc # "idle" /\ journal' = journal \cup rows /\ UNCHANGED <<pair, sealed>>
      BY <1>5 DEF Commit, RowOf
    <2>2. PICK s \in {Idle, [swap[r] EXCEPT !.pc = "failed"]} : swap' = [swap EXCEPT ![r] = s]
      BY <1>5 DEF Commit, Goto
    <2> HIDE DEF rows
    <2> QED
      BY <2>1, <2>2, Ends
  <1>6. CASE WriteFailedRow(r)
    <2> DEFINE rows == {RowOf(swap[r], "failed")}
    <2>1. /\ \A j \in rows : j.from = swap[r].from /\ j.to = swap[r].to
          /\ swap[r].pc # "idle" /\ journal' = journal \cup rows /\ UNCHANGED <<pair, sealed>>
          /\ swap' = [swap EXCEPT ![r] = Idle]
      BY <1>6 DEF WriteFailedRow, RowOf
    <2> HIDE DEF rows
    <2> QED
      BY <2>1, Ends
  <1>7. CASE SwapDies(r)
    <2> DEFINE rows == {}
    <2>1. journal' = journal \cup rows /\ \A j \in rows : j.from = swap[r].from /\ j.to = swap[r].to
      BY <1>7 DEF SwapDies
    <2> HIDE DEF rows
    <2> QED
      BY <1>7, <2>1, Ends DEF SwapDies
  <1> QED
    BY <1>1, <1>2, <1>3, <1>4, <1>5, <1>6, <1>7 DEF Step

LEMMA Inductive == ASSUME ExchangeConstants, IInv, [ExchangeNext]_exchangeVars PROVE IInv' /\ (LetsNoneThrough \/ UNCHANGED exchangeVars)
  <1>1. CASE UNCHANGED exchangeVars
    BY <1>1 DEF exchangeVars, IInv, Shape, SealedInv, Open, PairOf
  <1>2. CASE ExchangeNext
    <2>1. CASE \E r \in Req : Step(r)
      BY <2>1, SwapStep
    <2>2. CASE \E r \in Req, from, to \in Wallet, amount \in Amounts : CrossStateTransfer(r, from, to, amount)
      BY <2>2, TransferStep
    <2>3. CASE \E p \in Pair, rate \in Rates, e \in BOOLEAN : UpsertPair(p, rate, e)
      BY <2>3, Edited DEF UpsertPair
    <2>4. CASE \E p \in Pair, e \in BOOLEAN : SetPairEnabled(p, e)
      BY <2>4, EditStep
    <2>5. CASE \E p \in Pair : DeletePair(p)
      BY <2>5, EditStep, FALSE \in BOOLEAN
    <2> QED
      BY <1>2, <2>1, <2>2, <2>3, <2>4, <2>5 DEF ExchangeNext
  <1> QED
    BY <1>1, <1>2

\* A blockade set while no swap over the pair is running lets none through,
\* however swaps and later changes of other pairs interleave.
THEOREM BlockadesHold == ASSUME ExchangeConstants PROVE ExchangeSpec => BlockadeHolds
  <1>1. IInv /\ [ExchangeNext]_exchangeVars => [LetsNoneThrough]_exchangeVars
    BY Inductive
  <1>2. [LetsNoneThrough]_exchangeVars <=> [\A j \in journal' \ journal :
            j.status = "completed" => PairOf(j.from, j.to) \notin sealed]_exchangeVars
    BY DEF LetsNoneThrough
  <1> QED
    BY <1>1, <1>2, InitInv, Inductive, PTL DEF ExchangeSpec, BlockadeHolds

-----------------------------------------------------------------------------
(* The money. *)

\* A swap past the second check has promised its amount until it settles.
Pending == {"debit", "credit", "commit"}
SwapRecord == [pc : {"idle", "read", "failed"} \cup Pending,
               from : Wallet \cup {Nil}, to : Wallet \cup {Nil}, out : Nat, in : Nat]
SwapOK(s) == s.pc # "idle" => s.from \in Wallet /\ s.to \in Wallet /\ s.from # s.to /\ s.out \in Amounts
Due(s, w) == IF s.pc \in Pending /\ s.from = w THEN s.out ELSE 0
Promised(w) == SumFunctionOnSet([r \in Req |-> Due(swap[r], w)], Req)

\* Row ids come in turn, so that no two rows are one.
JournalInv ==
    /\ IsFiniteSet(journal)
    /\ \A j \in journal : j.id \in Nat /\ j.id <= Cardinality(journal) /\ j.out \in Nat /\ j.in \in Nat

Debt == (Cardinality(Req) - 1) * MaxAmount

\* After every promise is kept a wallet is still within the bound.
Covered == \A w \in Wallet : bal[w] - Promised(w) >= -Debt

MoneyInv ==
    /\ bal \in [Wallet -> Int]
    /\ pair \in [Pair -> [rate : Rates \cup {Nil}, enabled : BOOLEAN]]
    /\ swap \in [Req -> SwapRecord] /\ \A r \in Req : SwapOK(swap[r])
    /\ JournalInv /\ SwapsExplainBalances /\ Covered

-----------------------------------------------------------------------------
LEMMA DebtType ==
    ASSUME ExchangeConstants
    PROVE  /\ MaxAmount \in Nat /\ \A n \in Amounts : n \in Nat /\ n <= MaxAmount
           /\ Cardinality(Req) \in Nat \ {0} /\ Debt \in Nat
  <1>1. \E x \in Amounts : \A y \in Amounts : x >= y
    BY Greatest DEF ExchangeConstants
  <1>2. MaxAmount \in Amounts /\ \A y \in Amounts : MaxAmount >= y
    BY <1>1 DEF MaxAmount, Max
  <1>3. MaxAmount \in Nat /\ \A n \in Amounts : n \in Nat /\ n <= MaxAmount
    BY <1>2 DEF ExchangeConstants
  <1>4. Cardinality(Req) \in Nat /\ Cardinality(Req) # 0
    BY FS_CardinalityType, FS_EmptySet DEF ExchangeConstants
  <1>5. (Cardinality(Req) - 1) * MaxAmount \in Nat
    <2> DEFINE n == Cardinality(Req) - 1
    <2>1. n \in Nat
      BY <1>4
    <2> HIDE DEF n
    <2>2. n * MaxAmount \in Nat
      BY <1>3, <2>1
    <2> QED
      BY <2>2 DEF n
  <1> QED
    BY <1>3, <1>4, <1>5 DEF Debt

LEMMA DueType ==
    ASSUME ExchangeConstants, NEW s \in SwapRecord, SwapOK(s), NEW w \in Wallet
    PROVE  Due(s, w) \in 0..MaxAmount
  <1>1. s.pc \in Pending => s.out \in Amounts
    BY DEF SwapOK, Pending
  <1> QED
    BY <1>1, DebtType DEF Due

LEMMA PromisedType ==
    ASSUME ExchangeConstants, MoneyInv, NEW w \in Wallet
    PROVE  Promised(w) \in Nat
  <1> DEFINE due == [r \in Req |-> Due(swap[r], w)]
  <1>1. \A r \in Req : due[r] \in 0..MaxAmount
    BY DueType DEF MoneyInv
  <1> HIDE DEF due
  <1>2. SumFunctionOnSet(due, Req) \in Int /\ SumFunctionOnSet(due, Req) \in 0..(Cardinality(Req) * MaxAmount)
    BY <1>1, DebtType, SumInt, SumBounded DEF ExchangeConstants
  <1>3. SumFunctionOnSet(due, Req) \in Nat
    <2> DEFINE n == Cardinality(Req) * MaxAmount
    <2> HIDE DEF n
    <2> QED
      BY <1>2 DEF n
  <1> QED
    BY <1>3 DEF Promised, due

\* Only what one swap promises changes.
LEMMA PromiseMoves ==
    ASSUME ExchangeConstants, MoneyInv, NEW r \in Req, NEW s \in SwapRecord, SwapOK(s),
           swap' = [swap EXCEPT ![r] = s], NEW w \in Wallet
    PROVE  /\ Promised(w)' = Promised(w) - Due(swap[r], w) + Due(s, w)
           /\ Promised(w) - Due(swap[r], w) <= Debt
  <1> DEFINE due == [q \in Req |-> Due(swap[q], w)]
             then == [q \in Req |-> Due(swap'[q], w)]
             rest == Req \ {r}
  <1>1. \A q \in Req : due[q] \in 0..MaxAmount /\ due[q] = Due(swap[q], w)
    BY DueType DEF MoneyInv
  <1>2. /\ \A q \in rest : then[q] = due[q]
        /\ then[r] = Due(s, w) /\ then[r] \in 0..MaxAmount
    BY DueType DEF MoneyInv
  <1>3. IsFiniteSet(Req) /\ IsFiniteSet(rest) /\ Cardinality(rest) = Cardinality(Req) - 1
    BY FS_RemoveElement DEF ExchangeConstants
  <1>4. MaxAmount \in Nat
    BY DebtType
  <1>5. Promised(w) = SumFunctionOnSet(due, Req)
    BY DEF Promised
  <1>6. Promised(w)' = SumFunctionOnSet(then, Req)
    BY DEF Promised, Due
  <1> HIDE DEF due, then
  <1>7. SumFunctionOnSet(due, Req) = due[r] + SumFunctionOnSet(due, rest)
    BY <1>1, <1>3, <1>4, SumRemove
  <1>8. \A q \in Req : then[q] \in Int
    BY <1>1, <1>2, <1>4
  <1>9. SumFunctionOnSet(then, Req) = then[r] + SumFunctionOnSet(then, rest)
    BY <1>3, <1>8, SumRemove
  <1>10. SumFunctionOnSet(then, rest) = SumFunctionOnSet(due, rest)
    <2>1. \A q \in rest : due[q] \in Int /\ then[q] = due[q]
      BY <1>1, <1>2, <1>4
    <2> HIDE DEF rest
    <2> QED
      BY <1>3, <2>1, SumSame
  <1>11. SumFunctionOnSet(due, rest) \in 0..Debt
    <2>1. \A q \in rest : due[q] \in 0..MaxAmount
      BY <1>1
    <2> HIDE DEF rest
    <2>2. SumFunctionOnSet(due, rest) \in 0..(Cardinality(rest) * MaxAmount)
      BY <1>3, <1>4, <2>1, SumBounded
    <2> QED
      BY <1>3, <2>2 DEF Debt
  <1> QED
    <2>1. due[r] \in Int /\ then[r] \in Int /\ due[r] = Due(swap[r], w) /\ then[r] = Due(s, w)
      BY <1>1, <1>2, <1>4
    <2>2. Debt \in Nat
      BY DebtType
    <2> HIDE DEF rest
    <2> QED
      BY <1>5, <1>6, <1>7, <1>9, <1>10, <1>11, <2>1, <2>2

-----------------------------------------------------------------------------
LEMMA MoneyInit == ASSUME ExchangeConstants, ExchangeInit PROVE MoneyInv
  <1>1. /\ bal \in [Wallet -> Int]
        /\ pair \in [Pair -> [rate : Rates \cup {Nil}, enabled : BOOLEAN]]
        /\ \A w \in Wallet : bal[w] = InitBal[w] /\ bal[w] \in Nat
    BY DEF ExchangeInit, ExchangeConstants
  <1>2. /\ swap \in [Req -> SwapRecord] /\ \A r \in Req : SwapOK(swap[r])
        /\ \A r \in Req, w \in Wallet : Due(swap[r], w) = 0
    BY DEF ExchangeInit, Idle, SwapRecord, SwapOK, Due, Pending
  <1>3. JournalInv
    BY FS_EmptySet DEF ExchangeInit, JournalInv
  <1>4. SwapsExplainBalances
    <2> SUFFICES ASSUME NEW w \in Wallet PROVE bal[w] = InitBal[w] - BurnedFrom(w) + MintedTo(w)
      BY DEF SwapsExplainBalances
    <2>1. {j \in Completed : j.from = w} = {} /\ {j \in Completed : j.to = w} = {}
      BY DEF ExchangeInit, Completed
    <2>2. BurnedFrom(w) = 0 /\ MintedTo(w) = 0
      BY <2>1, SumEmpty DEF BurnedFrom, MintedTo
    <2> QED
      BY <1>1, <2>2
  <1>5. Covered
    <2> SUFFICES ASSUME NEW w \in Wallet PROVE bal[w] - Promised(w) >= -Debt
      BY DEF Covered
    <2> DEFINE due == [r \in Req |-> Due(swap[r], w)]
    <2>1. \A r \in Req : due[r] = 0
      BY <1>2
    <2> HIDE DEF due
    <2>2. SumFunctionOnSet(due, Req) = 0
      BY <2>1, SumZero DEF ExchangeConstants
    <2>3. Promised(w) = 0
      BY <2>2 DEF Promised, due
    <2> QED
      BY <1>1, <2>3, DebtType
  <1> QED
    BY <1>1, <1>2, <1>3, <1>4, <1>5 DEF MoneyInv

\* A pair is edited: no money moves.
LEMMA PairMoney ==
    ASSUME MoneyInv, UNCHANGED <<bal, swap, journal>>,
           pair' \in [Pair -> [rate : Rates \cup {Nil}, enabled : BOOLEAN]]
    PROVE  MoneyInv'
  BY DEF MoneyInv, SwapOK, JournalInv, SwapsExplainBalances, BurnedFrom, MintedTo, Completed, Covered,
     Promised, Due

\* A swap starts or goes on without settling: what it promises anew it has seen
\* in its wallet.
LEMMA SwapMoney ==
    ASSUME ExchangeConstants, MoneyInv, NEW r \in Req, NEW s \in SwapRecord, SwapOK(s),
           swap' = [swap EXCEPT ![r] = s], UNCHANGED <<bal, pair, journal>>,
           \A w \in Wallet : Due(s, w) <= Due(swap[r], w) \/ Due(s, w) <= bal[w]
    PROVE  MoneyInv'
  <1>1. swap' \in [Req -> SwapRecord] /\ \A q \in Req : SwapOK(swap'[q])
    BY DEF MoneyInv
  <1>2. JournalInv' /\ SwapsExplainBalances'
    BY DEF MoneyInv, JournalInv, SwapsExplainBalances, BurnedFrom, MintedTo, Completed
  <1>3. Covered'
    <2> SUFFICES ASSUME NEW w \in Wallet PROVE bal[w] - Promised(w)' >= -Debt
      BY DEF Covered
    <2>1. /\ Promised(w)' = Promised(w) - Due(swap[r], w) + Due(s, w)
          /\ Promised(w) - Due(swap[r], w) <= Debt
      BY PromiseMoves
    <2>2. Promised(w) \in Nat /\ Debt \in Nat /\ bal[w] \in Int /\ bal[w] - Promised(w) >= -Debt
      BY PromisedType, DebtType DEF MoneyInv, Covered
    <2>3. Due(swap[r], w) \in Int /\ Due(s, w) \in Int
      BY DueType, DebtType DEF MoneyInv
    <2> QED
      BY <2>1, <2>2, <2>3
  <1> QED
    BY <1>1, <1>2, <1>3 DEF MoneyInv, SwapOK

\* A row more of a journal: it is new, and adds its amount to the sums it is in.
LEMMA RowAdded ==
    ASSUME NEW S, IsFiniteSet(S), NEW x, x \notin S, NEW f, NEW g, g[x] \in Int,
           \A y \in S : f[y] \in Int /\ g[y] = f[y]
    PROVE  /\ SumFunctionOnSet(g, S) = SumFunctionOnSet(f, S)
           /\ SumFunctionOnSet(g, S \cup {x}) = SumFunctionOnSet(f, S) + g[x]
           /\ SumFunctionOnSet(f, S) \in Int
  <1>1. SumFunctionOnSet(g, S) = SumFunctionOnSet(f, S) /\ SumFunctionOnSet(f, S) \in Int
    BY SumSame, SumInt
  <1>2. \A y \in S \cup {x} : g[y] \in Int
    OBVIOUS
  <1>3. SumFunctionOnSet(g, S \cup {x}) = g[x] + SumFunctionOnSet(g, S)
    BY <1>2, SumAdd
  <1> QED
    BY <1>1, <1>3

LEMMA RowWritten ==
    ASSUME MoneyInv, NEW r \in Req, NEW status, journal' = journal \cup {RowOf(swap[r], status)}
    PROVE  /\ JournalInv'
           /\ \A w \in Wallet :
                /\ BurnedFrom(w)' = BurnedFrom(w)
                     + IF status = "completed" /\ swap[r].from = w THEN swap[r].out ELSE 0
                /\ MintedTo(w)' = MintedTo(w)
                     + IF status = "completed" /\ swap[r].to = w THEN swap[r].in ELSE 0
                /\ BurnedFrom(w) \in Int /\ MintedTo(w) \in Int
  <1> DEFINE row == RowOf(swap[r], status)
             n == Cardinality(journal)
  <1>1. swap[r].out \in Nat /\ swap[r].in \in Nat
    BY DEF MoneyInv, SwapRecord
  <1>2. /\ row.id = n + 1 /\ row.from = swap[r].from /\ row.to = swap[r].to
        /\ row.out = swap[r].out /\ row.in = swap[r].in /\ row.status = status
    BY DEF RowOf
  <1>3. IsFiniteSet(journal) /\ n \in Nat
    BY FS_CardinalityType DEF MoneyInv, JournalInv
  <1>4. row \notin journal
    BY <1>2, <1>3 DEF MoneyInv, JournalInv
  <1>5. IsFiniteSet(journal') /\ Cardinality(journal') = n + 1
    BY <1>3, <1>4, FS_AddElement
  <1> HIDE DEF row, n
  <1>6. journal' = journal \cup {row}
    BY DEF row
  <1>7. \A j \in journal : j.id \in Nat /\ j.id <= n /\ j.out \in Nat /\ j.in \in Nat
    BY DEF MoneyInv, JournalInv, n
  <1>8. JournalInv'
    <2>1. \A j \in journal : j.id \in Nat /\ j.id <= n + 1 /\ j.out \in Nat /\ j.in \in Nat
      BY <1>3, <1>7
    <2>2. row.id \in Nat /\ row.id <= n + 1 /\ row.out \in Nat /\ row.in \in Nat
      BY <1>1, <1>2, <1>3
    <2> QED
      BY <1>5, <1>6, <2>1, <2>2 DEF JournalInv
  <1> DEFINE outs == [j \in journal |-> j.out]  outs2 == [j \in journal' |-> j.out]
             ins == [j \in journal |-> j.in]  ins2 == [j \in journal' |-> j.in]
  <1>9. /\ \A j \in journal : outs[j] \in Int /\ outs2[j] = outs[j] /\ ins[j] \in Int /\ ins2[j] = ins[j]
        /\ outs2[row] = swap[r].out /\ ins2[row] = swap[r].in
    BY <1>2, <1>6, <1>7
  <1> HIDE DEF outs, outs2, ins, ins2
  <1>10. Completed' = IF status = "completed" THEN Completed \cup {row} ELSE Completed
    BY <1>2, <1>6 DEF Completed
  <1>11. ASSUME NEW w \in Wallet
         PROVE  /\ BurnedFrom(w)' = BurnedFrom(w)
                     + IF status = "completed" /\ swap[r].from = w THEN swap[r].out ELSE 0
                /\ BurnedFrom(w) \in Int
    <2> DEFINE S == {j \in Completed : j.from = w}
               T == {j \in Completed' : j.from = w}
    <2>1. S \subseteq journal
      BY DEF Completed
    <2>2. IsFiniteSet(S)
      BY <1>3, <2>1, FS_Subset
    <2>3. T = IF status = "completed" /\ swap[r].from = w THEN S \cup {row} ELSE S
      BY <1>2, <1>10
    <2>4. BurnedFrom(w) = SumFunctionOnSet(outs, S) /\ BurnedFrom(w)' = SumFunctionOnSet(outs2, T)
      BY DEF BurnedFrom, outs, outs2
    <2> HIDE DEF S, T
    <2>5. /\ SumFunctionOnSet(outs2, S) = SumFunctionOnSet(outs, S)
          /\ SumFunctionOnSet(outs2, S \cup {row}) = SumFunctionOnSet(outs, S) + outs2[row]
          /\ SumFunctionOnSet(outs, S) \in Int
      <3>1. \A y \in S : outs[y] \in Int /\ outs2[y] = outs[y]
        BY <1>9, <2>1
      <3>2. outs2[row] \in Int /\ row \notin S
        BY <1>1, <1>4, <1>9, <2>1
      <3> QED
        BY <2>2, <3>1, <3>2, RowAdded
    <2> QED
      BY <1>9, <2>3, <2>4, <2>5
  <1>12. ASSUME NEW w \in Wallet
         PROVE  /\ MintedTo(w)' = MintedTo(w)
                     + IF status = "completed" /\ swap[r].to = w THEN swap[r].in ELSE 0
                /\ MintedTo(w) \in Int
    <2> DEFINE S == {j \in Completed : j.to = w}
               T == {j \in Completed' : j.to = w}
    <2>1. S \subseteq journal
      BY DEF Completed
    <2>2. IsFiniteSet(S)
      BY <1>3, <2>1, FS_Subset
    <2>3. T = IF status = "completed" /\ swap[r].to = w THEN S \cup {row} ELSE S
      BY <1>2, <1>10
    <2>4. MintedTo(w) = SumFunctionOnSet(ins, S) /\ MintedTo(w)' = SumFunctionOnSet(ins2, T)
      BY DEF MintedTo, ins, ins2
    <2> HIDE DEF S, T
    <2>5. /\ SumFunctionOnSet(ins2, S) = SumFunctionOnSet(ins, S)
          /\ SumFunctionOnSet(ins2, S \cup {row}) = SumFunctionOnSet(ins, S) + ins2[row]
          /\ SumFunctionOnSet(ins, S) \in Int
      <3>1. \A y \in S : ins[y] \in Int /\ ins2[y] = ins[y]
        BY <1>9, <2>1
      <3>2. ins2[row] \in Int /\ row \notin S
        BY <1>1, <1>4, <1>9, <2>1
      <3> QED
        BY <2>2, <3>1, <3>2, RowAdded
    <2> QED
      BY <1>9, <2>3, <2>4, <2>5
  <1> QED
    BY <1>8, <1>11, <1>12

\* What a swap leaves that ends or fails promises nothing.
LEMMA IdleRecord == Idle \in SwapRecord /\ SwapOK(Idle) /\ \A w \in Wallet : Due(Idle, w) = 0
  BY DEF Idle, SwapRecord, SwapOK, Due, Pending

LEMMA FailedRecord ==
    ASSUME MoneyInv, NEW r \in Req, swap[r].pc # "idle", NEW s, s = [swap[r] EXCEPT !.pc = "failed"]
    PROVE  s \in SwapRecord /\ SwapOK(s) /\ \A w \in Wallet : Due(s, w) = 0
  BY DEF MoneyInv, SwapRecord, SwapOK, Due, Pending

\* The swap that settles keeps its promise; the wallet it pays into only gains.
LEMMA CommitMoney ==
    ASSUME ExchangeConstants, MoneyInv, NEW r \in Req, Commit(r)
    PROVE  MoneyInv'
  <1> DEFINE s == swap[r]
  <1>1. /\ s \in SwapRecord /\ SwapOK(s) /\ s.pc = "commit"
        /\ s.from \in Wallet /\ s.to \in Wallet /\ s.from # s.to /\ s.out \in Nat /\ s.in \in Nat
    BY DEF Commit, MoneyInv, SwapOK, SwapRecord
  <1>2. /\ bal' = [bal EXCEPT ![s.from] = @ - s.out, ![s.to] = @ + s.in]
        /\ journal' = journal \cup {RowOf(s, "completed")}
        /\ UNCHANGED pair
    BY DEF Commit, Moved
  <1>10. PICK t \in {Idle, [swap[r] EXCEPT !.pc = "failed"]} : swap' = [swap EXCEPT ![r] = t]
    BY DEF Commit, Goto
  <1>11. t \in SwapRecord /\ SwapOK(t) /\ \A w \in Wallet : Due(t, w) = 0
    BY <1>1, <1>10, IdleRecord, FailedRecord
  <1>3. bal \in [Wallet -> Int]
    BY DEF MoneyInv
  <1>4. /\ bal' \in [Wallet -> Int]
        /\ \A w \in Wallet : bal'[w] = bal[w] - (IF w = s.from THEN s.out ELSE 0)
                                              + (IF w = s.to THEN s.in ELSE 0)
    BY <1>1, <1>2, <1>3
  <1>5. swap' \in [Req -> SwapRecord] /\ \A q \in Req : SwapOK(swap'[q])
    BY <1>10, <1>11 DEF MoneyInv
  <1>6. /\ JournalInv'
        /\ \A w \in Wallet :
             /\ BurnedFrom(w)' = BurnedFrom(w) + IF s.from = w THEN s.out ELSE 0
             /\ MintedTo(w)' = MintedTo(w) + IF s.to = w THEN s.in ELSE 0
             /\ BurnedFrom(w) \in Int /\ MintedTo(w) \in Int
    BY <1>2, RowWritten
  <1>7. SwapsExplainBalances'
    <2> SUFFICES ASSUME NEW w \in Wallet PROVE bal'[w] = InitBal[w] - BurnedFrom(w)' + MintedTo(w)'
      BY DEF SwapsExplainBalances
    <2>1. bal[w] = InitBal[w] - BurnedFrom(w) + MintedTo(w) /\ InitBal[w] \in Int
      BY DEF MoneyInv, SwapsExplainBalances, ExchangeConstants
    <2> HIDE DEF s
    <2> QED
      BY <1>1, <1>4, <1>6, <2>1
  <1>8. Covered'
    <2> SUFFICES ASSUME NEW w \in Wallet PROVE bal'[w] - Promised(w)' >= -Debt
      BY DEF Covered, Debt
    <2>1. Promised(w)' = Promised(w) - Due(s, w) + 0
      BY <1>10, <1>11, PromiseMoves
    <2>2. Due(s, w) = IF w = s.from THEN s.out ELSE 0
      BY <1>1 DEF Due, Pending
    <2>3. Promised(w) \in Nat /\ Debt \in Nat /\ bal[w] \in Int /\ bal[w] - Promised(w) >= -Debt
      BY PromisedType, DebtType DEF MoneyInv, Covered
    <2> HIDE DEF s
    <2> QED
      BY <1>1, <1>4, <2>1, <2>2, <2>3
  <1>9. pair' \in [Pair -> [rate : Rates \cup {Nil}, enabled : BOOLEAN]]
    BY <1>2 DEF MoneyInv
  <1> QED
    BY <1>4, <1>5, <1>6, <1>7, <1>8, <1>9 DEF MoneyInv, SwapOK

LEMMA FailedMoney ==
    ASSUME ExchangeConstants, MoneyInv, NEW r \in Req, WriteFailedRow(r)
    PROVE  MoneyInv'
  <1>1. /\ journal' = journal \cup {RowOf(swap[r], "failed")}
        /\ swap' = [swap EXCEPT ![r] = Idle] /\ UNCHANGED <<bal, pair>> /\ swap[r].pc = "failed"
    BY DEF WriteFailedRow
  <1>2. swap' \in [Req -> SwapRecord] /\ \A q \in Req : SwapOK(swap'[q])
    BY <1>1, IdleRecord DEF MoneyInv
  <1>3. JournalInv' /\ \A w \in Wallet : BurnedFrom(w)' = BurnedFrom(w) /\ MintedTo(w)' = MintedTo(w)
    <2> DEFINE status == "failed"
    <2>1. journal' = journal \cup {RowOf(swap[r], status)} /\ status # "completed"
      BY <1>1
    <2> HIDE DEF status
    <2>2. /\ JournalInv'
          /\ \A w \in Wallet :
               /\ BurnedFrom(w)' = BurnedFrom(w)
                    + IF status = "completed" /\ swap[r].from = w THEN swap[r].out ELSE 0
               /\ MintedTo(w)' = MintedTo(w)
                    + IF status = "completed" /\ swap[r].to = w THEN swap[r].in ELSE 0
               /\ BurnedFrom(w) \in Int /\ MintedTo(w) \in Int
      BY <2>1, RowWritten
    <2> QED
      BY <2>1, <2>2
  <1>4. SwapsExplainBalances'
    BY <1>1, <1>3 DEF MoneyInv, SwapsExplainBalances
  <1>5. Covered'
    <2> SUFFICES ASSUME NEW w \in Wallet PROVE bal[w] - Promised(w)' >= -Debt
      BY <1>1 DEF Covered, Debt
    <2>1. Promised(w)' = Promised(w) - Due(swap[r], w) + 0
      BY <1>1, IdleRecord, PromiseMoves
    <2>2. Due(swap[r], w) = 0
      BY <1>1 DEF Due, Pending
    <2>3. Promised(w) \in Nat /\ bal[w] - Promised(w) >= -Debt
      BY PromisedType DEF MoneyInv, Covered
    <2> QED
      BY <2>1, <2>2, <2>3
  <1>6. pair' \in [Pair -> [rate : Rates \cup {Nil}, enabled : BOOLEAN]] /\ bal' \in [Wallet -> Int]
    BY <1>1 DEF MoneyInv
  <1> QED
    BY <1>2, <1>3, <1>4, <1>5, <1>6 DEF MoneyInv, SwapOK

\* A process dies: what its swap promised is off.
LEMMA DeadMoney == ASSUME ExchangeConstants, MoneyInv, NEW r \in Req, SwapDies(r) PROVE MoneyInv'
  <1>1. swap' = [swap EXCEPT ![r] = Idle] /\ UNCHANGED <<bal, pair, journal>>
    BY DEF SwapDies
  <1>2. \A w \in Wallet : Due(Idle, w) <= Due(swap[r], w)
    BY IdleRecord, DueType, DebtType DEF MoneyInv
  <1> QED
    BY <1>1, <1>2, IdleRecord, SwapMoney

LEMMA ConvertedType ==
    ASSUME ExchangeConstants, NEW n \in Nat, NEW rate \in Rates
    PROVE  Converted(n, rate) \in Int
  <1> DEFINE a == 2 * n * rate[1] + rate[2]  b == 2 * rate[2]
  <1>1. rate[1] \in Nat /\ rate[2] \in Nat \ {0}
    BY DEF ExchangeConstants
  <1>2. a \in Int /\ b \in Nat \ {0}
    BY <1>1
  <1> HIDE DEF a, b
  <1>3. a \div b \in Int
    BY <1>2
  <1> QED
    BY <1>3 DEF Converted, a, b

LEMMA TransferMoney ==
    ASSUME ExchangeConstants, MoneyInv, NEW r \in Req, NEW from \in Wallet, NEW to \in Wallet,
           NEW amount \in Amounts, CrossStateTransfer(r, from, to, amount)
    PROVE  MoneyInv'
  <1> DEFINE p == PairOf(from, to)
             got == Converted(amount, pair[p].rate)
             s == [pc |-> "read", from |-> from, to |-> to, out |-> amount, in |-> got]
  <1>1. p \in Pair /\ pair[p].rate \in Rates /\ got > 0
    BY DEF CrossStateTransfer, Open, MoneyInv
  <1>2. amount \in Nat /\ got \in Nat
    <2>1. amount \in Nat
      BY DEF ExchangeConstants
    <2>2. got \in Int
      BY <1>1, <2>1, ConvertedType
    <2> HIDE DEF got
    <2> QED
      BY <1>1, <2>1, <2>2
  <1>3. from # to
    <2>1. p[1] # p[2]
      BY <1>1 DEF Pair
    <2> QED
      BY <2>1 DEF PairOf
  <1>4. swap' = [swap EXCEPT ![r] = s] /\ UNCHANGED <<bal, pair, journal>>
    BY DEF CrossStateTransfer
  <1>5. s \in SwapRecord
    <2> HIDE DEF got
    <2> QED
      BY <1>2 DEF SwapRecord
  <1>6. s.pc = "read" /\ s.from = from /\ s.to = to /\ s.out = amount
    OBVIOUS
  <1> HIDE DEF s
  <1>7. SwapOK(s)
    BY <1>3, <1>6 DEF SwapOK
  <1>8. \A w \in Wallet : Due(s, w) <= Due(swap[r], w)
    <2> TAKE w \in Wallet
    <2>1. Due(s, w) = 0
      BY <1>6 DEF Due, Pending
    <2>2. Due(swap[r], w) \in Nat
      BY DueType, DebtType DEF MoneyInv
    <2> QED
      BY <2>1, <2>2
  <1> QED
    BY <1>4, <1>5, <1>7, <1>8, SwapMoney

\* A swap goes on: the step that makes it promise has seen the money.
LEMMA PcMoney ==
    ASSUME ExchangeConstants, MoneyInv, NEW r \in Req, NEW pc \in {"failed"} \cup Pending,
           swap[r].pc # "idle", Goto(r, pc), UNCHANGED <<bal, pair, journal>>,
           pc = "failed" \/ swap[r].pc \in Pending \/ HasFunds(swap[r].from, swap[r].out)
    PROVE  MoneyInv'
  <1> DEFINE s == [swap[r] EXCEPT !.pc = pc]
  <1>1. swap[r] \in SwapRecord /\ SwapOK(swap[r])
    BY DEF MoneyInv
  <1>2. /\ s \in SwapRecord /\ s.pc = pc /\ s.from = swap[r].from /\ s.to = swap[r].to
        /\ s.out = swap[r].out
    BY <1>1 DEF SwapRecord
  <1>3. swap' = [swap EXCEPT ![r] = s] /\ UNCHANGED <<bal, pair, journal>>
    BY DEF Goto
  <1> HIDE DEF s
  <1>4. SwapOK(s)
    BY <1>1, <1>2 DEF SwapOK
  <1>5. \A w \in Wallet : Due(s, w) <= Due(swap[r], w) \/ Due(s, w) <= bal[w]
    <2> TAKE w \in Wallet
    <2>1. Due(s, w) \in Nat /\ Due(swap[r], w) \in Nat /\ swap[r].out \in Nat /\ bal[w] \in Int
      BY <1>1, <1>2, <1>4, DueType, DebtType DEF MoneyInv, SwapRecord
    <2>2. CASE pc = "failed" \/ swap[r].from # w
      BY <1>2, <2>1, <2>2 DEF Due, Pending
    <2>3. CASE pc \in Pending /\ swap[r].from = w /\ swap[r].pc \in Pending
      BY <1>2, <2>1, <2>3 DEF Due
    <2>4. CASE swap[r].from = w /\ HasFunds(swap[r].from, swap[r].out)
      BY <1>2, <2>1, <2>4 DEF Due, HasFunds
    <2> QED
      BY <2>2, <2>3, <2>4
  <1> QED
    BY <1>2, <1>3, <1>4, <1>5, SwapMoney

LEMMA MoneyStep ==
    ASSUME ExchangeConstants, MoneyInv, NEW r \in Req, Step(r)
    PROVE  MoneyInv'
  <1>1. CASE ReadSource(r)
    <2> DEFINE pc == IF HasFunds(swap[r].from, swap[r].out) THEN "debit" ELSE "failed"
    <2>1. pc \in {"failed"} \cup Pending /\ (pc = "failed" \/ HasFunds(swap[r].from, swap[r].out))
      BY DEF Pending
    <2>2. swap[r].pc # "idle" /\ Goto(r, pc) /\ UNCHANGED <<bal, pair, journal>>
      BY <1>1 DEF ReadSource
    <2> HIDE DEF pc
    <2> QED
      BY <2>1, <2>2, PcMoney
  <1>2. CASE Debit(r)
    BY <1>2, PcMoney DEF Debit, Pending
  <1>3. CASE Credit(r)
    BY <1>3, PcMoney DEF Credit, Pending
  <1>4. CASE Abort(r)
    <2>1. swap[r].pc # "idle"
      BY <1>4 DEF Abort, Deadlocked, WaitsFor, ExchangeConstants
    <2> QED
      BY <1>4, <2>1, PcMoney DEF Abort
  <1> QED
    BY <1>1, <1>2, <1>3, <1>4, CommitMoney, FailedMoney, DeadMoney DEF Step

LEMMA MoneyNext ==
    ASSUME ExchangeConstants, MoneyInv, [ExchangeNext]_exchangeVars
    PROVE  MoneyInv'
  <1>1. CASE UNCHANGED exchangeVars
    BY <1>1, PairMoney DEF exchangeVars, MoneyInv
  <1>2. ASSUME NEW r \in Req, Step(r) PROVE MoneyInv'
    BY <1>2, MoneyStep
  <1>3. ASSUME NEW r \in Req, NEW from \in Wallet, NEW to \in Wallet, NEW amount \in Amounts,
               CrossStateTransfer(r, from, to, amount)
        PROVE  MoneyInv'
    BY <1>3, TransferMoney
  <1>4. ASSUME NEW p \in Pair, NEW rate \in Rates, NEW e \in BOOLEAN, UpsertPair(p, rate, e)
        PROVE  MoneyInv'
    <2>1. pair' \in [Pair -> [rate : Rates \cup {Nil}, enabled : BOOLEAN]]
      BY <1>4 DEF UpsertPair, MoneyInv
    <2> QED
      BY <1>4, <2>1, PairMoney DEF UpsertPair
  <1>5. ASSUME NEW p \in Pair, NEW e \in BOOLEAN, SetPairEnabled(p, e) PROVE MoneyInv'
    <2>1. pair' \in [Pair -> [rate : Rates \cup {Nil}, enabled : BOOLEAN]]
      BY <1>5 DEF SetPairEnabled, MoneyInv
    <2> QED
      BY <1>5, <2>1, PairMoney DEF SetPairEnabled
  <1>6. ASSUME NEW p \in Pair, DeletePair(p) PROVE MoneyInv'
    <2>1. pair' \in [Pair -> [rate : Rates \cup {Nil}, enabled : BOOLEAN]]
      BY <1>6 DEF DeletePair, MoneyInv
    <2> QED
      BY <1>6, <2>1, PairMoney DEF DeletePair
  <1> QED
    BY <1>1, <1>2, <1>3, <1>4, <1>5, <1>6 DEF ExchangeNext

\* executeCrossStateTransfer: a completed row stands for exactly one burn and
\* one mint, and nothing else moves money, however swaps, aborts, lost answers and
\* deaths interleave.
THEOREM SwapsConserve == ASSUME ExchangeConstants PROVE ExchangeSpec => []SwapsExplainBalances
  <1>1. MoneyInv => SwapsExplainBalances
    BY DEF MoneyInv
  <1> QED
    BY <1>1, MoneyInit, MoneyNext, PTL DEF ExchangeSpec

\* The balance is not looked at again after the row lock: that costs at most one
\* amount for each other swap in flight, for any number of them.
THEOREM OverdraftsBounded == ASSUME ExchangeConstants PROVE ExchangeSpec => []OverdraftBounded
  <1>1. ASSUME MoneyInv PROVE OverdraftBounded
    <2> SUFFICES ASSUME NEW w \in Wallet PROVE bal[w] >= -Debt
      <3>1. -(Cardinality(Req) - 1) * MaxAmount = -Debt
        BY DebtType DEF Debt
      <3> QED
        BY <3>1 DEF OverdraftBounded
    <2>1. Promised(w) \in Nat /\ Debt \in Nat /\ bal[w] \in Int /\ bal[w] - Promised(w) >= -Debt
      BY <1>1, PromisedType, DebtType DEF MoneyInv, Covered
    <2> QED
      BY <2>1
  <1> QED
    BY <1>1, MoneyInit, MoneyNext, PTL DEF ExchangeSpec

-----------------------------------------------------------------------------
(* The currency factory and the wallet directory: every primary beyond one    *)
(* and every wallet beyond one was paid for by a request of its own.          *)

AssetRow(a) == a = [cfg |-> a.cfg, primary |-> a.primary, n |-> a.n] /\ a.primary \in BOOLEAN
Attempt(q) == q = [pc |-> q.pc, sym |-> q.sym, who |-> q.who, primary |-> q.primary,
                   next |-> q.next, set |-> q.set]

WithSym(q, pc, sym) == [pc |-> pc, sym |-> sym, who |-> q.who, primary |-> q.primary,
                        next |-> q.next, set |-> q.set]
WithSet(q, pc, set) == [pc |-> pc, sym |-> q.sym, who |-> q.who, primary |-> q.primary,
                        next |-> q.next, set |-> set]

\* As much of the types as the argument needs.
AssetShape ==
    /\ asset = [s \in Symbol |-> asset[s]] /\ \A s \in Symbol : Exists(s) => AssetRow(asset[s])
    /\ owner = [s \in Symbol |-> owner[s]]
HandlerShape ==
    /\ handler = [h \in Handler |-> handler[h]]
    /\ \A h \in Handler : Attempt(handler[h])

\* Between the two statements of setPrimaryAsset the rows it cleared stay locked.
LocksHeld == \A h \in Handler : handler[h].pc = "set" =>
    \A s \in handler[h].set : s \in Symbol /\ Exists(s) /\ owner[s] = h

\* What request h would leave primary next to the asset it is about to promote:
\* the primaries that its look at the table did not see.
Spares(h, s) ==
    \/ handler[h].pc \in {"lock", "set", "sink"} /\ s \notin handler[h].set /\ s # Sym(h)
    \/ handler[h].pc = "promote" /\ s # Sym(h)
    \/ handler[h].pc = "seed"

\* Each primary is attributed to a request of its own, and none to a request that
\* would spare it: that request has still to pay for the primary it will add.
Attribution(f) ==
    /\ \A s, t \in Primaries : f[s] = f[t] => s = t
    /\ \A h \in Handler, s \in Primaries : Spares(h, s) => f[s] # h
PrimariesAttributed == \E f \in [Primaries -> Handler] : Attribution(f)

WalletsOf(x) == {w \in wallet : w[1] = x}
OpeningFor(x) == {h \in Handler : handler[h].who = x}

\* A request opens one wallet and found none when it began: the wallets of a
\* holder and the requests still opening one are never more than the requests.
WalletsBounded == \A x \in Holder :
    /\ IsFiniteSet(WalletsOf(x))
    /\ Cardinality(WalletsOf(x)) + Cardinality(OpeningFor(x)) <= Cardinality(Handler)
TreasuryOnce == \A v, w \in wallet : v[1] = w[1] /\ v[1] \in Root => v = w

FactoryInv ==
    /\ AssetShape /\ HandlerShape /\ LocksHeld
    /\ PrimariesAttributed /\ WalletsBounded /\ TreasuryOnce

\* A step of one request, and what it can do to each part of the invariant.
FactoryAction(h) ==
    \/ FactoryStep(h)
    \/ \E s \in Symbol, d \in Drafts, p \in BOOLEAN : CreateStart(h, s, d, p)
    \/ \E s \in Symbol : SetPrimaryStart(h, s) \/ RetireStart(h, s)
    \/ \E s \in Symbol, p \in Patches : UpdateStart(h, s, p)
    \/ EnsureDefaultAsset(h)
    \/ \E x \in Holder : EnsureWallet(h, x)
HandlersMove(h) ==
    /\ HandlerShape' /\ \A g \in Handler \ {h} : handler'[g] = handler[g]
    /\ handler'[h].pc = "set" => LockCleared(h)
RowsKept(h) ==
    /\ AssetShape'
    /\ \A s \in Symbol :
         owner[s] \in Handler \ {h} /\ Exists(s) => owner'[s] = owner[s] /\ Exists(s)'
NoNew ==
    /\ Primaries' \subseteq Primaries
    /\ \A h \in Handler, s \in Primaries' : Spares(h, s)' => Spares(h, s)
OneNew(h, a) ==
    /\ \A s \in Primaries' : s # a => s \in Primaries /\ Spares(h, s)
    /\ \A g \in Handler, s \in Primaries' : Spares(g, s)' => g # h /\ (s # a => Spares(g, s))
FlagsMove(h) == NoNew \/ \E a \in Symbol : OneNew(h, a)
WalletsMove(h) ==
    \/ wallet' = wallet /\ handler'[h].who \in {handler[h].who, Absent}
    \/ wallet' = wallet /\ \E x \in Holder : handler'[h].who = x /\ WalletsOf(x) = {}
    \/ LET x == handler[h].who IN
       /\ handler'[h].who = Absent /\ (x \in Root => WalletsOf(x) = {})
       /\ \E s : wallet' = wallet \cup {<<x, s>>}

-----------------------------------------------------------------------------
\* An attempt with two of its locals set.
LEMMA SymEdited ==
    ASSUME NEW q, Attempt(q), NEW pc, NEW v
    PROVE  [q EXCEPT !.pc = pc, !.sym = v] = WithSym(q, pc, v)
  <1>1. PICK k : k = [q EXCEPT !.pc = pc, !.sym = v]
    OBVIOUS
  <1>2. k = WithSym(q, pc, v)
    BY <1>1 DEF Attempt, WithSym
  <1> QED
    BY <1>1, <1>2

LEMMA SetEdited ==
    ASSUME NEW q, Attempt(q), NEW pc, NEW v
    PROVE  [q EXCEPT !.pc = pc, !.set = v] = WithSet(q, pc, v)
  <1>1. PICK k : k = [q EXCEPT !.pc = pc, !.set = v]
    OBVIOUS
  <1>2. k = WithSet(q, pc, v)
    BY <1>1 DEF Attempt, WithSet
  <1> QED
    BY <1>1, <1>2

\* What Enter does to the attempts.
LEMMA Entered ==
    ASSUME HandlerShape, NEW h \in Handler, NEW rec, Attempt(rec), Enter(h, rec)
    PROVE  HandlerShape' /\ handler'[h] = rec /\ \A g \in Handler \ {h} : handler'[g] = handler[g]
  <1>1. handler' = [g \in Handler |-> IF g = h THEN rec ELSE handler[g]]
    BY DEF Enter, HandlerShape
  <1>2. \A g \in Handler : handler'[g] = IF g = h THEN rec ELSE handler[g]
    BY <1>1
  <1>3. \A g \in Handler : Attempt(handler'[g])
    BY <1>2 DEF HandlerShape
  <1>4. HandlerShape'
    BY <1>1, <1>3 DEF HandlerShape, Attempt
  <1> QED
    BY <1>2, <1>4

LEMMA NewRow == ASSUME NEW c, NEW b \in BOOLEAN, NEW k PROVE AssetRow([cfg |-> c, primary |-> b, n |-> k])
  BY DEF AssetRow

\* An asset row stays one when its configuration or its flag is written.
LEMMA EditedRow ==
    ASSUME NEW a, AssetRow(a)
    PROVE  /\ \A c : AssetRow([a EXCEPT !.cfg = c]) /\ [a EXCEPT !.cfg = c].primary = a.primary
           /\ \A b \in BOOLEAN : AssetRow([a EXCEPT !.primary = b]) /\ [a EXCEPT !.primary = b].primary = b
  BY DEF AssetRow

\* A statement that waits for a row finds it locked by no other transaction.
LEMMA LockedByNone ==
    ASSUME FactoryAssumption, NEW h \in Handler, NEW s
    PROVE  Unlocked(s, h) => owner[s] \notin Handler \ {h}
  BY DEF Unlocked, FactoryAssumption

\* A statement that changes only rows that no other transaction has locked.
LEMMA FreeRows ==
    ASSUME AssetShape, NEW h \in Handler, owner' = [s \in Symbol |-> owner'[s]],
           asset' = [s \in Symbol |-> asset'[s]],
           \A s \in Symbol : owner[s] \in Handler \ {h} => owner'[s] = owner[s],
           \A s \in Symbol : \/ asset'[s] = asset[s]
                             \/ /\ ~Exists(s) \/ owner[s] \notin Handler \ {h}
                                /\ asset'[s] = Absent \/ AssetRow(asset'[s])
    PROVE  RowsKept(h)
  <1>1. \A s \in Symbol : asset'[s] # Absent => AssetRow(asset'[s])
    BY DEF AssetShape, Exists
  <1>2. AssetShape'
    BY <1>1 DEF AssetShape, Exists, AssetRow
  <1> QED
    BY <1>2 DEF RowsKept, Exists

\* One request moves at a time, and only LockCleared enters the second statement.
LEMMA HandlersMoveStep ==
    ASSUME HandlerShape, NEW h \in Handler, FactoryAction(h)
    PROVE  HandlersMove(h)
  <1>1. CASE CreateInsert(h)
    <2>1. Done(h) \/ Advance(h, "elevate")
      BY <1>1 DEF CreateInsert
    <2> QED
      BY <2>1 DEF HandlersMove, HandlerShape, Attempt, AtRest, Enter, Done, Advance
  <1>2. CASE CreateElevate(h)
    BY <1>2 DEF CreateElevate, HandlersMove, HandlerShape, Attempt, Done, Enter, AtRest, Advance
  <1>3. CASE Clear(h)
    <2>1. \E set : handler' = [handler EXCEPT ![h] = [handler[h] EXCEPT !.pc = "lock", !.set = set]]
      BY <1>3 DEF Clear, Enter
    <2> QED
      BY <2>1 DEF HandlersMove, HandlerShape, Attempt
  <1>4. CASE LockCleared(h)
    BY <1>4 DEF LockCleared, HandlersMove, HandlerShape, Attempt, Enter
  <1>5. CASE SetCommit(h)
    BY <1>5 DEF SetCommit, HandlersMove, HandlerShape, Attempt, Done, Enter, AtRest
  <1>6. CASE AbortSwitch(h)
    BY <1>6 DEF AbortSwitch, HandlersMove, HandlerShape, Attempt, Done, Enter, AtRest
  <1>7. CASE UpdateWrite(h)
    BY <1>7 DEF UpdateWrite, HandlersMove, HandlerShape, Attempt, Done, Enter, AtRest
  <1>8. CASE RetireDelete(h)
    BY <1>8 DEF RetireDelete, HandlersMove, HandlerShape, Attempt, Done, Enter, AtRest
  <1>9. CASE ResolveAsset(h)
    BY <1>9 DEF ResolveAsset, HandlersMove, HandlerShape, Attempt, Enter, Advance
  <1>20. CASE FindOldest(h)
    BY <1>20 DEF FindOldest, HandlersMove, HandlerShape, Attempt, Enter, Advance
  <1>21. CASE SeePrimaries(h)
    <2> DEFINE q == handler[h]
               k == [q EXCEPT !.pc = "sink", !.set = Primaries]
    <2>1. Attempt(q)
      BY DEF HandlerShape
    <2>2. k = WithSet(q, "sink", Primaries)
      BY <2>1, SetEdited
    <2>3. Attempt(k) /\ k.pc = "sink" /\ k.who = handler[h].who
      BY <2>2 DEF Attempt, WithSym, WithSet
    <2>4. Enter(h, k) /\ wallet' = wallet
      BY <1>21 DEF SeePrimaries
    <2> HIDE DEF k, q
    <2> QED
      BY <2>3, <2>4, Entered DEF HandlersMove
  <1>10. CASE Demote(h)
    <2> DEFINE q == handler[h]
               k == [q EXCEPT !.pc = "promote", !.set = {}]
    <2>1. Attempt(q)
      BY DEF HandlerShape
    <2>2. k = WithSet(q, "promote", {})
      BY <2>1, SetEdited
    <2>3. Attempt(k) /\ k.pc = "promote" /\ k.who = handler[h].who
      BY <2>2 DEF Attempt, WithSym, WithSet
    <2>4. Enter(h, k) /\ wallet' = wallet
      BY <1>10 DEF Demote
    <2> HIDE DEF k, q
    <2> QED
      BY <2>3, <2>4, Entered DEF HandlersMove
  <1>11. CASE PromoteOldest(h)
    BY <1>11 DEF PromoteOldest, HandlersMove, HandlerShape, Attempt, Done, Enter, AtRest, Advance
  <1>12. CASE Seed(h)
    <2>1. CASE Done(h)
      BY <2>1 DEF HandlersMove, HandlerShape, Attempt, AtRest, Enter, Done
    <2>2. CASE Enter(h, [handler[h] EXCEPT !.pc = "open", !.sym = Default])
      <3> DEFINE k == [handler[h] EXCEPT !.pc = "open", !.sym = Default]
      <3>1. Attempt(handler[h])
        BY DEF HandlerShape
      <3>2. k = WithSym(handler[h], "open", Default)
        BY <3>1, SymEdited
      <3>3. Attempt(k) /\ k.pc = "open"
        BY <3>2 DEF Attempt, WithSym, WithSet
      <3>4. Enter(h, k)
        BY <2>2
      <3> HIDE DEF k
      <3> QED
        BY <3>3, <3>4, Entered DEF HandlersMove
    <2> QED
      BY <1>12, <2>1, <2>2 DEF Seed
  <1>13. CASE OpenWallet(h)
    BY <1>13 DEF OpenWallet, HandlersMove, HandlerShape, Attempt, Done, Enter, AtRest
  <1>14. ASSUME NEW s \in Symbol, NEW d \in Drafts, NEW p \in BOOLEAN, CreateStart(h, s, d, p)
         PROVE  HandlersMove(h)
    BY <1>14 DEF CreateStart, HandlersMove, HandlerShape, Attempt, Enter, AtRest
  <1>15. ASSUME NEW s \in Symbol, SetPrimaryStart(h, s) PROVE HandlersMove(h)
    BY <1>15 DEF SetPrimaryStart, HandlersMove, HandlerShape, Attempt, Enter, AtRest
  <1>16. ASSUME NEW s \in Symbol, RetireStart(h, s) PROVE HandlersMove(h)
    BY <1>16 DEF RetireStart, HandlersMove, HandlerShape, Attempt, Enter, AtRest
  <1>17. ASSUME NEW s \in Symbol, NEW q \in Patches, UpdateStart(h, s, q) PROVE HandlersMove(h)
    BY <1>17 DEF UpdateStart, HandlersMove, HandlerShape, Attempt, Enter, AtRest
  <1>18. CASE EnsureDefaultAsset(h)
    <2>1. CASE Enter(h, [AtRest EXCEPT !.pc = "seed"])
      BY <2>1 DEF HandlersMove, HandlerShape, Attempt, AtRest, Enter
    <2>2. CASE Enter(h, [AtRest EXCEPT !.pc = "clear", !.sym = Oldest])
      BY <2>2 DEF HandlersMove, HandlerShape, Attempt, AtRest, Enter
    <2> QED
      BY <1>18, <2>1, <2>2 DEF EnsureDefaultAsset
  <1>19. ASSUME NEW x \in Holder, EnsureWallet(h, x) PROVE HandlersMove(h)
    BY <1>19 DEF EnsureWallet, HandlersMove, HandlerShape, Attempt, Enter, AtRest
  <1> QED
    BY <1>1, <1>2, <1>3, <1>4, <1>5, <1>6, <1>7, <1>8, <1>9, <1>10, <1>11, <1>12, <1>13, <1>14,
       <1>15, <1>16, <1>17, <1>18, <1>19, <1>20, <1>21 DEF FactoryAction, FactoryStep

\* No step touches a row another request has locked.
LEMMA RowsKeptStep ==
    ASSUME FactoryAssumption, AssetShape, HandlerShape, LocksHeld,
           NEW h \in Handler, FactoryAction(h)
    PROVE  RowsKept(h)
  <1>1. CASE CreateInsert(h)
    <2> DEFINE row == [cfg |-> handler[h].next, primary |-> FALSE, n |-> Cardinality(Assets)]
    <2>1. AssetRow(row)
      BY NewRow
    <2>2. UNCHANGED owner /\ (asset' = asset \/ ~Exists(Sym(h)))
          /\ (asset' = asset \/ asset' = [asset EXCEPT ![Sym(h)] = row])
      BY <1>1 DEF CreateInsert, InsertAsset
    <2> HIDE DEF row
    <2> QED
      BY <2>1, <2>2, FreeRows DEF AssetShape
  <1>2. CASE CreateElevate(h)
    BY <1>2 DEF CreateElevate, RowsKept, AssetShape, Exists
  <1>3. CASE Clear(h)
    BY <1>3 DEF Clear, RowsKept, AssetShape, Exists
  <1>4. CASE LockCleared(h)
    <2> DEFINE still == handler[h].set \cap Primaries
    <2>1. \A s \in still : owner[s] \notin Handler \ {h}
      BY <1>4, LockedByNone DEF LockCleared
    <2>2. owner' = [s \in Symbol |-> IF s \in still THEN h ELSE owner[s]] /\ asset' = asset
      BY <1>4 DEF LockCleared
    <2> HIDE DEF still
    <2> QED
      BY <2>1, <2>2, FreeRows DEF AssetShape
  <1>5. CASE SetCommit(h)
    <2> DEFINE a == Sym(h)
               down(s) == [asset[s] EXCEPT !.primary = FALSE]
               up(s) == [asset[s] EXCEPT !.primary = TRUE]
               set == handler[h].set
    <2>1. owner[a] \notin Handler \ {h} /\ \A s \in set : s \in Symbol /\ Exists(s) /\ owner[s] = h
      BY <1>5, LockedByNone DEF SetCommit, At, LocksHeld
    <2>2. \A s \in Symbol : Exists(s) => AssetRow(down(s)) /\ AssetRow(up(s))
      BY EditedRow DEF AssetShape
    <2>3. owner' = [s \in Symbol |-> IF owner[s] = h THEN Absent ELSE owner[s]]
      BY <1>5 DEF SetCommit, Unlock
    <2>4. asset' = IF ~Exists(a) THEN asset
                   ELSE [s \in Symbol |-> IF s = a THEN up(s) ELSE IF s \in set THEN down(s) ELSE asset[s]]
      BY <1>5 DEF SetCommit
    <2> HIDE DEF a, down, up, set
    <2> QED
      BY <2>1, <2>2, <2>3, <2>4, FreeRows DEF AssetShape
  <1>6. CASE AbortSwitch(h)
    BY <1>6, FactoryAssumption DEF AbortSwitch, RowsKept, AssetShape, AssetRow, Exists, Unlock
  <1>7. CASE UpdateWrite(h)
    <2> DEFINE a == Sym(h)
               row == [asset[a] EXCEPT !.cfg = handler[h].next]
    <2>1. owner[a] \notin Handler \ {h} /\ UNCHANGED owner
      BY <1>7, LockedByNone DEF UpdateWrite
    <2>2. a \in Symbol /\ Exists(a) => AssetRow(row)
      BY EditedRow DEF AssetShape
    <2>3. asset' = IF Exists(a) THEN [asset EXCEPT ![a] = row] ELSE asset
      BY <1>7 DEF UpdateWrite
    <2> HIDE DEF a, row
    <2> QED
      BY <2>1, <2>2, <2>3, FreeRows DEF AssetShape
  <1>8. CASE RetireDelete(h)
    <2>1. owner[Sym(h)] \notin Handler \ {h} /\ UNCHANGED owner
      BY <1>8, LockedByNone DEF RetireDelete
    <2>2. asset' = asset \/ asset' = [asset EXCEPT ![Sym(h)] = Absent]
      BY <1>8 DEF RetireDelete
    <2> QED
      BY <2>1, <2>2, FreeRows DEF AssetShape
  <1>9. CASE ResolveAsset(h)
    BY <1>9 DEF ResolveAsset, RowsKept, AssetShape, Exists
  <1>20. CASE FindOldest(h)
    BY <1>20 DEF FindOldest, RowsKept, AssetShape, Exists
  <1>21. CASE SeePrimaries(h)
    BY <1>21 DEF SeePrimaries, RowsKept, AssetShape, Exists
  <1>10. CASE Demote(h)
    <2> DEFINE down(s) == [asset[s] EXCEPT !.primary = FALSE]
               still == handler[h].set \cap Primaries
    <2>1. (\A s \in still : owner[s] \notin Handler \ {h}) /\ UNCHANGED owner
      BY <1>10, LockedByNone DEF Demote
    <2>2. \A s \in still : AssetRow(down(s))
      BY EditedRow DEF AssetShape, Primaries, Assets
    <2>3. asset' = [s \in Symbol |-> IF s \in still THEN down(s) ELSE asset[s]]
      BY <1>10 DEF Demote
    <2> HIDE DEF down, still
    <2> QED
      BY <2>1, <2>2, <2>3, FreeRows DEF AssetShape
  <1>11. CASE PromoteOldest(h)
    <2> DEFINE a == Sym(h)
               row == [asset[a] EXCEPT !.primary = TRUE]
    <2>1. owner[a] \notin Handler \ {h} /\ UNCHANGED owner
      BY <1>11, LockedByNone DEF PromoteOldest
    <2>2. a \in Symbol /\ Exists(a) => AssetRow(row)
      BY EditedRow DEF AssetShape
    <2>3. asset' = IF Exists(a) THEN [asset EXCEPT ![a] = row] ELSE asset
      BY <1>11 DEF PromoteOldest
    <2> HIDE DEF a, row
    <2> QED
      BY <2>1, <2>2, <2>3, FreeRows DEF AssetShape
  <1>12. CASE Seed(h)
    <2> DEFINE row == [cfg |-> Krona, primary |-> TRUE, n |-> Cardinality(Assets)]
    <2>1. AssetRow(row)
      BY NewRow
    <2>2. UNCHANGED owner /\ (asset' = asset \/ ~Exists(Default))
          /\ (asset' = asset \/ asset' = [asset EXCEPT ![Default] = row])
      BY <1>12 DEF Seed, InsertAsset
    <2> HIDE DEF row
    <2> QED
      BY <2>1, <2>2, FreeRows DEF AssetShape
  <1>13. CASE OpenWallet(h)
    BY <1>13 DEF OpenWallet, RowsKept, AssetShape, Exists
  <1>14. ASSUME NEW s \in Symbol, NEW d \in Drafts, NEW p \in BOOLEAN, CreateStart(h, s, d, p)
         PROVE  RowsKept(h)
    BY <1>14 DEF CreateStart, RowsKept, AssetShape, Exists
  <1>15. ASSUME NEW s \in Symbol, SetPrimaryStart(h, s) PROVE RowsKept(h)
    BY <1>15 DEF SetPrimaryStart, RowsKept, AssetShape, Exists
  <1>16. ASSUME NEW s \in Symbol, RetireStart(h, s) PROVE RowsKept(h)
    BY <1>16 DEF RetireStart, RowsKept, AssetShape, Exists
  <1>17. ASSUME NEW s \in Symbol, NEW q \in Patches, UpdateStart(h, s, q) PROVE RowsKept(h)
    BY <1>17 DEF UpdateStart, RowsKept, AssetShape, Exists
  <1>18. CASE EnsureDefaultAsset(h)
    BY <1>18 DEF EnsureDefaultAsset, RowsKept, AssetShape, Exists
  <1>19. ASSUME NEW x \in Holder, EnsureWallet(h, x) PROVE RowsKept(h)
    BY <1>19 DEF EnsureWallet, RowsKept, AssetShape, Exists
  <1> QED
    BY <1>1, <1>2, <1>3, <1>4, <1>5, <1>6, <1>7, <1>8, <1>9, <1>10, <1>11, <1>12, <1>13, <1>14,
       <1>15, <1>16, <1>17, <1>18, <1>19, <1>20, <1>21 DEF FactoryAction, FactoryStep

\* A request that has nothing left to promote, and no new primary.
LEMMA NothingNew ==
    ASSUME NEW h \in Handler, \A g \in Handler \ {h} : handler'[g] = handler[g],
           Primaries' \subseteq Primaries, handler'[h].pc \notin {"lock", "set", "sink", "promote", "seed"}
    PROVE  FlagsMove(h)
  <1>1. \A g \in Handler, s \in Primaries' : Spares(g, s)' => Spares(g, s)
    BY DEF Spares, Sym
  <1> QED
    BY <1>1 DEF FlagsMove, NoNew

\* A step adds at most one primary, and then spared every other there was.
LEMMA FlagsMoveStep ==
    ASSUME FactoryAssumption, AssetShape, HandlerShape, LocksHeld,
           NEW h \in Handler, FactoryAction(h)
    PROVE  FlagsMove(h)
  <1>1. CASE CreateInsert(h)
    <2>1. /\ \A g \in Handler \ {h} : handler'[g] = handler[g]
          /\ handler'[h].pc \in {"idle", "elevate"}
      <3>1. Done(h) \/ Advance(h, "elevate")
        BY <1>1 DEF CreateInsert
      <3> QED
        BY <3>1 DEF Done, Advance, Enter, AtRest, HandlerShape, Attempt
    <2>2. CASE asset' = asset
      BY <2>1, <2>2, NothingNew DEF Primaries, Assets, Exists
    <2>3. CASE InsertAsset(Sym(h), handler[h].next, FALSE)
      <3>1. \A s \in Symbol : asset'[s] = asset[s] \/ asset'[s].primary = FALSE
        BY <2>3 DEF InsertAsset, AssetShape
      <3> QED
        BY <2>1, <3>1, NothingNew DEF Primaries, Assets, Exists
    <2> QED
      BY <1>1, <2>2, <2>3 DEF CreateInsert
  <1>2. CASE CreateElevate(h)
    <2>1. /\ \A g \in Handler \ {h} : handler'[g] = handler[g]
          /\ handler'[h].pc \in {"idle", "clear"} /\ asset' = asset
      BY <1>2 DEF CreateElevate, Done, Advance, Enter, AtRest, HandlerShape, Attempt
    <2> QED
      BY <2>1, NothingNew DEF Primaries, Assets, Exists
  <1>3. CASE Clear(h)
    BY <1>3, FactoryAssumption DEF Clear, FlagsMove, NoNew, OneNew, Primaries, Assets, Spares, Sym,
       AssetShape, HandlerShape, AssetRow, Attempt, Exists, AtRest, Enter, Done, Advance, At, Accept
  <1>4. CASE LockCleared(h)
    BY <1>4, FactoryAssumption DEF LockCleared, FlagsMove, NoNew, OneNew, Primaries, Assets, Spares,
       Sym, AssetShape, HandlerShape, AssetRow, Attempt, Exists, AtRest, Enter, Done, Advance, At,
       Accept
  <1>5. CASE SetCommit(h)
    <2> DEFINE a == Sym(h)
               switched == [s \in Symbol |-> IF s = a THEN [asset[a] EXCEPT !.primary = TRUE]
                             ELSE IF s \in handler[h].set THEN [asset[s] EXCEPT !.primary = FALSE]
                             ELSE asset[s]]
    <2>1. /\ \A g \in Handler \ {h} : handler'[g] = handler[g]
          /\ handler[h].pc = "set" /\ handler'[h].pc = "idle"
      BY <1>5 DEF SetCommit, At, Done, Enter, AtRest, HandlerShape
    <2>2. CASE asset' = asset
      BY <2>1, <2>2, NothingNew DEF Primaries, Assets, Exists
    <2>3. CASE asset' = switched
      <3>1. \A s \in handler[h].set : s \in Symbol /\ Exists(s)
        BY <2>1 DEF LocksHeld
      <3>2. \A s \in Symbol \cap handler[h].set : s # a => asset'[s].primary = FALSE
        BY <2>3, <3>1, EditedRow DEF AssetShape
      <3>3. \A s \in Symbol \ handler[h].set : s # a => asset'[s] = asset[s]
        BY <2>3
      <3>4. \A s \in Primaries' : s # a => s \in Primaries /\ s \notin handler[h].set
        BY <3>2, <3>3 DEF Primaries, Assets, Exists
      <3>5. CASE a \in Symbol
        <4>1. OneNew(h, a)
          BY <2>1, <3>4 DEF OneNew, Spares, Sym
        <4> QED
          BY <3>5, <4>1 DEF FlagsMove
      <3>6. CASE a \notin Symbol
        <4>1. Primaries' \subseteq Primaries
          BY <3>4, <3>6 DEF Primaries, Assets
        <4> QED
          BY <2>1, <4>1, NothingNew
      <3> QED
        BY <3>5, <3>6
    <2> QED
      BY <1>5, <2>2, <2>3 DEF SetCommit
  <1>6. CASE AbortSwitch(h)
    <2>1. /\ \A g \in Handler \ {h} : handler'[g] = handler[g]
          /\ handler'[h].pc = "idle" /\ asset' = asset
      BY <1>6 DEF AbortSwitch, Done, Enter, AtRest, HandlerShape
    <2> QED
      BY <2>1, NothingNew DEF Primaries, Assets, Exists
  <1>7. CASE UpdateWrite(h)
    <2>1. /\ \A g \in Handler \ {h} : handler'[g] = handler[g]
          /\ handler'[h].pc = "idle"
      BY <1>7 DEF UpdateWrite, Done, Enter, AtRest, HandlerShape
    <2>2. CASE asset' = asset
      BY <2>1, <2>2, NothingNew DEF Primaries, Assets, Exists
    <2>3. CASE Exists(Sym(h)) /\ asset' = [asset EXCEPT ![Sym(h)].cfg = handler[h].next]
      <3>1. \A s \in Symbol : asset'[s] = asset[s] \/ (Exists(s) /\ asset'[s].primary = asset[s].primary)
        BY <2>3, EditedRow DEF AssetShape
      <3> QED
        BY <2>1, <3>1, NothingNew DEF Primaries, Assets, Exists
    <2> QED
      BY <1>7, <2>2, <2>3 DEF UpdateWrite
  <1>8. CASE RetireDelete(h)
    <2>1. /\ \A g \in Handler \ {h} : handler'[g] = handler[g]
          /\ handler'[h].pc = "idle"
      BY <1>8 DEF RetireDelete, Done, Enter, AtRest, HandlerShape
    <2>2. asset' = asset \/ asset' = [asset EXCEPT ![Sym(h)] = Absent]
      BY <1>8 DEF RetireDelete
    <2>3. Primaries' \subseteq Primaries
      BY <2>2 DEF Primaries, Assets, Exists, AssetShape
    <2> QED
      BY <2>1, <2>3, NothingNew
  <1>9. CASE ResolveAsset(h)
    <2>1. /\ asset' = asset /\ \A g \in Handler \ {h} : handler'[g] = handler[g]
          /\ handler'[h].pc \in {"open", "oldest"}
      BY <1>9 DEF ResolveAsset, Enter, Advance, HandlerShape, Attempt
    <2> QED
      BY <2>1, NothingNew DEF Primaries, Assets, Exists
  <1>20. CASE FindOldest(h)
    <2>1. /\ asset' = asset /\ \A g \in Handler \ {h} : handler'[g] = handler[g]
          /\ \/ handler'[h].pc = "demote"
             \/ handler'[h].pc = "seed" /\ Assets = {}
      BY <1>20 DEF FindOldest, Enter, Advance, HandlerShape, Attempt
    <2>2. Primaries' = Primaries
      BY <2>1 DEF Primaries, Assets, Exists
    <2>3. \A g \in Handler, s \in Primaries' : Spares(g, s)' => Spares(g, s)
      BY <2>1, <2>2 DEF Spares, Sym, Primaries
    <2> QED
      BY <2>2, <2>3 DEF FlagsMove, NoNew
  <1>21. CASE SeePrimaries(h)
    <2>1. /\ asset' = asset /\ \A g \in Handler \ {h} : handler'[g] = handler[g]
          /\ handler'[h].pc = "sink" /\ handler'[h].set = Primaries
      <3> DEFINE k == [handler[h] EXCEPT !.pc = "sink", !.set = Primaries]
      <3>1. Attempt(handler[h]) /\ Enter(h, k) /\ asset' = asset
        BY <1>21 DEF SeePrimaries, HandlerShape
      <3>2. k = WithSet(handler[h], "sink", Primaries)
        BY <3>1, SetEdited
      <3>3. Attempt(k) /\ k.pc = "sink" /\ k.set = Primaries
        BY <3>2 DEF Attempt, WithSet
      <3> HIDE DEF k
      <3> QED
        BY <3>1, <3>3, Entered
    <2>2. Primaries' = Primaries
      BY <2>1 DEF Primaries, Assets, Exists
    <2>3. \A g \in Handler, s \in Primaries' : Spares(g, s)' => Spares(g, s)
      BY <2>1, <2>2 DEF Spares, Sym
    <2> QED
      BY <2>2, <2>3 DEF FlagsMove, NoNew
  <1>10. CASE Demote(h)
    <2> DEFINE down(s) == [asset[s] EXCEPT !.primary = FALSE]
               still == handler[h].set \cap Primaries
    <2>1. /\ \A g \in Handler \ {h} : handler'[g] = handler[g]
          /\ handler[h].pc = "sink" /\ handler'[h].pc = "promote" /\ Sym(h)' = Sym(h)
      <3> DEFINE k == [handler[h] EXCEPT !.pc = "promote", !.set = {}]
      <3>1. Attempt(handler[h]) /\ Enter(h, k) /\ handler[h].pc = "sink"
        BY <1>10 DEF Demote, At, HandlerShape
      <3>2. k = WithSet(handler[h], "promote", {})
        BY <3>1, SetEdited
      <3>3. Attempt(k) /\ k.pc = "promote" /\ k.sym = handler[h].sym
        BY <3>2 DEF Attempt, WithSet
      <3> HIDE DEF k
      <3> QED
        BY <3>1, <3>3, Entered DEF Sym
    <2>2. asset' = [s \in Symbol |-> IF s \in still THEN down(s) ELSE asset[s]]
      BY <1>10 DEF Demote
    <2>3. \A s \in still : s \in Symbol /\ down(s).primary = FALSE
      BY EditedRow DEF AssetShape, Primaries, Assets
    <2>4. \A s \in Primaries' : s \in Primaries \ still
      <3> HIDE DEF down, still
      <3> QED
        BY <2>2, <2>3 DEF Primaries, Assets, Exists
    <2>5. \A g \in Handler, s \in Primaries' : Spares(g, s)' => Spares(g, s)
      BY <2>1, <2>4 DEF Spares, Sym
    <2> QED
      BY <2>4, <2>5 DEF FlagsMove, NoNew
  <1>11. CASE PromoteOldest(h)
    BY <1>11, FactoryAssumption DEF PromoteOldest, FlagsMove, NoNew, OneNew, Primaries, Assets,
       Spares, Sym, AssetShape, HandlerShape, AssetRow, Attempt, Exists, AtRest, Enter, Done,
       Advance, At, Accept
  <1>12. CASE Seed(h)
    <2>1. /\ \A g \in Handler \ {h} : handler'[g] = handler[g]
          /\ handler[h].pc = "seed" /\ handler'[h].pc \in {"idle", "open"}
      <3> DEFINE k == [handler[h] EXCEPT !.pc = "open", !.sym = Default]
      <3>1. handler[h].pc = "seed" /\ (Enter(h, k) \/ Enter(h, AtRest))
        BY <1>12 DEF Seed, At, Done
      <3>2. Attempt(handler[h])
        BY DEF HandlerShape
      <3>3. Attempt(AtRest) /\ AtRest.pc = "idle"
        BY DEF AtRest, Attempt
      <3>5. k = WithSym(handler[h], "open", Default)
        BY <3>2, SymEdited
      <3>4. Attempt(k) /\ k.pc = "open"
        BY <3>5 DEF Attempt, WithSym, WithSet
      <3> HIDE DEF k
      <3> QED
        BY <3>1, <3>3, <3>4, Entered
    <2>2. \A s \in Symbol \ {Default} : asset'[s] = asset[s]
      BY <1>12 DEF Seed, InsertAsset, AssetShape
    <2>3. \A s \in Primaries' : s # Default => s \in Primaries
      BY <2>2 DEF Primaries, Assets, Exists
    <2>4. OneNew(h, Default)
      BY <2>1, <2>3 DEF OneNew, Spares, Sym
    <2> QED
      BY <2>4 DEF FlagsMove, FactoryAssumption
  <1>13. CASE OpenWallet(h)
    <2>1. /\ \A g \in Handler \ {h} : handler'[g] = handler[g]
          /\ handler'[h].pc = "idle" /\ asset' = asset
      BY <1>13 DEF OpenWallet, Done, Enter, AtRest, HandlerShape
    <2> QED
      BY <2>1, NothingNew DEF Primaries, Assets, Exists
  <1>14. ASSUME NEW s \in Symbol, NEW d \in Drafts, NEW p \in BOOLEAN, CreateStart(h, s, d, p)
         PROVE  FlagsMove(h)
    <2>1. /\ \A g \in Handler \ {h} : handler'[g] = handler[g]
          /\ handler'[h].pc = "insert" /\ asset' = asset
      BY <1>14 DEF CreateStart, Enter, AtRest, HandlerShape
    <2> QED
      BY <2>1, NothingNew DEF Primaries, Assets, Exists
  <1>15. ASSUME NEW s \in Symbol, SetPrimaryStart(h, s) PROVE FlagsMove(h)
    <2>1. /\ \A g \in Handler \ {h} : handler'[g] = handler[g]
          /\ handler'[h].pc = "clear" /\ asset' = asset
      BY <1>15 DEF SetPrimaryStart, Enter, AtRest, HandlerShape
    <2> QED
      BY <2>1, NothingNew DEF Primaries, Assets, Exists
  <1>16. ASSUME NEW s \in Symbol, RetireStart(h, s) PROVE FlagsMove(h)
    <2>1. /\ \A g \in Handler \ {h} : handler'[g] = handler[g]
          /\ handler'[h].pc = "delete" /\ asset' = asset
      BY <1>16 DEF RetireStart, Enter, AtRest, HandlerShape
    <2> QED
      BY <2>1, NothingNew DEF Primaries, Assets, Exists
  <1>17. ASSUME NEW s \in Symbol, NEW q \in Patches, UpdateStart(h, s, q) PROVE FlagsMove(h)
    <2>1. /\ \A g \in Handler \ {h} : handler'[g] = handler[g]
          /\ handler'[h].pc = "write" /\ asset' = asset
      BY <1>17 DEF UpdateStart, Enter, AtRest, HandlerShape
    <2> QED
      BY <2>1, NothingNew DEF Primaries, Assets, Exists
  <1>18. CASE EnsureDefaultAsset(h)
    BY <1>18, FactoryAssumption DEF EnsureDefaultAsset, FlagsMove, NoNew, OneNew, Primaries, Assets,
       Spares, Sym, AssetShape, HandlerShape, AssetRow, Attempt, Exists, AtRest, Enter, Done,
       Advance, At, Accept
  <1>19. ASSUME NEW x \in Holder, EnsureWallet(h, x) PROVE FlagsMove(h)
    <2>1. /\ \A g \in Handler \ {h} : handler'[g] = handler[g]
          /\ handler'[h].pc = "resolve" /\ asset' = asset
      BY <1>19 DEF EnsureWallet, Enter, AtRest, HandlerShape
    <2> QED
      BY <2>1, NothingNew DEF Primaries, Assets, Exists
  <1> QED
    BY <1>1, <1>2, <1>3, <1>4, <1>5, <1>6, <1>7, <1>8, <1>9, <1>10, <1>11, <1>12, <1>13, <1>14,
       <1>15, <1>16, <1>17, <1>18, <1>19, <1>20, <1>21 DEF FactoryAction, FactoryStep

\* A step begins, ends or forgets the opening of one wallet.
LEMMA WalletsMoveStep ==
    ASSUME HandlerShape, NEW h \in Handler, FactoryAction(h)
    PROVE  WalletsMove(h)
  <1>1. CASE CreateInsert(h)
    <2>1. wallet' = wallet /\ (Done(h) \/ Advance(h, "elevate"))
      BY <1>1 DEF CreateInsert
    <2> QED
      BY <2>1 DEF WalletsMove, HandlerShape, Attempt, Done, Enter, AtRest, Advance
  <1>2. CASE CreateElevate(h)
    BY <1>2 DEF CreateElevate, WalletsMove, HandlerShape, Attempt, Done, Enter, AtRest, Advance
  <1>3. CASE Clear(h)
    <2> DEFINE q == handler[h]
               k == [q EXCEPT !.pc = "lock", !.set = Primaries \ {Sym(h)}]
    <2>1. Attempt(q)
      BY DEF HandlerShape
    <2>2. k = WithSet(q, "lock", Primaries \ {Sym(h)})
      BY <2>1, SetEdited
    <2>3. Attempt(k) /\ k.who = handler[h].who
      BY <2>2 DEF Attempt, WithSym, WithSet
    <2>4. Enter(h, k) /\ wallet' = wallet
      BY <1>3 DEF Clear
    <2> HIDE DEF k, q
    <2> QED
      BY <2>3, <2>4, Entered DEF WalletsMove
  <1>4. CASE LockCleared(h)
    <2> DEFINE q == handler[h]
               k == [q EXCEPT !.pc = "set", !.set = q.set \cap Primaries]
    <2>1. Attempt(q)
      BY DEF HandlerShape
    <2>2. k = WithSet(q, "set", q.set \cap Primaries)
      BY <2>1, SetEdited
    <2>3. Attempt(k) /\ k.who = handler[h].who
      BY <2>2 DEF Attempt, WithSym, WithSet
    <2>4. Enter(h, k) /\ wallet' = wallet
      BY <1>4 DEF LockCleared
    <2> HIDE DEF k, q
    <2> QED
      BY <2>3, <2>4, Entered DEF WalletsMove
  <1>5. CASE SetCommit(h)
    BY <1>5 DEF SetCommit, WalletsMove, HandlerShape, Attempt, Done, Enter, AtRest
  <1>6. CASE AbortSwitch(h)
    BY <1>6 DEF AbortSwitch, WalletsMove, HandlerShape, Attempt, Done, Enter, AtRest
  <1>7. CASE UpdateWrite(h)
    BY <1>7 DEF UpdateWrite, WalletsMove, HandlerShape, Attempt, Done, Enter, AtRest
  <1>8. CASE RetireDelete(h)
    BY <1>8 DEF RetireDelete, WalletsMove, HandlerShape, Attempt, Done, Enter, AtRest
  <1>9. CASE ResolveAsset(h)
    <2>1. wallet' = wallet
      BY <1>9 DEF ResolveAsset
    <2>2. ASSUME NEW pc, NEW s, Enter(h, [handler[h] EXCEPT !.pc = pc, !.sym = s])
          PROVE  handler'[h].who = handler[h].who
      <3> DEFINE q == handler[h]
                 k == [q EXCEPT !.pc = pc, !.sym = s]
      <3>1. Attempt(q)
        BY DEF HandlerShape
      <3>2. k = WithSym(q, pc, s)
        BY <3>1, SymEdited
      <3>3. Attempt(k) /\ k.who = handler[h].who
        BY <3>2 DEF Attempt, WithSym, WithSet
      <3>4. Enter(h, k)
        BY <2>2
      <3> HIDE DEF k, q
      <3> QED
        BY <3>3, <3>4, Entered
    <2>3. CASE Advance(h, "oldest")
      BY <2>1, <2>3 DEF Advance, WalletsMove, HandlerShape, Attempt
    <2> QED
      BY <1>9, <2>1, <2>2, <2>3 DEF ResolveAsset, WalletsMove
  <1>20. CASE FindOldest(h)
    BY <1>20 DEF FindOldest, WalletsMove, HandlerShape, Attempt, Enter, Advance
  <1>21. CASE SeePrimaries(h)
    <2> DEFINE q == handler[h]
               k == [q EXCEPT !.pc = "sink", !.set = Primaries]
    <2>1. Attempt(q)
      BY DEF HandlerShape
    <2>2. k = WithSet(q, "sink", Primaries)
      BY <2>1, SetEdited
    <2>3. Attempt(k) /\ k.pc = "sink" /\ k.who = handler[h].who
      BY <2>2 DEF Attempt, WithSym, WithSet
    <2>4. Enter(h, k) /\ wallet' = wallet
      BY <1>21 DEF SeePrimaries
    <2> HIDE DEF k, q
    <2> QED
      BY <2>3, <2>4, Entered DEF WalletsMove
  <1>10. CASE Demote(h)
    <2> DEFINE q == handler[h]
               k == [q EXCEPT !.pc = "promote", !.set = {}]
    <2>1. Attempt(q)
      BY DEF HandlerShape
    <2>2. k = WithSet(q, "promote", {})
      BY <2>1, SetEdited
    <2>3. Attempt(k) /\ k.pc = "promote" /\ k.who = handler[h].who
      BY <2>2 DEF Attempt, WithSym, WithSet
    <2>4. Enter(h, k) /\ wallet' = wallet
      BY <1>10 DEF Demote
    <2> HIDE DEF k, q
    <2> QED
      BY <2>3, <2>4, Entered DEF WalletsMove
  <1>11. CASE PromoteOldest(h)
    BY <1>11 DEF PromoteOldest, WalletsMove, HandlerShape, Attempt, Done, Enter, AtRest, Advance
  <1>12. CASE Seed(h)
    <2>1. wallet' = wallet
      BY <1>12 DEF Seed
    <2>2. CASE Done(h)
      BY <2>1, <2>2 DEF Done, Enter, AtRest, WalletsMove, HandlerShape
    <2>3. CASE Enter(h, [handler[h] EXCEPT !.pc = "open", !.sym = Default])
      <3> DEFINE q == handler[h]
                 k == [q EXCEPT !.pc = "open", !.sym = Default]
      <3>1. Attempt(q)
        BY DEF HandlerShape
      <3>2. k = WithSym(q, "open", Default)
        BY <3>1, SymEdited
      <3>3. Attempt(k) /\ k.who = handler[h].who
        BY <3>2 DEF Attempt, WithSym, WithSet
      <3>4. Enter(h, k)
        BY <2>3
      <3> HIDE DEF k, q
      <3> QED
        BY <2>1, <3>3, <3>4, Entered DEF WalletsMove
    <2> QED
      BY <1>12, <2>2, <2>3 DEF Seed
  <1>13. CASE OpenWallet(h)
    <2>1. handler'[h].who = Absent
      BY <1>13 DEF OpenWallet, Done, Enter, AtRest, HandlerShape
    <2>2. CASE wallet' = wallet
      BY <2>1, <2>2 DEF WalletsMove
    <2>3. CASE /\ wallet' = wallet \cup {<<handler[h].who, Sym(h)>>}
               /\ ~(handler[h].who \in Root /\ HasWallet(handler[h].who))
      BY <2>1, <2>3 DEF WalletsMove, WalletsOf, HasWallet
    <2> QED
      BY <1>13, <2>2, <2>3 DEF OpenWallet
  <1>14. ASSUME NEW s \in Symbol, NEW d \in Drafts, NEW p \in BOOLEAN, CreateStart(h, s, d, p)
         PROVE  WalletsMove(h)
    BY <1>14 DEF CreateStart, WalletsMove, HandlerShape, Attempt, Enter, AtRest
  <1>15. ASSUME NEW s \in Symbol, SetPrimaryStart(h, s) PROVE WalletsMove(h)
    BY <1>15 DEF SetPrimaryStart, WalletsMove, HandlerShape, Attempt, Enter, AtRest
  <1>16. ASSUME NEW s \in Symbol, RetireStart(h, s) PROVE WalletsMove(h)
    BY <1>16 DEF RetireStart, WalletsMove, HandlerShape, Attempt, Enter, AtRest
  <1>17. ASSUME NEW s \in Symbol, NEW q \in Patches, UpdateStart(h, s, q) PROVE WalletsMove(h)
    BY <1>17 DEF UpdateStart, WalletsMove, HandlerShape, Attempt, Enter, AtRest
  <1>18. CASE EnsureDefaultAsset(h)
    BY <1>18 DEF EnsureDefaultAsset, WalletsMove, HandlerShape, Attempt, Enter, AtRest
  <1>19. ASSUME NEW x \in Holder, EnsureWallet(h, x) PROVE WalletsMove(h)
    <2>1. wallet' = wallet /\ handler'[h].who = x /\ ~HasWallet(x)
      BY <1>19 DEF EnsureWallet, Enter, AtRest, HandlerShape, Attempt
    <2> QED
      BY <1>19, <2>1 DEF WalletsMove, WalletsOf, HasWallet
  <1> QED
    BY <1>1, <1>2, <1>3, <1>4, <1>5, <1>6, <1>7, <1>8, <1>9, <1>10, <1>11, <1>12, <1>13, <1>14,
       <1>15, <1>16, <1>17, <1>18, <1>19, <1>20, <1>21 DEF FactoryAction, FactoryStep

\* The rows a switch cleared stay there and stay its own until it commits.
LEMMA LocksStep ==
    ASSUME FactoryAssumption, AssetShape, HandlerShape, LocksHeld,
           NEW h \in Handler, FactoryAction(h)
    PROVE  LocksHeld'
  <1>1. HandlersMove(h) /\ RowsKept(h)
    BY HandlersMoveStep, RowsKeptStep
  <1>2. ASSUME NEW g \in Handler \ {h}, handler'[g].pc = "set", NEW s \in handler'[g].set
        PROVE  s \in Symbol /\ Exists(s)' /\ owner'[s] = g
    <2>1. s \in Symbol /\ Exists(s) /\ owner[s] = g
      BY <1>1, <1>2 DEF LocksHeld, HandlersMove
    <2> QED
      BY <1>1, <2>1 DEF RowsKept
  <1>3. ASSUME LockCleared(h), NEW s \in handler'[h].set
        PROVE  s \in Symbol /\ Exists(s)' /\ owner'[s] = h
    <2>1. s \in handler[h].set \cap Primaries /\ owner'[s] = h /\ asset' = asset
      <3> DEFINE still == handler[h].set \cap Primaries
                 k == [handler[h] EXCEPT !.pc = "set", !.set = still]
      <3>1. Attempt(handler[h])
        BY DEF HandlerShape
      <3>2. Enter(h, k) /\ owner' = [u \in Symbol |-> IF u \in still THEN h ELSE owner[u]] /\ asset' = asset
        BY <1>3 DEF LockCleared
      <3>5. k = WithSet(handler[h], "set", still)
        BY <3>1, SetEdited
      <3>3. Attempt(k) /\ k.set = still
        BY <3>5 DEF Attempt, WithSym, WithSet
      <3> HIDE DEF k
      <3>4. handler'[h].set = still
        BY <3>2, <3>3, Entered
      <3> QED
        BY <1>3, <3>2, <3>4 DEF Primaries, Assets
    <2> QED
      BY <2>1 DEF Primaries, Assets, Exists
  <1> QED
    BY <1>1, <1>2, <1>3 DEF LocksHeld, HandlersMove

\* A step without a new primary keeps the attribution; one with a new primary

\* attributes it to the request that spared all the others.
LEMMA AttributionStep ==
    ASSUME PrimariesAttributed, NEW h \in Handler, FlagsMove(h)
    PROVE  PrimariesAttributed'
  <1>1. PICK f \in [Primaries -> Handler] : Attribution(f)
    BY DEF PrimariesAttributed
  <1>2. CASE NoNew
    <2>0. PICK g : g = [s \in Primaries' |-> f[s]]
      OBVIOUS
    <2>1. g \in [Primaries' -> Handler] /\ \A s \in Primaries' : g[s] = f[s]
      BY <1>2, <2>0 DEF NoNew
    <2>2. Attribution(g)'
      BY <1>1, <1>2, <2>1 DEF NoNew, Attribution
    <2> QED
      BY <2>1, <2>2 DEF PrimariesAttributed
  <1>3. ASSUME NEW a \in Symbol, OneNew(h, a) PROVE PrimariesAttributed'
    <2>0. PICK g : g = [s \in Primaries' |-> IF s = a THEN h ELSE f[s]]
      OBVIOUS
    <2>1. g \in [Primaries' -> Handler] /\ \A s \in Primaries' : g[s] = IF s = a THEN h ELSE f[s]
      BY <1>3, <2>0 DEF OneNew
    <2>2. \A s, t \in Primaries' : g[s] = g[t] => s = t
      BY <1>1, <1>3, <2>1 DEF OneNew, Attribution
    <2>3. \A q \in Handler, s \in Primaries' : Spares(q, s)' => g[s] # q
      BY <1>1, <1>3, <2>1 DEF OneNew, Attribution
    <2>4. Attribution(g)'
      BY <2>2, <2>3 DEF Attribution
    <2> QED
      BY <2>1, <2>4 DEF PrimariesAttributed
  <1> QED
    BY <1>2, <1>3 DEF FlagsMove

\* No more requests open a wallet than there are.
LEMMA OpeningsCounted ==
    ASSUME FactoryAssumption, NEW x
    PROVE  /\ IsFiniteSet(OpeningFor(x)) /\ Cardinality(OpeningFor(x)) \in Nat
           /\ Cardinality(Handler) \in Nat /\ Cardinality(OpeningFor(x)) <= Cardinality(Handler)
  <1>1. OpeningFor(x) \subseteq Handler /\ IsFiniteSet(Handler)
    BY DEF OpeningFor, FactoryAssumption
  <1> QED
    BY <1>1, FS_Subset, FS_CardinalityType

\* The wallets and the requests opening one: what ends counts once, as a wallet.
LEMMA WalletsStep ==
    ASSUME FactoryAssumption, HandlerShape, WalletsBounded,
           NEW h \in Handler, HandlersMove(h), WalletsMove(h)
    PROVE  WalletsBounded'
  <1> SUFFICES ASSUME NEW x \in Holder
               PROVE  /\ IsFiniteSet(WalletsOf(x)')
                      /\ Cardinality(WalletsOf(x)') + Cardinality(OpeningFor(x)') <= Cardinality(Handler)
    BY DEF WalletsBounded
  <1> DEFINE W == WalletsOf(x)
             P == OpeningFor(x)
  <1>1. /\ IsFiniteSet(W) /\ Cardinality(W) \in Nat /\ IsFiniteSet(P) /\ Cardinality(P) \in Nat
        /\ Cardinality(Handler) \in Nat /\ Cardinality(W) + Cardinality(P) <= Cardinality(Handler)
    BY OpeningsCounted, FS_CardinalityType DEF WalletsBounded
  <1>2. P' = IF handler'[h].who = x THEN P \cup {h} ELSE P \ {h}
    BY DEF OpeningFor, HandlersMove
  <1>3. x # Absent
    BY DEF FactoryAssumption
  <1>4. h \in P <=> handler[h].who = x
    BY DEF OpeningFor
  <1>5. CASE handler'[h].who \in {handler[h].who, Absent} /\ wallet' = wallet
    <2>1. W' = W /\ P' \subseteq P
      BY <1>2, <1>3, <1>4, <1>5 DEF WalletsOf
    <2>2. Cardinality(P') <= Cardinality(P) /\ Cardinality(P') \in Nat
      BY <1>1, <2>1, FS_Subset, FS_CardinalityType
    <2> HIDE DEF W, P
    <2>3. IsFiniteSet(W') /\ Cardinality(W') + Cardinality(P') <= Cardinality(Handler)
      BY <1>1, <2>1, <2>2
    <2> QED
      BY <2>3 DEF W, P
  <1>6. ASSUME wallet' = wallet, NEW y \in Holder, handler'[h].who = y, WalletsOf(y) = {}
        PROVE  IsFiniteSet(W') /\ Cardinality(W') + Cardinality(P') <= Cardinality(Handler)
    <2>1. W' = W
      BY <1>6 DEF WalletsOf
    <2>2. P' \subseteq Handler /\ IsFiniteSet(Handler)
      BY DEF OpeningFor, FactoryAssumption
    <2>3. Cardinality(P') <= Cardinality(Handler) /\ Cardinality(P') \in Nat
      BY <2>2, FS_Subset, FS_CardinalityType
    <2>4. CASE x = y
      <3>1. Cardinality(W) = 0
        BY <1>6, <2>4, FS_EmptySet
      <3> HIDE DEF W, P
      <3> QED
        BY <1>1, <2>1, <2>3, <3>1
    <2>5. CASE x # y
      <3>1. P' \subseteq P
        BY <1>2, <1>6, <2>5
      <3>2. Cardinality(P') <= Cardinality(P)
        BY <1>1, <3>1, FS_Subset
      <3> HIDE DEF W, P
      <3> QED
        BY <1>1, <2>1, <2>3, <3>2
    <2> QED
      BY <2>4, <2>5
  <1>7. ASSUME handler'[h].who = Absent, NEW s, wallet' = wallet \cup {<<handler[h].who, s>>}
        PROVE  IsFiniteSet(W') /\ Cardinality(W') + Cardinality(P') <= Cardinality(Handler)
    <2>1. P' = P \ {h}
      BY <1>2, <1>3, <1>7
    <2>2. CASE handler[h].who = x
      <3> DEFINE w == <<handler[h].who, s>>
      <3>1. W' = W \cup {w}
        BY <1>7, <2>2 DEF WalletsOf
      <3> HIDE DEF w, W
      <3>4. IsFiniteSet(W \cup {w}) /\ Cardinality(W \cup {w}) \in {Cardinality(W), Cardinality(W) + 1}
        BY <1>1, FS_AddElement
      <3>2. IsFiniteSet(W') /\ Cardinality(W') <= Cardinality(W) + 1 /\ Cardinality(W') \in Nat
        BY <1>1, <3>1, <3>4
      <3>3. Cardinality(P') = Cardinality(P) - 1
        <4>1. h \in P
          BY <1>4, <2>2
        <4> HIDE DEF P
        <4> QED
          BY <1>1, <2>1, <4>1, FS_RemoveElement
      <3> HIDE DEF P
      <3> QED
        BY <1>1, <3>2, <3>3
    <2>3. CASE handler[h].who # x
      <3>1. W' = W /\ P' \subseteq P
        BY <1>4, <1>7, <2>1, <2>3 DEF WalletsOf
      <3>2. Cardinality(P') <= Cardinality(P) /\ Cardinality(P') \in Nat
        BY <1>1, <3>1, FS_Subset, FS_CardinalityType
      <3> HIDE DEF W, P
      <3> QED
        BY <1>1, <3>1, <3>2
    <2> QED
      BY <2>2, <2>3
  <1> QED
    BY <1>5, <1>6, <1>7 DEF WalletsMove

\* The unique index on the node: a treasury that has a wallet gets no second.
LEMMA TreasuryStep ==
    ASSUME TreasuryOnce, NEW h \in Handler, WalletsMove(h)
    PROVE  TreasuryOnce'
  <1>1. CASE wallet' = wallet
    BY <1>1 DEF TreasuryOnce
  <1>2. ASSUME NEW s, wallet' = wallet \cup {<<handler[h].who, s>>},
               handler[h].who \in Root => WalletsOf(handler[h].who) = {}
        PROVE  TreasuryOnce'
    BY <1>2 DEF TreasuryOnce, WalletsOf
  <1> QED
    BY <1>1, <1>2 DEF WalletsMove

LEMMA FactoryBegins == ASSUME FactoryAssumption, FactoryInit PROVE FactoryInv
  <1>1. AssetShape
    BY DEF FactoryInit, FactoryAssumption, AssetShape, Exists, AssetRow
  <1>2. HandlerShape /\ \A h \in Handler : handler[h].pc = "idle" /\ handler[h].who = Absent
    BY DEF FactoryInit, HandlerShape, Attempt, AtRest
  <1>3. LocksHeld
    BY <1>2 DEF LocksHeld
  <1>4. PrimariesAttributed
    <2>1. \A s, t \in Primaries : s = t
      BY DEF FactoryInit, FactoryAssumption, Primaries, Assets, Exists
    <2>2. PICK h \in Handler : TRUE
      BY DEF FactoryAssumption
    <2> DEFINE f == [s \in Primaries |-> h]
    <2>3. f \in [Primaries -> Handler] /\ Attribution(f)
      BY <1>2, <2>1 DEF Attribution, Spares
    <2> QED
      BY <2>3 DEF PrimariesAttributed
  <1>5. WalletsBounded
    <2> SUFFICES ASSUME NEW x \in Holder
                 PROVE  /\ IsFiniteSet(WalletsOf(x))
                        /\ Cardinality(WalletsOf(x)) + Cardinality(OpeningFor(x)) <= Cardinality(Handler)
      BY DEF WalletsBounded
    <2>1. WalletsOf(x) = {}
      BY DEF FactoryInit, WalletsOf
    <2>2. IsFiniteSet({}) /\ Cardinality({}) = 0
      BY FS_EmptySet
    <2> QED
      BY <2>1, <2>2, OpeningsCounted
  <1>6. TreasuryOnce
    BY DEF FactoryInit, TreasuryOnce
  <1> QED
    BY <1>1, <1>2, <1>3, <1>4, <1>5, <1>6 DEF FactoryInv

LEMMA FactorySteps ==
    ASSUME FactoryAssumption, FactoryInv, [FactoryNext]_factoryVars
    PROVE  FactoryInv'
  <1>1. CASE UNCHANGED factoryVars
    <2>1. AssetShape' /\ HandlerShape' /\ LocksHeld' /\ TreasuryOnce'
      BY <1>1 DEF factoryVars, FactoryInv, AssetShape, HandlerShape, LocksHeld, TreasuryOnce, Exists
    <2>2. PrimariesAttributed'
      <3>1. PICK f \in [Primaries -> Handler] : Attribution(f)
        BY DEF FactoryInv, PrimariesAttributed
      <3>2. Primaries' = Primaries
        BY <1>1 DEF factoryVars, Primaries, Assets, Exists
      <3>3. Attribution(f)'
        BY <1>1, <3>1, <3>2 DEF factoryVars, Attribution, Spares, Sym
      <3> QED
        BY <3>2, <3>3 DEF PrimariesAttributed
    <2>3. WalletsBounded'
      BY <1>1 DEF factoryVars, FactoryInv, WalletsBounded, WalletsOf, OpeningFor
    <2> QED
      BY <2>1, <2>2, <2>3 DEF FactoryInv
  <1>2. ASSUME NEW h \in Handler, FactoryAction(h) PROVE FactoryInv'
    <2>1. HandlersMove(h) /\ RowsKept(h) /\ FlagsMove(h) /\ WalletsMove(h)
      BY <1>2, HandlersMoveStep, RowsKeptStep, FlagsMoveStep, WalletsMoveStep DEF FactoryInv
    <2>2. AssetShape' /\ HandlerShape' /\ LocksHeld'
      BY <1>2, <2>1, LocksStep DEF FactoryInv, HandlersMove, RowsKept
    <2>3. PrimariesAttributed' /\ WalletsBounded' /\ TreasuryOnce'
      BY <2>1, AttributionStep, WalletsStep, TreasuryStep DEF FactoryInv
    <2> QED
      BY <2>2, <2>3 DEF FactoryInv
  <1> QED
    BY <1>1, <1>2 DEF FactoryNext, FactoryAction

\* An attribution is an injection into the requests.
LEMMA FactoryBounds == ASSUME FactoryAssumption, FactoryInv PROVE UniqueButForRaces
  <1>1. Cardinality(Primaries) <= Cardinality(Handler)
    <2>1. PICK f \in [Primaries -> Handler] : Attribution(f)
      BY DEF FactoryInv, PrimariesAttributed
    <2>2. f \in Injection(Primaries, Handler)
      BY <2>1 DEF Attribution, Injection, IsInjective
    <2> QED
      BY <2>2, FS_Injection DEF FactoryAssumption
  <1>2. ASSUME NEW x \in Holder
        PROVE  Cardinality(WalletsOf(x)) <= IF x \in Root THEN 1 ELSE Cardinality(Handler)
    <2>1. /\ IsFiniteSet(WalletsOf(x)) /\ Cardinality(WalletsOf(x)) \in Nat
          /\ Cardinality(WalletsOf(x)) + Cardinality(OpeningFor(x)) <= Cardinality(Handler)
      BY FS_CardinalityType DEF FactoryInv, WalletsBounded
    <2>2. Cardinality(WalletsOf(x)) <= Cardinality(Handler)
      BY <2>1, OpeningsCounted
    <2>3. CASE x \in Root
      <3>1. \A v, w \in WalletsOf(x) : v = w
        BY <2>3 DEF WalletsOf, FactoryInv, TreasuryOnce
      <3>2. CASE WalletsOf(x) = {}
        BY <2>3, <3>2, FS_EmptySet
      <3>3. ASSUME NEW w \in WalletsOf(x) PROVE Cardinality(WalletsOf(x)) = 1
        <4>1. WalletsOf(x) = {w}
          BY <3>1
        <4> QED
          BY <4>1, FS_Singleton
      <3> QED
        BY <2>3, <3>2, <3>3
    <2> QED
      BY <2>2, <2>3
  <1> QED
    BY <1>1, <1>2 DEF UniqueButForRaces, WalletsOf

\* CurrencyFactory and WalletService look before they write: for any requests,

\* symbols, holders and openings, racing requests leave at most one primary asset
\* each and one wallet of a citizen each, and a treasury has one wallet.
THEOREM RacesAreCounted == ASSUME FactoryAssumption PROVE FactorySpec => []UniqueButForRaces
  <1>1. FactoryInit => FactoryInv
    BY FactoryBegins
  <1>2. FactoryInv /\ [FactoryNext]_factoryVars => FactoryInv'
    BY FactorySteps
  <1>3. FactoryInv => UniqueButForRaces
    BY FactoryBounds
  <1> QED
    BY <1>1, <1>2, <1>3, PTL DEF FactorySpec

-----------------------------------------------------------------------------
(* The watcher of the treasuries on a chain. *)
USE OnChainAssumption

TxRow == [status : {"pending", "completed", "failed"}, hash : Hash \cup {None}]
Pc == {"off", "list", "read", "write", "pendings", "next", "status", "settle"}
Tick == [pc : Pc, listed : Balances, read : Balances, todo : SUBSET (Nat \X Hash),
         work : (Nat \X Hash) \cup {None}, saw : Fates]

\* A hash belongs to a row once it was handed in for it.
Owned(w) == w[1] \in 1..Len(ever) /\ w[2] \in ever[w[1]]

\* Whatever a tick works through are hashes of the rows it took them from.
WorkInv == \A p \in Process :
    /\ \A w \in tick[p].todo : Owned(w)
    /\ tick[p].pc \in {"status", "settle"} => tick[p].work \in Nat \X Hash /\ Owned(tick[p].work)

\* Finality seen stays true, however long the tick takes to act on it.
SeenInv == \A p \in Process :
    tick[p].pc = "settle" /\ tick[p].saw = "final" => fate[tick[p].work[2]] = "final"

HashInv == \A t \in 1..Len(ever) : tx[t].hash = None \/ tx[t].hash \in ever[t]

WatcherInv == OnChainTypeOK /\ WorkInv /\ SeenInv /\ HashInv /\ CompletedWasFinal

-----------------------------------------------------------------------------
LEMMA OffTyped == Off \in Tick /\ [Off EXCEPT !.pc = "list"] \in Tick /\ [Off EXCEPT !.pc = "pendings"] \in Tick
  BY DEF Off, Tick, Pc, Fates

LEMMA WatcherInitInv == Init => WatcherInv
  <1> SUFFICES ASSUME Init PROVE WatcherInv
    OBVIOUS
  <1>1. OnChainTypeOK
    BY OffTyped DEF Init, OnChainTypeOK, Fates, Tick, Pc
  <1>2. WorkInv /\ SeenInv
    BY DEF Init, WorkInv, SeenInv, Off
  <1>3. Len(ever) = 0 /\ Len(tx) = 0
    BY DEF Init
  <1> QED
    BY <1>1, <1>2, <1>3 DEF WatcherInv, HashInv, CompletedWasFinal, Tx

\* A step of one tick that leaves the rows and the chain alone.
LEMMA TickStep ==
    ASSUME WatcherInv, NEW p \in Process, NEW rec \in Tick, tick' = [tick EXCEPT ![p] = rec],
           UNCHANGED <<chain, fate, tx, ever>>, cached' \in Balances,
           moves' \in Nat, faults' \in Nat, reorgs' \in Nat,
           \A w \in rec.todo : Owned(w),
           rec.pc \in {"status", "settle"} => rec.work \in Nat \X Hash /\ Owned(rec.work),
           rec.pc = "settle" /\ rec.saw = "final" => fate[rec.work[2]] = "final"
    PROVE  WatcherInv'
  <1>1. OnChainTypeOK'
    BY DEF WatcherInv, OnChainTypeOK, Tick, Pc
  <1>2. \A q \in Process : tick'[q] = IF q = p THEN rec ELSE tick[q]
    BY DEF WatcherInv, OnChainTypeOK
  <1>3. WorkInv' /\ SeenInv'
    BY <1>2 DEF WatcherInv, WorkInv, SeenInv, Owned
  <1>4. HashInv' /\ CompletedWasFinal'
    BY DEF WatcherInv, HashInv, CompletedWasFinal, Tx
  <1> QED
    BY <1>1, <1>3, <1>4 DEF WatcherInv

\* A step that leaves rows and ticks alone, and what is final final.
LEMMA ChainStep ==
    ASSUME WatcherInv, UNCHANGED <<cached, tx, ever, tick>>, chain' \in Balances,
           fate' \in [Hash -> Fates], \A h \in Hash : fate[h] = "final" => fate'[h] = "final",
           moves' \in Nat, faults' \in Nat, reorgs' \in Nat
    PROVE  WatcherInv'
  <1>1. OnChainTypeOK'
    BY DEF WatcherInv, OnChainTypeOK
  <1>2. WorkInv' /\ HashInv'
    BY DEF WatcherInv, WorkInv, HashInv, Owned
  <1>3. SeenInv'
    BY DEF WatcherInv, SeenInv, WorkInv
  <1>4. CompletedWasFinal'
    BY DEF WatcherInv, CompletedWasFinal, Tx, OnChainTypeOK
  <1> QED
    BY <1>1, <1>2, <1>3, <1>4 DEF WatcherInv

\* A row that is settled or gets a hash keeps the hashes it had, and completes
\* on one that is final.
LEMMA RowStep ==
    ASSUME WatcherInv, NEW t \in 1..Len(ever), NEW status \in {"pending", "completed", "failed"},
           NEW hash \in Hash \cup {None}, NEW more \in SUBSET Hash,
           tx' = [tx EXCEPT ![t] = [status |-> status, hash |-> hash]],
           ever' = [ever EXCEPT ![t] = @ \cup more], hash = None \/ hash \in ever'[t],
           status = "completed" => \E h \in ever[t] : fate[h] = "final", fate' = fate
    PROVE  /\ tx' \in Seq(TxRow) /\ ever' \in Seq(SUBSET Hash)
           /\ Len(ever') = Len(tx') /\ Len(ever') = Len(ever)
           /\ \A u \in 1..Len(ever) : ever[u] \subseteq ever'[u]
           /\ HashInv' /\ CompletedWasFinal'
  <1>1. tx \in Seq(TxRow) /\ ever \in Seq(SUBSET Hash) /\ Len(tx) = Len(ever)
    BY DEF WatcherInv, OnChainTypeOK, TxRow
  <1>2. [status |-> status, hash |-> hash] \in TxRow
    BY DEF TxRow
  <1>3. ever[t] \cup more \in SUBSET Hash
    BY <1>1
  <1>4. tx' \in Seq(TxRow) /\ ever' \in Seq(SUBSET Hash) /\ Len(tx') = Len(tx) /\ Len(ever') = Len(ever)
    BY <1>1, <1>2, <1>3
  <1>5. \A u \in 1..Len(ever) : ever[u] \subseteq ever'[u]
    BY <1>1
  <1>6. \A u \in 1..Len(ever) : tx'[u] = IF u = t THEN [status |-> status, hash |-> hash] ELSE tx[u]
    BY <1>1
  <1>7. HashInv'
    BY <1>4, <1>5, <1>6 DEF WatcherInv, HashInv
  <1>8. CompletedWasFinal'
    BY <1>1, <1>4, <1>5, <1>6 DEF WatcherInv, CompletedWasFinal, Tx
  <1> QED
    BY <1>1, <1>4, <1>5, <1>7, <1>8

\* The fields of a row.
LEMMA RowFields ==
    ASSUME WatcherInv, NEW t \in 1..Len(ever)
    PROVE  /\ tx[t].status \in {"pending", "completed", "failed"} /\ tx[t].hash \in Hash \cup {None}
           /\ \A h : [tx[t] EXCEPT !.hash = h] = [status |-> tx[t].status, hash |-> h]
           /\ \A s : [tx[t] EXCEPT !.status = s] = [status |-> s, hash |-> tx[t].hash]
  <1>1. tx \in Seq(TxRow) /\ Len(tx) = Len(ever)
    BY DEF WatcherInv, OnChainTypeOK, TxRow
  <1>2. tx[t] \in TxRow
    BY <1>1
  <1> QED
    BY <1>2 DEF TxRow

-----------------------------------------------------------------------------
(* The chain and the requests *)

LEMMA WorldStep ==
    ASSUME WatcherInv, ChainMoves \/ \E h \in Hash : Mine(h) \/ Finalise(h) \/ Reorganise(h) PROVE WatcherInv'
  <1>1. /\ chain \in Balances /\ fate \in [Hash -> Fates]
        /\ moves \in Nat /\ faults \in Nat /\ reorgs \in Nat
    BY DEF WatcherInv, OnChainTypeOK
  <1>2. UNCHANGED <<cached, tx, ever, tick>>
    BY DEF ChainMoves, Mine, Finalise, Reorganise
  <1>3. chain' \in Balances /\ moves' \in Nat /\ faults' \in Nat /\ reorgs' \in Nat
    BY <1>1 DEF ChainMoves, Mine, Finalise, Reorganise
  <1>4. fate' \in [Hash -> Fates] /\ \A h \in Hash : fate[h] = "final" => fate'[h] = "final"
    BY <1>1 DEF ChainMoves, Mine, Finalise, Reorganise, Fates
  <1> QED
    BY <1>2, <1>3, <1>4, ChainStep

LEMMA PrepareStep == ASSUME WatcherInv, PrepareOnChainIntent PROVE WatcherInv'
  <1> DEFINE row == [status |-> "pending", hash |-> None]
  <1>1. tx \in Seq(TxRow) /\ ever \in Seq(SUBSET Hash) /\ Len(tx) = Len(ever) /\ row \in TxRow
    BY DEF WatcherInv, OnChainTypeOK, TxRow
  <1>2. /\ tx' = Append(tx, row) /\ ever' = Append(ever, {})
        /\ UNCHANGED <<chain, fate, cached, tick, moves, faults, reorgs>>
    BY DEF PrepareOnChainIntent
  <1>3. /\ tx' \in Seq(TxRow) /\ ever' \in Seq(SUBSET Hash)
        /\ Len(tx') = Len(tx) + 1 /\ Len(ever') = Len(ever) + 1
        /\ tx'[Len(tx) + 1] = row
        /\ \A t \in 1..Len(ever) : tx'[t] = tx[t] /\ ever'[t] = ever[t]
    BY <1>1, <1>2, AppendProperties
  <1>4. \A t \in 1..Len(ever') : t \in 1..Len(ever) \/ t = Len(tx) + 1
    BY <1>1, <1>3
  <1>5. OnChainTypeOK'
    BY <1>1, <1>2, <1>3 DEF WatcherInv, OnChainTypeOK, TxRow
  <1>6. WorkInv'
    BY <1>1, <1>2, <1>3 DEF WatcherInv, WorkInv, Owned
  <1>7. SeenInv'
    BY <1>2 DEF WatcherInv, SeenInv
  <1>8. HashInv'
    BY <1>1, <1>3, <1>4 DEF WatcherInv, HashInv
  <1>9. CompletedWasFinal'
    BY <1>1, <1>2, <1>3, <1>4 DEF WatcherInv, CompletedWasFinal, Tx
  <1> QED
    BY <1>5, <1>6, <1>7, <1>8, <1>9 DEF WatcherInv

\* The hash may be replaced; those handed in before stay the row's own.
LEMMA ConfirmStep ==
    ASSUME WatcherInv, NEW t \in Tx, NEW h \in Hash, ConfirmOnChainTransfer(t, h) PROVE WatcherInv'
  <1>1. t \in 1..Len(ever) /\ ever \in Seq(SUBSET Hash)
    BY DEF WatcherInv, OnChainTypeOK, Tx
  <1>2. /\ tx' = [tx EXCEPT ![t] = [tx[t] EXCEPT !.hash = h]]
        /\ ever' = [ever EXCEPT ![t] = @ \cup {h}]
        /\ UNCHANGED <<chain, fate, cached, tick, moves, faults, reorgs>>
    BY DEF ConfirmOnChainTransfer
  <1>3. h \in ever'[t] /\ {h} \in SUBSET Hash
    BY <1>1, <1>2
  <1>4. tx[t].status = "completed" => \E g \in ever[t] : fate[g] = "final"
    BY <1>1 DEF WatcherInv, CompletedWasFinal, Tx
  <1>5. /\ tx' \in Seq(TxRow) /\ ever' \in Seq(SUBSET Hash)
        /\ Len(ever') = Len(tx') /\ Len(ever') = Len(ever)
        /\ \A u \in 1..Len(ever) : ever[u] \subseteq ever'[u]
        /\ HashInv' /\ CompletedWasFinal'
    <2> DEFINE status == tx[t].status
    <2>1. status \in {"pending", "completed", "failed"}
      BY <1>1, RowFields
    <2>2. tx' = [tx EXCEPT ![t] = [status |-> status, hash |-> h]]
      BY <1>1, <1>2, RowFields
    <2>3. status = "completed" => \E g \in ever[t] : fate[g] = "final"
      BY <1>4
    <2>4. h \in Hash \cup {None} /\ fate' = fate
      BY <1>2
    <2> HIDE DEF status
    <2> QED
      BY ZenonT(60), <1>1, <1>2, <1>3, <2>1, <2>2, <2>3, <2>4, RowStep
  <1>6. OnChainTypeOK'
    BY <1>2, <1>5 DEF WatcherInv, OnChainTypeOK, TxRow
  <1>7. WorkInv' /\ SeenInv'
    BY <1>2, <1>5 DEF WatcherInv, WorkInv, SeenInv, Owned
  <1> QED
    BY <1>5, <1>6, <1>7 DEF WatcherInv

-----------------------------------------------------------------------------
(* The ticks *)

\* A tick that goes on keeps what it works through.
LEMMA Working ==
    ASSUME WatcherInv, NEW p \in Process
    PROVE  tick[p] \in Tick /\ \A w \in tick[p].todo : Owned(w)
  BY DEF WatcherInv, OnChainTypeOK, WorkInv, Tick, Pc

LEMMA RestartStep ==
    ASSUME WatcherInv, NEW p \in Process, Start(p) \/ Crash(p) \/ ReadFails(p) PROVE WatcherInv'
  <1>1. tick[p] \in Tick /\ \A w \in tick[p].todo : Owned(w)
    BY Working
  <1> DEFINE rec == IF Start(p) THEN [tick[p] EXCEPT !.pc = "list"]
                    ELSE IF Crash(p) THEN Off ELSE [Off EXCEPT !.pc = "pendings"]
  <1>2. /\ rec \in Tick /\ rec.pc \notin {"status", "settle"} /\ \A w \in rec.todo : Owned(w)
    BY <1>1, OffTyped DEF Tick, Pc, Off
  <1>3. tick' = [tick EXCEPT ![p] = rec]
    BY DEF Start, TickGoes, Crash, ReadFails
  <1>4. /\ UNCHANGED <<chain, fate, tx, ever, cached, moves, reorgs>> /\ faults' \in Nat
        /\ cached \in Balances /\ moves \in Nat /\ reorgs \in Nat
    BY DEF WatcherInv, OnChainTypeOK, Start, Crash, ReadFails
  <1> HIDE DEF rec
  <1> QED
    BY <1>2, <1>3, <1>4, TickStep

LEMMA SyncStep ==
    ASSUME WatcherInv, NEW p \in Process,
           ListTreasuries(p) \/ ReadTokenBalance(p) \/ UpdateSyncedBalance(p) \/ StatusFails(p)
    PROVE  WatcherInv'
  <1>1. tick[p] \in Tick /\ \A w \in tick[p].todo : Owned(w)
    BY Working
  <1>2. /\ UNCHANGED <<chain, fate, tx, ever, moves, reorgs>> /\ faults' \in Nat
        /\ chain \in Balances /\ cached \in Balances /\ moves \in Nat /\ reorgs \in Nat
    BY DEF WatcherInv, OnChainTypeOK, ListTreasuries, ReadTokenBalance, UpdateSyncedBalance, StatusFails
  <1>3. cached' \in Balances
    BY <1>1, <1>2 DEF ListTreasuries, ReadTokenBalance, UpdateSyncedBalance, StatusFails, Tick
  <1>4. \E rec \in Tick : /\ tick' = [tick EXCEPT ![p] = rec]
                          /\ rec.pc \notin {"status", "settle"} /\ \A w \in rec.todo : Owned(w)
    <2>1. CASE ListTreasuries(p)
      <3> DEFINE rec == [tick[p] EXCEPT !.pc = "read", !.listed = cached]
      <3>1. rec \in Tick /\ rec.pc \notin {"status", "settle"} /\ \A w \in rec.todo : Owned(w)
        BY <1>1, <1>2, OffTyped DEF Tick, Pc, Off
      <3>2. tick' = [tick EXCEPT ![p] = rec]
        BY <1>1, <1>2, <2>1 DEF ListTreasuries, Tick, Pc
      <3> QED
        BY <3>1, <3>2
    <2>2. CASE ReadTokenBalance(p)
      <3> DEFINE rec == [tick[p] EXCEPT !.pc = "write", !.read = chain]
      <3>1. rec \in Tick /\ rec.pc \notin {"status", "settle"} /\ \A w \in rec.todo : Owned(w)
        BY <1>1, <1>2, OffTyped DEF Tick, Pc, Off
      <3>2. tick' = [tick EXCEPT ![p] = rec]
        BY <1>1, <1>2, <2>2 DEF ReadTokenBalance, Tick, Pc
      <3> QED
        BY <3>1, <3>2
    <2>3. CASE UpdateSyncedBalance(p)
      <3> DEFINE rec == [Off EXCEPT !.pc = "pendings"]
      <3>1. rec \in Tick /\ rec.pc \notin {"status", "settle"} /\ \A w \in rec.todo : Owned(w)
        BY <1>1, <1>2, OffTyped DEF Tick, Pc, Off
      <3>2. tick' = [tick EXCEPT ![p] = rec]
        BY <2>3, OffTyped DEF UpdateSyncedBalance, Off
      <3> QED
        BY <3>1, <3>2
    <2>4. CASE StatusFails(p)
      <3> DEFINE rec == [tick[p] EXCEPT !.pc = "next", !.work = None]
      <3>1. rec \in Tick /\ rec.pc \notin {"status", "settle"} /\ \A w \in rec.todo : Owned(w)
        BY <1>1, <1>2, OffTyped DEF Tick, Pc, Off
      <3>2. tick' = [tick EXCEPT ![p] = rec]
        BY <1>1, <2>4 DEF StatusFails, Tick, Pc
      <3> QED
        BY <3>1, <3>2
    <2> QED
      BY <2>1, <2>2, <2>3, <2>4
  <1> QED
    BY <1>2, <1>3, <1>4, TickStep

LEMMA ListPendingsStep == ASSUME WatcherInv, NEW p \in Process, ListPendings(p) PROVE WatcherInv'
  <1> DEFINE todo == {<<t, tx[t].hash>> : t \in OldestRows(PendingRows)}
             rec == [tick[p] EXCEPT !.pc = "next", !.todo = todo]
  <1>1. tick[p] \in Tick
    BY Working
  <1>2. tx \in Seq(TxRow) /\ Len(tx) = Len(ever) /\ Len(tx) \in Nat
    BY DEF WatcherInv, OnChainTypeOK, TxRow
  <1>3. \A w \in todo : w \in Nat \X Hash /\ Owned(w)
    <2> SUFFICES ASSUME NEW t \in OldestRows(PendingRows)
                 PROVE  <<t, tx[t].hash>> \in Nat \X Hash /\ Owned(<<t, tx[t].hash>>)
      OBVIOUS
    <2>0. t \in PendingRows
      BY DEF OldestRows
    <2>1. t \in 1..Len(ever) /\ tx[t] \in TxRow /\ tx[t].hash # None
      BY <1>2, <2>0 DEF PendingRows, Tx
    <2>2. tx[t].hash \in Hash /\ tx[t].hash \in ever[t]
      BY <2>1 DEF WatcherInv, HashInv, TxRow
    <2> QED
      BY <2>1, <2>2, <1>2 DEF Owned
  <1>4. tick' = [tick EXCEPT ![p] = rec]
    BY DEF ListPendings
  <1>5. rec \in Tick /\ rec.pc = "next" /\ \A w \in rec.todo : Owned(w)
    <2> HIDE DEF todo
    <2> QED
      BY <1>1, <1>3 DEF Tick, Pc
  <1>6. /\ UNCHANGED <<chain, fate, tx, ever, cached, moves, faults, reorgs>>
        /\ cached \in Balances /\ moves \in Nat /\ faults \in Nat /\ reorgs \in Nat
    BY DEF WatcherInv, OnChainTypeOK, ListPendings
  <1> HIDE DEF rec
  <1> QED
    BY <1>4, <1>5, <1>6, TickStep

LEMMA NextPendingStep == ASSUME WatcherInv, NEW p \in Process, NextPending(p) PROVE WatcherInv'
  <1>1. tick[p] \in Tick /\ \A w \in tick[p].todo : Owned(w)
    BY Working
  <1>2. /\ UNCHANGED <<chain, fate, tx, ever, cached, moves, faults, reorgs>>
        /\ cached \in Balances /\ moves \in Nat /\ faults \in Nat /\ reorgs \in Nat
    BY DEF WatcherInv, OnChainTypeOK, NextPending
  <1>3. CASE tick' = [tick EXCEPT ![p] = AfterTick(p)]
    <2>1. /\ AfterTick(p) \in Tick /\ AfterTick(p).pc \notin {"status", "settle"}
          /\ \A w \in AfterTick(p).todo : Owned(w)
      BY OffTyped DEF AfterTick, Off
    <2> QED
      BY <1>2, <1>3, <2>1, TickStep
  <1>4. ASSUME NEW w \in tick[p].todo,
               tick' = [tick EXCEPT ![p].pc = "status", ![p].work = w, ![p].todo = @ \ {w}]
        PROVE  WatcherInv'
    <2> DEFINE rec == [tick[p] EXCEPT !.pc = "status", !.work = w, !.todo = @ \ {w}]
    <2>1. w \in Nat \X Hash /\ Owned(w)
      BY <1>1 DEF Tick
    <2>2. rec \in Tick /\ rec.pc = "status" /\ rec.work = w /\ \A v \in rec.todo : Owned(v)
      BY <1>1, <2>1 DEF Tick, Pc
    <2>3. tick' = [tick EXCEPT ![p] = rec]
      BY <1>4
    <2> HIDE DEF rec
    <2> QED
      BY <1>2, <2>1, <2>2, <2>3, TickStep
  <1> QED
    BY <1>3, <1>4 DEF NextPending

LEMMA ReadStatusStep == ASSUME WatcherInv, NEW p \in Process, ReadTransactionStatus(p) PROVE WatcherInv'
  <1> DEFINE work == tick[p].work
             rec == [tick[p] EXCEPT !.pc = "settle", !.saw = fate[work[2]]]
  <1>1. tick[p] \in Tick /\ \A w \in tick[p].todo : Owned(w)
    BY Working
  <1>2. work \in Nat \X Hash /\ Owned(work)
    BY DEF WatcherInv, WorkInv, ReadTransactionStatus, TickAt
  <1>3. fate[work[2]] \in Fates
    BY <1>2 DEF WatcherInv, OnChainTypeOK
  <1>4. /\ rec \in Tick /\ rec.pc = "settle" /\ rec.work = work /\ rec.saw = fate[work[2]]
        /\ \A w \in rec.todo : Owned(w)
    BY <1>1, <1>3 DEF Tick, Pc
  <1>5. tick' = [tick EXCEPT ![p] = rec]
    BY DEF ReadTransactionStatus
  <1>6. /\ UNCHANGED <<chain, fate, tx, ever, cached, moves, faults, reorgs>>
        /\ cached \in Balances /\ moves \in Nat /\ faults \in Nat /\ reorgs \in Nat
    BY DEF WatcherInv, OnChainTypeOK, ReadTransactionStatus
  <1> HIDE DEF rec
  <1> QED
    BY <1>2, <1>4, <1>5, <1>6, TickStep

\* The row is written by what was seen of a hash of its own.
LEMMA SettleStep == ASSUME WatcherInv, NEW p \in Process, Settle(p) PROVE WatcherInv'
  <1> DEFINE t == tick[p].work[1]
             h == tick[p].work[2]
             rec == [tick[p] EXCEPT !.pc = "next", !.work = None, !.saw = "unknown"]
  <1>1. tick[p] \in Tick /\ \A w \in tick[p].todo : Owned(w)
    BY Working
  <1>2. t \in 1..Len(ever) /\ h \in ever[t] /\ (tick[p].saw = "final" => fate[h] = "final")
    BY DEF WatcherInv, WorkInv, SeenInv, Settle, TickAt, Owned
  <1>3. rec \in Tick /\ rec.pc = "next" /\ \A w \in rec.todo : Owned(w)
    BY <1>1 DEF Tick, Pc, Fates
  <1>4. /\ tick' = [tick EXCEPT ![p] = rec]
        /\ UNCHANGED <<chain, fate, cached, ever, moves, faults, reorgs>>
    BY DEF Settle
  <1>5. /\ tx' \in Seq(TxRow) /\ Len(tx') = Len(ever) /\ HashInv' /\ CompletedWasFinal'
    <2>1. CASE Answer(tick[p].saw) = "pending"
      <3>1. tx' = tx
        BY <2>1 DEF Settle
      <3> QED
        BY <1>4, <3>1 DEF WatcherInv, OnChainTypeOK, TxRow, HashInv, CompletedWasFinal, Tx
    <2>2. CASE Answer(tick[p].saw) # "pending"
      <3> DEFINE status == Answer(tick[p].saw)
      <3>1. tx' = [tx EXCEPT ![t] = [tx[t] EXCEPT !.status = status]]
        BY <2>2 DEF Settle
      <3>2. status \in {"completed", "failed"} /\ (status = "completed" => fate[h] = "final")
        BY <1>2, <2>2 DEF Answer
      <3>3. tx[t].hash = None \/ tx[t].hash \in ever[t]
        BY <1>2 DEF WatcherInv, HashInv
      <3>4. ever' = [ever EXCEPT ![t] = @ \cup {}]
        BY <1>2, <1>4 DEF WatcherInv, OnChainTypeOK
      <3>5. tx' = [tx EXCEPT ![t] = [status |-> status, hash |-> tx[t].hash]]
        BY <1>2, <3>1, RowFields
      <3> DEFINE hash == tx[t].hash
      <3>6. hash \in Hash \cup {None} /\ (hash = None \/ hash \in ever'[t]) /\ fate' = fate
        BY <1>2, <1>4, <3>3, RowFields
      <3>7. status \in {"pending", "completed", "failed"} /\ {} \in SUBSET Hash
        BY <3>2
      <3>8. status = "completed" => \E g \in ever[t] : fate[g] = "final"
        BY <1>2, <3>2
      <3>9. t \in 1..Len(ever) /\ tx' = [tx EXCEPT ![t] = [status |-> status, hash |-> hash]] /\ ever' = ever
        BY <1>2, <1>4, <3>5
      <3> HIDE DEF status, hash, t, h
      <3> QED
        BY <3>4, <3>6, <3>7, <3>8, <3>9, RowStep
    <2> QED
      BY <2>1, <2>2
  <1>6. OnChainTypeOK'
    BY <1>3, <1>4, <1>5 DEF WatcherInv, OnChainTypeOK, TxRow, Tick, Pc
  <1>7. \A q \in Process : tick'[q] = IF q = p THEN rec ELSE tick[q]
    BY <1>4 DEF WatcherInv, OnChainTypeOK
  <1>8. WorkInv' /\ SeenInv'
    BY <1>3, <1>4, <1>7 DEF WatcherInv, WorkInv, SeenInv, Owned
  <1> QED
    BY <1>5, <1>6, <1>8 DEF WatcherInv

LEMMA WatcherInductive == ASSUME WatcherInv, [Next]_vars PROVE WatcherInv'
  <1>1. CASE UNCHANGED vars
    BY <1>1 DEF vars, WatcherInv, OnChainTypeOK, WorkInv, SeenInv, HashInv, CompletedWasFinal, Owned, Tx
  <1>2. CASE Next
    <2>1. ASSUME NEW p \in Process, TickMoves(p) \/ Start(p) \/ ReadFails(p) \/ StatusFails(p) PROVE WatcherInv'
      BY <2>1, RestartStep, SyncStep, ListPendingsStep, NextPendingStep, ReadStatusStep, SettleStep DEF TickMoves
    <2>2. CASE Crash(Daemon)
      BY <2>2, RestartStep DEF Process
    <2> QED
      BY <1>2, <2>1, <2>2, WorldStep, PrepareStep, ConfirmStep DEF Next
  <1> QED
    BY <1>1, <1>2

\* What a tick of the watcher carries from one await to the next stays true
\* through whatever the chain, the clients and the other tick do meanwhile.
THEOREM OnChainInvariant == Spec => []WatcherInv
  BY WatcherInitInv, WatcherInductive, PTL DEF Spec

\* The types, whatever hashes and balances there are.
THEOREM OnChainTypes == Spec => []OnChainTypeOK
  <1>1. WatcherInv => OnChainTypeOK
    BY DEF WatcherInv
  <1> QED
    BY <1>1, OnChainInvariant, PTL

\* A row is completed only on a hash of its own that had become final, whatever
\* hashes were handed in and however many ticks ran, failed or died meanwhile.
THEOREM CompletedOnFinality == Spec => []CompletedWasFinal
  <1>1. WatcherInv => CompletedWasFinal
    BY DEF WatcherInv
  <1> QED
    BY <1>1, OnChainInvariant, PTL
=============================================================================
