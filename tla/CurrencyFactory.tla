-------------------------- MODULE CurrencyFactory --------------------------
(* The assets of one State and the wallets that hold them: CurrencyFactory    *)
(* (create, update, set primary, retire, default asset) and the wallet        *)
(* directory of WalletService (ensurePersonalWallet, ensureTreasuryWallet).   *)
(* Each handler reads in one database call and writes in a later one; only    *)
(* repo.setPrimaryAsset is a transaction, under READ COMMITTED.               *)
EXTENDS Integers, FiniteSets

CONSTANTS
    Handler,         \* requests in flight at a time
    Symbol, Default, \* tickers, "KRN" among them
    Person, Root,    \* citizens; nodes with a treasury
    Drafts, Patches, \* inputs of createAsset and updateAsset
    Openings,        \* the registries a State may start from
    MaxOps, Absent

Config == [type : {"INTERNAL", "ON_CHAIN"}, mode : {"LOCAL", "EXTERNAL", "HYBRID"},
           contract : BOOLEAN, rate : BOOLEAN, mint : BOOLEAN, tax : BOOLEAN]
Holder == Person \cup Root

\* A State starts with one primary at most.
FactoryAssumption ==
    /\ IsFiniteSet(Handler) /\ Handler # {} /\ MaxOps \in Nat
    /\ Default \in Symbol /\ Person \cap Root = {}
    /\ Absent \notin Symbol \cup Handler \cup Holder
    /\ Openings \subseteq [Symbol -> {Absent} \cup [cfg : Config, primary : BOOLEAN, n : Nat]]
    /\ \A opening \in Openings : \A s, t \in {u \in Symbol : opening[u] # Absent} :
         opening[s].primary /\ opening[t].primary => s = t

VARIABLES
    asset,   \* StateAsset by symbol, or Absent: configuration, isPrimary, creation order
    owner,   \* the request holding an asset's row lock, or Absent
    wallet,  \* pairs <<holder, symbol>>
    handler, ops

factoryVars == <<asset, owner, wallet, handler, ops>>

\* "next" is the configuration to write, "set" the primaries a statement saw.
AtRest == [pc |-> "idle", sym |-> Absent, who |-> Absent, primary |-> FALSE, next |-> Absent, set |-> {}]

FactoryTypeOK ==
    /\ asset \in [Symbol -> {Absent} \cup [cfg : Config, primary : BOOLEAN, n : 0..MaxOps]]
    /\ owner \in [Symbol -> Handler \cup {Absent}]
    /\ wallet \subseteq Holder \X Symbol
    /\ handler \in [Handler -> [pc : {"idle", "insert", "elevate", "clear", "lock", "set", "write",
                                      "delete", "resolve", "oldest", "demote", "sink", "promote",
                                      "seed", "open"},
                                sym : Symbol \cup {Absent}, who : Holder \cup {Absent},
                                primary : BOOLEAN, next : Config \cup {Absent}, set : SUBSET Symbol]]
    /\ ops \in 0..MaxOps

FactoryInit ==
    /\ asset \in Openings /\ owner = [s \in Symbol |-> Absent]
    /\ wallet = {} /\ handler = [h \in Handler |-> AtRest] /\ ops = 0

-----------------------------------------------------------------------------
Exists(s) == asset[s] # Absent
Assets == {s \in Symbol : Exists(s)}
Primaries == {s \in Assets : asset[s].primary}
Oldest == CHOOSE s \in Assets : \A t \in Assets : asset[s].n <= asset[t].n
Referenced(s) == \E w \in wallet : w[2] = s

Accept(h) == handler[h].pc = "idle" /\ ops < MaxOps /\ ops' = ops + 1
Enter(h, rec) == handler' = [handler EXCEPT ![h] = rec]
Advance(h, pc) == handler' = [handler EXCEPT ![h].pc = pc]
Done(h) == Enter(h, AtRest)
At(h, pc) == handler[h].pc = pc
Sym(h) == handler[h].sym
Unlocked(s, h) == owner[s] \in {Absent, h}
Unlock(h) == owner' = [s \in Symbol |-> IF owner[s] = h THEN Absent ELSE owner[s]]
InsertAsset(s, cfg, primary) ==
    asset' = [asset EXCEPT ![s] = [cfg |-> cfg, primary |-> primary, n |-> Cardinality(Assets)]]

\* ensureTypeModeCompatible, normaliseTaxRate and the checks on contract and rate.
Coherent(c) ==
    /\ c.type = "INTERNAL" => c.mode # "EXTERNAL"
    /\ c.type = "ON_CHAIN" => c.mode # "LOCAL" /\ ~c.tax
    /\ c.contract <=> c.mode # "LOCAL"
    /\ c.rate <=> c.mode = "HYBRID"

CanMint(requested, c) == requested /\ ~(c.type = "ON_CHAIN" /\ c.mode = "EXTERNAL")
Krona == [type |-> "INTERNAL", mode |-> "LOCAL", contract |-> FALSE, rate |-> FALSE,
          mint |-> TRUE, tax |-> FALSE]

-----------------------------------------------------------------------------
(* createAsset *)
CreateStart(h, s, draft, primary) ==
    /\ Accept(h) /\ Coherent(draft) /\ ~Exists(s)
    /\ Enter(h, [AtRest EXCEPT !.pc = "insert", !.sym = s, !.primary = primary,
                            !.next = [draft EXCEPT !.mint = CanMint(@, draft)]])
    /\ UNCHANGED <<asset, owner, wallet>>

CreateInsert(h) ==
    /\ At(h, "insert")
    /\ IF Exists(Sym(h)) THEN Done(h) /\ UNCHANGED asset
       ELSE InsertAsset(Sym(h), handler[h].next, FALSE) /\ Advance(h, "elevate")
    /\ UNCHANGED <<owner, wallet, ops>>

\* "A State must always have one": asked for, or the first asset.
CreateElevate(h) ==
    /\ At(h, "elevate")
    /\ IF handler[h].primary \/ Cardinality(Assets) = 1 THEN Advance(h, "clear") ELSE Done(h)
    /\ UNCHANGED <<asset, owner, wallet, ops>>

(* setPrimaryAsset *)
SetPrimaryStart(h, s) ==
    /\ Accept(h) /\ Exists(s)
    /\ Enter(h, [AtRest EXCEPT !.pc = "clear", !.sym = s])
    /\ UNCHANGED <<asset, owner, wallet>>

\* updateMany picks its rows from the snapshot of the statement ...
Clear(h) ==
    /\ At(h, "clear")
    /\ Enter(h, [handler[h] EXCEPT !.pc = "lock", !.set = Primaries \ {Sym(h)}])
    /\ UNCHANGED <<asset, owner, wallet, ops>>

\* ... waits for their locks and takes those that are still primary.
LockCleared(h) ==
    LET still == handler[h].set \cap Primaries IN
    /\ At(h, "lock") /\ \A s \in handler[h].set : Unlocked(s, h)
    /\ owner' = [s \in Symbol |-> IF s \in still THEN h ELSE owner[s]]
    /\ Enter(h, [handler[h] EXCEPT !.pc = "set", !.set = still])
    /\ UNCHANGED <<asset, wallet, ops>>

\* Faulty variant: the siblings keep their flag.
SetWithoutClear(h) ==
    LET a == Sym(h) IN
    /\ At(h, "set") /\ Unlocked(a, h)
    /\ asset' = IF Exists(a) THEN [asset EXCEPT ![a].primary = TRUE] ELSE asset
    /\ Unlock(h) /\ Done(h)
    /\ UNCHANGED <<wallet, ops>>

SetCommit(h) ==
    LET a == Sym(h) IN
    /\ At(h, "set") /\ Unlocked(a, h)
    /\ asset' = IF ~Exists(a) THEN asset
                ELSE [s \in Symbol |->
                        IF s = a THEN [asset[a] EXCEPT !.primary = TRUE]
                        ELSE IF s \in handler[h].set THEN [asset[s] EXCEPT !.primary = FALSE]
                        ELSE asset[s]]
    /\ Unlock(h) /\ Done(h)
    /\ UNCHANGED <<wallet, ops>>

\* Two promotions that each cleared the other's asset wait on one another.
SwitchesDeadlock(h) ==
    /\ At(h, "set") /\ ~Unlocked(Sym(h), h)
    /\ LET g == owner[Sym(h)] IN At(g, "set") /\ owner[Sym(g)] = h

AbortSwitch(h) ==
    /\ SwitchesDeadlock(h)
    /\ Unlock(h) /\ Done(h)
    /\ UNCHANGED <<asset, wallet, ops>>

(* updateAsset: the patch over the configuration read, all of it written back *)
Overlay(patch, c) == [f \in DOMAIN c |-> IF f \in DOMAIN patch THEN patch[f] ELSE c[f]]
Patched(patch, c) ==
    LET next == Overlay(patch, c) IN
    [next EXCEPT !.mint = IF "mint" \in DOMAIN patch THEN CanMint(@, next) ELSE @]

UpdateStart(h, s, patch) ==
    /\ Accept(h) /\ Exists(s)
    /\ Coherent(Patched(patch, asset[s].cfg))
    /\ Enter(h, [AtRest EXCEPT !.pc = "write", !.sym = s, !.next = Patched(patch, asset[s].cfg)])
    /\ UNCHANGED <<asset, owner, wallet>>

UpdateWrite(h) ==
    /\ At(h, "write") /\ Unlocked(Sym(h), h)
    /\ asset' = IF Exists(Sym(h)) THEN [asset EXCEPT ![Sym(h)].cfg = handler[h].next] ELSE asset
    /\ Done(h)
    /\ UNCHANGED <<owner, wallet, ops>>

(* retireAsset *)
RetireStart(h, s) ==
    /\ Accept(h) /\ Exists(s) /\ ~asset[s].primary /\ ~Referenced(s)
    /\ Enter(h, [AtRest EXCEPT !.pc = "delete", !.sym = s])
    /\ UNCHANGED <<asset, owner, wallet>>

\* The foreign key of Wallet restricts the delete; the flag is not read again.
RetireDelete(h) ==
    /\ At(h, "delete") /\ Unlocked(Sym(h), h)
    /\ asset' = IF Referenced(Sym(h)) THEN asset ELSE [asset EXCEPT ![Sym(h)] = Absent]
    /\ Done(h)
    /\ UNCHANGED <<owner, wallet, ops>>

(* ensureDefaultAsset *)
EnsureDefaultAsset(h) ==
    /\ Accept(h) /\ Primaries = {}
    /\ IF Assets = {} THEN Enter(h, [AtRest EXCEPT !.pc = "seed"])
       ELSE Enter(h, [AtRest EXCEPT !.pc = "clear", !.sym = Oldest])
    /\ UNCHANGED <<asset, owner, wallet>>

(* ensurePersonalWallet, ensureTreasuryWallet *)
\* Faulty variant: a wallet in another asset does not count.
HasPrimaryWallet(x) == \E w \in wallet : w[1] = x /\ w[2] \in Primaries

HasWallet(x) == \E w \in wallet : w[1] = x

EnsureWallet(h, x) ==
    /\ Accept(h) /\ ~HasWallet(x)
    /\ Enter(h, [AtRest EXCEPT !.pc = "resolve", !.who = x])
    /\ UNCHANGED <<asset, owner, wallet>>

\* ensurePrimaryAsset: the primary, or the oldest asset promoted, or the seed.
ResolveAsset(h) ==
    /\ At(h, "resolve")
    /\ \/ \E s \in Primaries : Enter(h, [handler[h] EXCEPT !.pc = "open", !.sym = s])
       \/ Primaries = {} /\ Advance(h, "oldest")
    /\ UNCHANGED <<asset, owner, wallet, ops>>

FindOldest(h) ==
    /\ At(h, "oldest")
    /\ \/ Assets # {} /\ Enter(h, [handler[h] EXCEPT !.pc = "demote", !.sym = Oldest])
       \/ Assets = {} /\ Advance(h, "seed")
    /\ UNCHANGED <<asset, owner, wallet, ops>>

\* Its updateMany, as in Clear and LockCleared, but a transaction of its own: what
\* becomes primary after the snapshot stays so.
SeePrimaries(h) ==
    /\ At(h, "demote")
    /\ Enter(h, [handler[h] EXCEPT !.pc = "sink", !.set = Primaries])
    /\ UNCHANGED <<asset, owner, wallet, ops>>

Demote(h) ==
    LET still == handler[h].set \cap Primaries IN
    /\ At(h, "sink") /\ \A s \in handler[h].set : Unlocked(s, h)
    /\ asset' = [s \in Symbol |-> IF s \in still THEN [asset[s] EXCEPT !.primary = FALSE] ELSE asset[s]]
    /\ Enter(h, [handler[h] EXCEPT !.pc = "promote", !.set = {}])
    /\ UNCHANGED <<owner, wallet, ops>>

PromoteOldest(h) ==
    /\ At(h, "promote") /\ Unlocked(Sym(h), h)
    /\ IF Exists(Sym(h))
       THEN asset' = [asset EXCEPT ![Sym(h)].primary = TRUE] /\ Advance(h, "open")
       ELSE Done(h) /\ UNCHANGED asset
    /\ UNCHANGED <<owner, wallet, ops>>

Seed(h) ==
    /\ At(h, "seed")
    /\ IF Exists(Default) THEN Done(h) /\ UNCHANGED asset
       ELSE /\ InsertAsset(Default, Krona, TRUE)
            /\ IF handler[h].who = Absent THEN Done(h)
               ELSE Enter(h, [handler[h] EXCEPT !.pc = "open", !.sym = Default])
    /\ UNCHANGED <<owner, wallet, ops>>

\* Unique (state, user, asset) for a citizen, unique node for a treasury; the
\* asset must still exist.
OpenWallet(h) ==
    LET x == handler[h].who IN
    /\ At(h, "open")
    /\ wallet' = IF Exists(Sym(h)) /\ ~(x \in Root /\ HasWallet(x))
                 THEN wallet \cup {<<x, Sym(h)>>} ELSE wallet
    /\ Done(h)
    /\ UNCHANGED <<asset, owner, ops>>

FactoryStep(h) ==
    \/ CreateInsert(h) \/ CreateElevate(h) \/ Clear(h) \/ LockCleared(h) \/ SetCommit(h)
    \/ AbortSwitch(h) \/ UpdateWrite(h) \/ RetireDelete(h) \/ ResolveAsset(h) \/ FindOldest(h)
    \/ SeePrimaries(h) \/ Demote(h) \/ PromoteOldest(h) \/ Seed(h) \/ OpenWallet(h)

FactoryNext == \E h \in Handler :
    \/ FactoryStep(h)
    \/ \E s \in Symbol, d \in Drafts, p \in BOOLEAN : CreateStart(h, s, d, p)
    \/ \E s \in Symbol : SetPrimaryStart(h, s) \/ RetireStart(h, s)
    \/ \E s \in Symbol, p \in Patches : UpdateStart(h, s, p)
    \/ EnsureDefaultAsset(h)
    \/ \E x \in Holder : EnsureWallet(h, x)

FactorySpec == FactoryInit /\ [][FactoryNext]_factoryVars

-----------------------------------------------------------------------------
\* What the code keeps unique by looking first exceeds one only by requests that
\* race: two promotions, each clearing the siblings it saw, leave two primaries;
\* two openings, between which the primary currency changes, leave a citizen two
\* wallets. A treasury has one, and a change alone opens no second one.
UniqueButForRaces ==
    /\ Cardinality(Primaries) <= Cardinality(Handler)
    /\ \A x \in Holder : Cardinality({w \in wallet : w[1] = x}) <=
                           IF x \in Root THEN 1 ELSE Cardinality(Handler)
=============================================================================
