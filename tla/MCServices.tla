----------------------------- MODULE MCServices -----------------------------
(* The services that share no row in these models: the tree editor, the chat, *)
(* the Exchange Engine, the Currency Factory, the backups, the e-mail digest, *)
(* the first start with its tokens, the links to Telegram, the Constitution   *)
(* and the activity feed. A behaviour is a behaviour of one of them, its part; *)
(* the others stay in their initial states, so a run explores the sum of their *)
(* state spaces.                                                              *)
EXTENDS Vertical, Chat, Exchange, CurrencyFactory, Backup, Digest, Setup, TelegramLink, Settings,
        Feed, TLC

CONSTANTS h1, h2, p1, p2   \* two requests or runs; two server processes

VARIABLE part

vars == <<part, verticalVars, chatVars, exchangeVars, factoryVars, backupVars, digestVars, setupVars, linkVars,
          settingsVars, feedVars>>

Requests == {h1, h2}
Interchangeable == Permutations(Requests)

\* Two requests edit a tree of three nodes, one of them not created yet.
Tree == {"lobby", "n1", "n2"}
TreeGrants == [n \in Tree |-> CASE n = "lobby" -> {"*"} [] n = "n1" -> {"chat.*"}
                                [] n = "n2" -> {"chat.read", "system.read"}]
Keys == {"chat.read", "chat.write", "system.read"}
DomainOf == [p \in Keys |-> IF p = "system.read" THEN "system" ELSE "chat"]
WildcardOf == [d \in {"chat", "system"} |-> IF d = "chat" THEN "chat.*" ELSE "system.*"]
\* The sovereign, a clerk of the middle of three nodes and an intern below; a
\* public channel and the office of the middle node. The intern is connected to
\* the other process.
Chain == {"top", "dept", "team"}
Citizen == {"sovereign", "clerk", "intern"}
ChainAtOrAbove == [n \in Chain |-> CASE n = "top" -> {"top"} [] n = "dept" -> {"top", "dept"}
                                     [] n = "team" -> Chain]
Seats == [u \in Citizen |-> CASE u = "sovereign" -> None [] u = "clerk" -> "dept" [] u = "intern" -> "team"]
Office == [c \in {"general", "office"} |-> IF c = "office" THEN "dept" ELSE None]
Homes == [u \in Citizen |-> IF u = "intern" THEN p2 ELSE p1]
Processes == {p1, p2}
Loaders == {"sovereign", "clerk"}  \* who opens channels; whose seats move
Movers == {"clerk", "intern"}

\* Two swaps at a time between a wallet of each of two States, at rates that
\* round down and up.
Money == {"alice", "agora"}
Opening == [w \in Money |-> IF w = "alice" THEN 3 ELSE 1]
Currency == [w \in Money |-> IF w = "alice" THEN "KRN" ELSE "DRM"]
Prices == {<<1, 2>>, <<2, 1>>}

\* Two requests on a registry that is empty, or mirrors a token already.
Draft(type, mode) == [type |-> type, mode |-> mode, contract |-> mode # "LOCAL",
                      rate |-> mode = "HYBRID", mint |-> TRUE, tax |-> FALSE]
Ticker == {"KRN", "COIN", "OIL"}
Fresh == [s \in Ticker |-> None]
Grown == [s \in Ticker |->
    CASE s = "KRN" -> [cfg |-> Draft("INTERNAL", "LOCAL"), primary |-> TRUE, n |-> 0]
      [] s = "COIN" -> [cfg |-> Draft("ON_CHAIN", "HYBRID"), primary |-> FALSE, n |-> 1]
      [] s = "OIL" -> [cfg |-> Draft("INTERNAL", "LOCAL"), primary |-> FALSE, n |-> 2]]
Registries == {Fresh, Grown}
SomeDrafts == {Draft("INTERNAL", "LOCAL")}
SomePatches == {[mode |-> "EXTERNAL", rate |-> FALSE]}

\* Two daily jobs that overlap and a request of the CLI, keeping one backup, beside moves of
\* the lobby below the office and of the office below the lobby.
Places == {"lobby", "office"}
Tasks == Requests \cup {"cli"}

\* Two administrators; a rule that the page does not show beside one that it does
\* and shows in full where the row has a wildcard, with what patches send.
Contents == {"none", "listed", "any"}
Sent == {<<"uiLocale", "listed">>, <<"nodeWeights", "listed">>,
         <<"allowedConfigKeys", "listed">>, <<"allowedConfigKeys", "any">>}
Shows == [v \in Contents |-> IF v = "any" THEN "listed" ELSE v]

\* Pages of one row over no log and logs of five: rows of one createdAt, a hidden stretch as
\* long as a read, visible and hidden rows in turn; two events of one time become
\* rows meanwhile. The viewer sits in the team, below the hall and beside the annex.
Rooms == [n \in {"hall", "team", "annex"} |-> {"hall", n}]
Members == [n \in DOMAIN Rooms |-> IF n = "hall" THEN {"boss"} ELSE IF n = "team" THEN {"me"} ELSE {"eve"}]
Entry(i, t, v) == [id |-> i, at |-> t, visibility |-> v, actor |-> "eve", node |-> "team", audience |-> {}]
LogOf(at, v) == {Entry(i, at[i], v[i]) : i \in 1..5}
Quiet == LogOf(<<1, 2, 3, 4, 5>>, <<"public", "sovereign", "node", "sovereign", "public">>)
Logs == {{}, Quiet,
         LogOf(<<1, 2, 2, 3, 3>>, [i \in 1..5 |-> "public"]),
         LogOf(<<1, 2, 3, 4, 5>>, <<"node", "sovereign", "sovereign", "sovereign", "node">>)}
Tx(kind, status, actor, from, to) ==
    [kind |-> kind, status |-> status, actor |-> actor, from |-> from, to |-> to]
Event(kind, actor, node, users) == [kind |-> kind, actor |-> actor, node |-> node, users |-> users]
News == {Tx("transfer", "completed", "eve", "annex", "bob"), Tx("transfer", "completed", "eve", "eve", "team"),
         Tx("transfer", "failed", "me", "me", "bob"), Tx("mint", "completed", "eve", "noone", "bob"),
         Event("channel", "noone", "annex", {}), Event("directive", "boss", "hall", {"me"}),
         Event("message", "boss", "hall", {"me"}), Event("closed", "noone", "noone", {}),
         Event("granted", "boss", "hall", {"bob"}), Event("revoked", "boss", "annex", {"me"}),
         Event("merged", "me", "noone", {}), Event("merged", "boss", "noone", {})}
Heard == [i \in {6, 7} |-> IF i = 6 THEN News ELSE {Event("merged", "me", "noone", {})}]

ASSUME InputsAreLegal ==
    VerticalConstants /\ ChatConstants /\ FactoryAssumption /\ BackupConstants
    /\ DigestConstants /\ ExchangeConstants /\ SetupConstants /\ TelegramConstants
    /\ SettingsConstants /\ FeedConstants

-----------------------------------------------------------------------------
Init ==
    /\ part \in {"vertical", "chat", "exchange", "factory", "backup", "digest", "setup", "telegram",
                "settings", "feed"}
    /\ VerticalInit /\ ChatInit /\ ExchangeInit /\ BackupInit /\ DigestInit
    /\ SetupInit /\ LinkInit /\ SettingsInit
    /\ FactoryInit /\ (asset = Fresh \/ part = "factory")
    /\ FeedInit /\ (log = {} \/ part = "feed")

InTree ==
    /\ part = "vertical"
    /\ UNCHANGED <<part, chatVars, exchangeVars, factoryVars, backupVars, digestVars, setupVars, linkVars, settingsVars, feedVars>>
InChat ==
    /\ part = "chat"
    /\ UNCHANGED <<part, verticalVars, exchangeVars, factoryVars, backupVars, digestVars, setupVars, linkVars, settingsVars, feedVars>>
InExchange ==
    /\ part = "exchange"
    /\ UNCHANGED <<part, verticalVars, chatVars, factoryVars, backupVars, digestVars, setupVars, linkVars, settingsVars, feedVars>>
InFactory ==
    /\ part = "factory"
    /\ UNCHANGED <<part, verticalVars, chatVars, exchangeVars, backupVars, digestVars, setupVars, linkVars, settingsVars, feedVars>>
InBackup ==
    /\ part = "backup"
    /\ UNCHANGED <<part, verticalVars, chatVars, exchangeVars, factoryVars, digestVars, setupVars, linkVars, settingsVars, feedVars>>
InDigest ==
    /\ part = "digest"
    /\ UNCHANGED <<part, verticalVars, chatVars, exchangeVars, factoryVars, backupVars, setupVars, linkVars, settingsVars, feedVars>>
InSetup ==
    /\ part = "setup"
    /\ UNCHANGED <<part, verticalVars, chatVars, exchangeVars, factoryVars, backupVars, digestVars, linkVars, settingsVars, feedVars>>
InTelegram ==
    /\ part = "telegram"
    /\ UNCHANGED <<part, verticalVars, chatVars, exchangeVars, factoryVars, backupVars, digestVars, setupVars, settingsVars, feedVars>>
InSettings ==
    /\ part = "settings"
    /\ UNCHANGED <<part, verticalVars, chatVars, exchangeVars, factoryVars, backupVars, digestVars, setupVars, linkVars, feedVars>>
InFeed ==
    /\ part = "feed"
    /\ UNCHANGED <<part, verticalVars, chatVars, exchangeVars, factoryVars, backupVars, digestVars, setupVars, linkVars, settingsVars>>

\* The next-state relations of the modules, an action to a disjunct.
VerticalSteps ==
    \/ InTree /\ \E n \in Tree, p \in Tree \cup {None} : PostNode(n, p)
    \/ InTree /\ \E n \in Tree : Delete(n)
    \/ InTree /\ \E r \in Requests, n \in Tree, p \in Tree \cup {None} : PatchStart(r, n, p)
    \/ InTree /\ \E r \in Requests : WouldCreateCycle(r)
    \/ InTree /\ \E r \in Requests : PatchWrite(r)
    \/ InTree /\ \E r \in Requests : PutStart(r)
    \/ InTree /\ \E r \in Requests : PutClear(r)
    \/ InTree /\ \E r \in Requests : PutCommit(r)

ChatSteps ==
    \/ InChat /\ \E u \in Citizen, c \in Channel, d \in BOOLEAN : Post("m", u, c, d)
    \/ InChat /\ CollectRecipients("m")
    \/ InChat /\ InsertDirectiveAcks("m")
    \/ InChat /\ Publish("m")
    \/ InChat /\ PublishFails("m")
    \/ InChat /\ LocalDelivery("m")
    \/ InChat /\ \E p \in Processes : EchoDelivery("m", p)
    \/ InChat /\ \E u \in Citizen : AcknowledgeDirective("m", u)
    \/ InChat /\ \E u \in Movers, n \in Chain \cup {None} : Move(u, n)
    \/ InChat /\ \E u \in Citizen : Disconnect(u)
    \/ InChat /\ \E u \in Citizen : Reconnect(u)
    \/ InChat /\ \E u \in Loaders, c \in Channel : LoadMessages(u, c)
    \/ InChat /\ \E u \in Loaders, c \in Channel : ShowPage(u, c)

ExchangeSteps ==
    \/ InExchange /\ \E r \in Requests, from, to \in Wallet, n \in Amounts : CrossStateTransfer(r, from, to, n)
    \/ InExchange /\ \E r \in Requests : ReadSource(r)
    \/ InExchange /\ \E r \in Requests : Debit(r)
    \/ InExchange /\ \E r \in Requests : Credit(r)
    \/ InExchange /\ \E r \in Requests : Commit(r)
    \/ InExchange /\ \E r \in Requests : WriteFailedRow(r)
    \/ InExchange /\ \E r \in Requests : Abort(r)
    \/ InExchange /\ \E r \in Requests : SwapDies(r)
    \/ InExchange /\ \E p \in Pair, rate \in Rates, e \in BOOLEAN : UpsertPair(p, rate, e)
    \/ InExchange /\ \E p \in Pair, e \in BOOLEAN : SetPairEnabled(p, e)
    \/ InExchange /\ \E p \in Pair : DeletePair(p)

FactorySteps ==
    \/ InFactory /\ \E h \in Requests, s \in Ticker, d \in SomeDrafts, p \in BOOLEAN : CreateStart(h, s, d, p)
    \/ InFactory /\ \E h \in Requests : CreateInsert(h)
    \/ InFactory /\ \E h \in Requests : CreateElevate(h)
    \/ InFactory /\ \E h \in Requests, s \in Ticker : SetPrimaryStart(h, s)
    \/ InFactory /\ \E h \in Requests : Clear(h)
    \/ InFactory /\ \E h \in Requests : LockCleared(h)
    \/ InFactory /\ \E h \in Requests : SetCommit(h)
    \/ InFactory /\ \E h \in Requests : AbortSwitch(h)
    \/ InFactory /\ \E h \in Requests, s \in Ticker, p \in SomePatches : UpdateStart(h, s, p)
    \/ InFactory /\ \E h \in Requests : UpdateWrite(h)
    \/ InFactory /\ \E h \in Requests, s \in Ticker : RetireStart(h, s)
    \/ InFactory /\ \E h \in Requests : RetireDelete(h)
    \/ InFactory /\ \E h \in Requests : EnsureDefaultAsset(h)
    \/ InFactory /\ \E h \in Requests : FindOldest(h)
    \/ InFactory /\ \E h \in Requests : SeePrimaries(h)
    \/ InFactory /\ \E h \in Requests : Demote(h)
    \/ InFactory /\ \E h \in Requests : PromoteOldest(h)
    \/ InFactory /\ \E h \in Requests : Seed(h)
    \/ InFactory /\ \E h \in Requests, x \in {"ann", "crown"} : EnsureWallet(h, x)
    \/ InFactory /\ \E h \in Requests : ResolveAsset(h)
    \/ InFactory /\ \E h \in Requests : OpenWallet(h)

BackupSteps ==
    \/ InBackup /\ \E n \in Places, p \in Places \cup {None} : AddNode(n, p)
    \/ InBackup /\ \E n \in Places : DeleteNode(n)
    \/ InBackup /\ TakeSeat("ann", "office")
    \/ InBackup /\ \E n, p \in Places : StartMove(n, p)
    \/ InBackup /\ \E n, p \in Places : FinishMove(n, p)
    \/ InBackup /\ \E tree \in [Built -> Built \cup {None}] : SaveTree(tree)
    \/ InBackup /\ \E r \in Tasks : BeginBackup(r)
    \/ InBackup /\ \E r \in Tasks : CollectVertical(r)
    \/ InBackup /\ \E r \in Tasks : CollectMemberships(r)
    \/ InBackup /\ \E r \in Tasks : StoreObject(r)
    \/ InBackup /\ \E r \in Tasks : RecordManifest(r)
    \/ InBackup /\ \E r \in Requests : ListManifests(r)
    \/ InBackup /\ \E r \in Requests : DeleteObject(r)
    \/ InBackup /\ \E r \in Requests : DeleteManifest(r)
    \/ InBackup /\ \E r \in Requests : EndPrune(r)
    \/ InBackup /\ \E r \in Tasks : TaskDies(r)

DigestSteps ==
    \/ InDigest /\ NextDay
    \/ InDigest /\ \E r \in Requests, wanting \in SUBSET Reader : Begin(r, wanting)
    \/ InDigest /\ \E r \in Requests, u \in Reader : Look(r, u)
    \/ InDigest /\ \E r \in Requests : Claim(r)
    \/ InDigest /\ \E r \in Requests : Send(r)
    \/ InDigest /\ \E r \in Requests : SendFails(r)
    \/ InDigest /\ \E r \in Requests : Release(r)
    \/ InDigest /\ \E r \in Requests : Finish(r)
    \/ InDigest /\ \E r \in Requests : Die(r)

SetupSteps ==
    \/ InSetup /\ \E r \in Requests, h \in {"ada", "bob"}, s \in {"agora", "polis"} : SetupStart(r, h, s)
    \/ InSetup /\ \E r \in Requests : CreateUser(r)
    \/ InSetup /\ \E r \in Requests : CreateState(r)
    \/ InSetup /\ \E r \in Requests : CommitSetup(r)
    \/ InSetup /\ \E r \in Requests, t \in 1..4 : Authenticate(r, t)
    \/ InSetup /\ \E r \in Requests : RotateFind(r)
    \/ InSetup /\ \E r \in Requests : Mint(r)
    \/ InSetup /\ \E r \in Requests : Revoke(r)
    \/ InSetup /\ \E r \in Requests : AttemptDies(r)

TelegramSteps ==
    \/ InTelegram /\ \E l \in {"l1", "l2"}, u \in {"ann", "bea"} : BeginEnrollment(l, u)
    \/ InTelegram /\ \E l \in {"l1", "l2"} : Expire(l)
    \/ InTelegram /\ \E w \in Requests, l \in {"l1", "l2"}, a \in {"phone", "tablet"} : FindLink(w, l, a)
    \/ InTelegram /\ \E w \in Requests : FindAccount(w)
    \/ InTelegram /\ \E w \in Requests : InsertCredential(w)
    \/ InTelegram /\ \E w \in Requests : Consume(w)
    \/ InTelegram /\ \E w \in Requests : UpdateDies(w)

SettingsSteps ==
    \/ InSettings /\ \E a \in Requests : ReadSettings(a)
    \/ InSettings /\ \E a \in Requests : ShowSettings(a)
    \/ InSettings /\ \E a \in Requests, f \in {"uiLocale", "allowedConfigKeys"}, v \in Contents : ChangeField(a, f, v)
    \/ InSettings /\ \E a \in Requests : Submit(a)
    \/ InSettings /\ \E a \in Requests, p \in Sent : Patch(a, p[1], p[2])
    \/ InSettings /\ \E a \in Requests : PatchExtras(a, [m \in Requests |-> FALSE])
    \/ InSettings /\ \E a \in Requests : CompleteTour(a)
    \/ InSettings /\ \E a \in Requests : ReadRow(a)
    \/ InSettings /\ \E a \in Requests : Write(a)
    \/ InSettings /\ \E a \in Requests : ShowSaved(a)
    \/ InSettings /\ \E a \in Requests : SaveFails(a)

FeedSteps ==
    \/ InFeed /\ \E i \in {6, 7}, e \in News : Record(i, e)
    \/ InFeed /\ \E t \in {3} : RowsExpire(t)
    \/ InFeed /\ ReapActivityLog
    \/ InFeed /\ LoadInitial
    \/ InFeed /\ LoadMore
    \/ InFeed /\ ShowRows
    \/ InFeed /\ Connect
    \/ InFeed /\ Drop
    \/ InFeed /\ \E i \in {6, 7} : Ingest(i)

Next ==
    \/ VerticalSteps \/ ChatSteps \/ ExchangeSteps \/ FactorySteps \/ BackupSteps \/ DigestSteps
    \/ SetupSteps \/ TelegramSteps \/ SettingsSteps \/ FeedSteps
Spec == Init /\ [][Next]_vars

=============================================================================
