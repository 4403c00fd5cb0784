------------------------------ MODULE Settings ------------------------------
(* The Constitution: the one StateSettings row, its repository's update (read  *)
(* the row, merge, upsert) and those who write it: the page that sends its     *)
(* whole form, callers that send what they change (the API, the executor of    *)
(* the Parliament) and the first-run tour. What the page asks for travels back *)
(* while others write: it shows an answer when it comes.                       *)
EXTENDS Naturals, FiniteSets

CONSTANTS
    Admin,      \* who may configure: the page, request and tour of each
    Scalar,     \* columns written directly
    Rule,       \* keys of the column governanceRules
    InForm,     \* scalars and rules that the page shows and sends
    Value, Unset,
    AsShown,    \* what the form makes of a value: "*" becomes the list of all keys
    MaxCalls    \* bound: requests sent

\* Columns, keys of governanceRules and keys of extras are distinct names; a form
\* shows a list as it is.
SettingsConstants ==
    /\ Scalar \cap Rule = {} /\ (Scalar \cup Rule) \cap Admin = {}
    /\ InForm \subseteq Scalar \cup Rule /\ InForm # {} /\ Unset \in Value
    /\ AsShown \in [Value -> Value] /\ \A v \in Value : AsShown[AsShown[v]] = AsShown[v]
    /\ MaxCalls \in Nat

VARIABLES
    decree,  \* StateSettings
    form,    \* what the page of each administrator shows
    edited,  \* the fields of it that the administrator changed since it was shown
    answer,  \* the answer to GET on its way to the page
    saving,  \* the request of each: an update, or its answer on its way
    chosen,  \* ghost: what somebody last decided for each field
    exposed, \* ghost: who held an older copy of the field at that time
    calls

settingsVars == <<decree, form, edited, answer, saving, chosen, exposed, calls>>
onPage == <<form, edited, answer>>
inRow == <<decree, chosen, exposed>>

Mark == Admin  \* keys of the column extras: who has completed the tour
Field == Scalar \cup Rule \cup Mark
NoForm == [f \in {} |-> Unset]
NoSave == [pc |-> "idle"]

SettingsInit ==
    /\ decree = [f \in Field |-> IF f \in Mark THEN FALSE ELSE Unset]
    /\ form = [a \in Admin |-> NoForm] /\ edited = [a \in Admin |-> {}]
    /\ answer = [a \in Admin |-> NoForm] /\ saving = [a \in Admin |-> NoSave]
    /\ chosen = decree /\ exposed = [f \in Field |-> {}] /\ calls = 0

Part(fields) == [f \in fields |-> decree[f]]

-----------------------------------------------------------------------------
Shown == {AsShown[v] : v \in Value}
ToForm(settings) == [f \in InForm |-> AsShown[settings[f]]]

Call == calls < MaxCalls /\ calls' = calls + 1

\* reload: GET /api/state/constitution, on opening the page or refreshing it. Only
\* a load under way disables the button: it may overlap a save.
ReadSettings(a) ==
    /\ answer[a] = NoForm /\ answer' = [answer EXCEPT ![a] = ToForm(decree)] /\ Call
    /\ UNCHANGED <<inRow, form, edited, saving>>

Show(a, shown) == form' = [form EXCEPT ![a] = shown] /\ edited' = [edited EXCEPT ![a] = {}]

\* Its answer comes, or an error, which closes the form.
ShowSettings(a) ==
    /\ answer[a] # NoForm /\ answer' = [answer EXCEPT ![a] = NoForm]
    /\ Show(a, answer[a]) \/ Show(a, NoForm)
    /\ UNCHANGED <<inRow, saving, calls>>

\* A field is changed in the form: once before the form is shown anew, a bound.
ChangeField(a, f, v) ==
    /\ f \in DOMAIN form[a] \ edited[a] /\ v \in Shown \ {form[a][f]}
    /\ form' = [form EXCEPT ![a][f] = v] /\ edited' = [edited EXCEPT ![a] = @ \cup {f}]
    /\ UNCHANGED <<inRow, answer, saving, calls>>

\* service.update: get for the event, which writes nothing, then the repository.
SendPatch(a, patch, fields) ==
    /\ saving[a] = NoSave /\ Call
    /\ saving' = [saving EXCEPT ![a] = [pc |-> "read", patch |-> patch, choice |-> fields]]
    /\ UNCHANGED <<inRow, onPage>>

\* onSubmit: every field goes into the patch as the form has it.
Submit(a) == edited[a] # {} /\ SendPatch(a, form[a], edited[a])

\* A PATCH of one field, or the execution of a proposal.
Patch(a, f, v) == SendPatch(a, [g \in {f} |-> v], {f})

\* A PATCH of the column extras, which it replaces as a whole.
PatchExtras(a, marks) == SendPatch(a, marks, Mark)

\* The tour reads the row, adds its user and sends the column extras whole.
CompleteTour(a) ==
    /\ ~ decree[a] /\ SendPatch(a, [m \in Mark |-> IF m = a THEN TRUE ELSE decree[m]], {a})

\* findUnique: the rules as they are, to merge the patch into.
ReadRow(a) ==
    /\ saving[a].pc = "read"
    /\ saving' = [saving EXCEPT ![a] = [pc |-> "write", patch |-> @.patch, choice |-> @.choice,
                                  rules |-> Part(Rule)]]
    /\ UNCHANGED <<inRow, onPage, calls>>

\* Faulty variant: the column takes the patch alone, the other rules are defaults.
Replaced(f, rules) == Unset
Kept(f, rules) == rules[f]

\* What the upsert writes to a field: columns that the patch names, and the rules
\* as a whole if it names one of them.
Merged(f, q) ==
    IF f \in DOMAIN q.patch THEN q.patch[f]
    ELSE IF f \in Rule /\ DOMAIN q.patch \cap Rule # {} THEN Kept(f, q.rules)
    ELSE decree[f]

\* Copies that may still be written back unasked: a page's, or one on its way to it,
ShowsCopy(b, f) == f \in (DOMAIN form[b] \ edited[b]) \cup DOMAIN answer[b]

\* one that a request sends, keeps in the rules it read, or was answered.
SendsCopy(b, f) ==
    LET q == saving[b] IN
    \/ q.pc = "answer" /\ f \in InForm
    \/ q.pc \in {"read", "write"} /\ f \in DOMAIN q.patch \ q.choice
    \/ q.pc = "write" /\ f \in Rule /\ DOMAIN q.patch \cap Rule # {}

\* The upsert. The page, which alone sends the fields of the form, awaits the row that
\* it returns.
Write(a) ==
    LET q == saving[a] IN
    /\ q.pc = "write"
    /\ decree' = [f \in Field |-> Merged(f, q)]
    /\ saving' = [saving EXCEPT ![a] = IF DOMAIN q.patch = InForm THEN [pc |-> "answer", row |-> ToForm(decree')]
                                      ELSE NoSave]
    /\ chosen' = [f \in Field |-> IF f \in q.choice THEN q.patch[f] ELSE chosen[f]]
    /\ exposed' = [f \in Field |-> IF f \in q.choice
                     THEN {b \in Admin : ShowsCopy(b, f) \/ (b # a /\ SendsCopy(b, f))} ELSE exposed[f]]
    /\ UNCHANGED <<onPage, calls>>

\* The page shows that row in place of the form, unless the answer is lost.
ShowSaved(a) ==
    /\ saving[a].pc = "answer" /\ saving' = [saving EXCEPT ![a] = NoSave]
    /\ Show(a, saving[a].row) \/ UNCHANGED <<form, edited>>
    /\ UNCHANGED <<inRow, answer, calls>>

\* A request that fails writes nothing, and the form stays as it is.
SaveFails(a) ==
    /\ saving[a].pc \in {"read", "write"} /\ saving' = [saving EXCEPT ![a] = NoSave]
    /\ UNCHANGED <<inRow, onPage, calls>>

SettingsNext == \E a \in Admin :
    \/ ReadSettings(a) \/ ShowSettings(a) \/ Submit(a) \/ CompleteTour(a) \/ ReadRow(a) \/ Write(a)
    \/ ShowSaved(a) \/ SaveFails(a)
    \/ \E f \in Scalar \cup Rule, v \in Value : ChangeField(a, f, v) \/ Patch(a, f, v)
    \/ \E marks \in [Mark -> BOOLEAN] : PatchExtras(a, marks)

SettingsSpec == SettingsInit /\ [][SettingsNext]_settingsVars

-----------------------------------------------------------------------------
\* What somebody last decided for a field stands, be it the Sovereign's edit, a
\* decision of the Parliament or the end of a tour: it can be undone unasked only by
\* a page that was open on it or was being sent it, or a request carrying it, when it
\* was written; a page of any time writes a value back the way it shows it. No page
\* carries a rule that is not in its form, nor the mark of a tour.
EditsSurvive ==
    \A f \in Field : decree[f] # chosen[f] =>
        exposed[f] # {} \/ (f \in InForm /\ decree[f] = AsShown[chosen[f]])
=============================================================================
