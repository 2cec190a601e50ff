---------------------------- MODULE SettingsStore ----------------------------
(* The settings: a table of keys, and in every process a snapshot of it that *)
(* requests read.  Load fills in what the table lacks, Put writes one key    *)
(* and loads again, and editors merge what they send into what is stored.    *)
EXTENDS Clock, FiniteSets

CONSTANTS Process, Task,
          Secret,       \* keys, tokens and passwords, drawn or typed
          Plain,        \* the value of a field that is no secret
          Default,      \* its first value
          Broken,       \* JSON of another type than the field has
          Mask          \* what is shown instead of a secret, and sent back: no change

VARIABLES table,        \* the table settings
          snap,         \* M.cur of a process; None when it does not run
          signing,      \* the key a process signs ID tokens with
          task          \* starts, reloads and edits under way

setVars == <<table, snap, signing, task>>

Generated == {"admin_token", "master_key"}
Protected == Generated \cup {"oidc.keys"}               \* exportExcluded
Document == {"smtp", "support"}                         \* objects of two fields
SettingKey == Protected \cup Document

\* A section as it is stored, its secret one or still the default; and any row.
StoredDocument == [plain: Plain \cup {Broken}, secret: Secret \cup Plain]
SettingValue == Secret \cup StoredDocument \cup {None}

ASSUME SettingsAssumption ==
    /\ Secret # {} /\ Default \in Plain
    /\ Mask \notin {None, Broken} /\ {Mask, Broken} \cap (Secret \cup Plain) = {}
    /\ None \notin Process \cup Secret \cup StoredDocument
    /\ Mask \notin StoredDocument
    /\ None \notin [SettingKey -> SettingValue]

\* sort.Strings.
Order == <<"admin_token", "master_key", "oidc.keys", "smtp", "support">>
FirstOf(keys) == Order[CHOOSE i \in DOMAIN Order :
                           Order[i] \in keys /\ \A j \in 1 .. i - 1 : Order[j] \notin keys]

Blank == [plain |-> Default, secret |-> Default]        \* a document of defaults
Empty == [k \in SettingKey |-> None]
NoTask == [pc |-> "idle", p |-> None, kind |-> "none", todo |-> {}, sent |-> Empty,
           value |-> None, raw |-> Empty]

SettingsInit ==
    /\ now = 0
    /\ table = Empty
    /\ snap = [p \in Process |-> None]
    /\ signing = [p \in Process |-> None]
    /\ task = [t \in Task |-> NoTask]

Stage(t, pc) == task[t].pc = pc
Turn(t, pc) == task' = [task EXCEPT ![t].pc = pc]
Runs(p) == snap[p] # None
Serves(p) == signing[p] # None            \* its start is over

\* buildT: what does not parse is read as its default.
Parsed(v) == IF v = Broken THEN Default ELSE v
Snapshot(raw) == [k \in SettingKey |-> IF k \in Document THEN [raw[k] EXCEPT !.plain = Parsed(@)] ELSE raw[k]]

\* Masked: what an editor is shown, and sends back with what it has changed.
Shown(doc) == [doc EXCEPT !.secret = Mask]
Edited(doc) == {[plain |-> x, secret |-> y] : x \in {Shown(doc).plain, Broken} \cup Plain,
                                             y \in {Shown(doc).secret} \cup Secret}

\* Documents of the export of another server, whose secrets are in the clear.
Exported == [plain : Plain, secret : Secret]

\* mergeSettingMap: a masked field keeps what is stored.
Unmasked(cur, inc) == IF inc = Mask THEN cur ELSE inc
Merge(cur, inc) == [plain |-> Unmasked(cur.plain, inc.plain), secret |-> Unmasked(cur.secret, inc.secret)]

\* A random value is one that nobody has.
Held == UNION {{table[k], signing[p], task[t].value, task[t].raw[k]} \cup
                   (IF Runs(p) THEN {snap[p][k]} ELSE {}) : k \in SettingKey, p \in Process, t \in Task}
Drawn == CHOOSE s \in Secret : Secret \subseteq Held \/ s \notin Held

-----------------------------------------------------------------------------
(* What begins a task.                                                       *)

StartProcess(t, p) ==
    /\ Stage(t, "idle") /\ ~Runs(p) /\ \A u \in Task : task[u].p # p
    /\ task' = [task EXCEPT ![t] = [NoTask EXCEPT !.pc = "read", !.p = p, !.kind = "start"]]
    /\ UNCHANGED <<table, snap, signing>>

\* SIGHUP.
ReloadSignal(t, p) ==
    /\ Stage(t, "idle") /\ Serves(p)
    /\ task' = [task EXCEPT ![t] = [NoTask EXCEPT !.pc = "read", !.p = p, !.kind = "reload"]]
    /\ UNCHANGED <<table, snap, signing>>

\* Which keys of a body are written: PUT refuses the whole body for a protected
\* key with a value, an import passes it over.
Admitted(kind, sent) == kind = "import" \/ \A k \in Protected : sent[k] \in {None, Mask}
Changed(kind, sent) ==
    {k \in SettingKey : sent[k] \notin {None, Mask} /\ (kind = "import" => k \notin Protected)}

EditSettings(t, p, kind, sent) ==
    /\ Admitted(kind, sent)
    /\ task' = [task EXCEPT ![t] = [NoTask EXCEPT !.pc = "next", !.p = p, !.kind = kind,
                                    !.sent = sent, !.todo = Changed(kind, sent)]]
    /\ UNCHANGED <<table, snap, signing>>

\* PUT /settings, and the form of a section.
PutSettings(t, p) ==
    /\ Stage(t, "idle") /\ Serves(p)
    /\ \E master \in {None, Mask} \cup Secret, smtp \in {None, Mask} \cup Edited(snap[p]["smtp"]) :
          EditSettings(t, p, "put", [Empty EXCEPT !["master_key"] = master, !["smtp"] = smtp])

\* POST /settings/import.
ImportSettings(t, p) ==
    /\ Stage(t, "idle") /\ Serves(p)
    /\ \E master \in {None} \cup Secret, smtp, support \in {None} \cup Exported :
          EditSettings(t, p, "import", [Empty EXCEPT !["master_key"] = master, !["smtp"] = smtp,
                                                     !["support"] = support])

\* A new admin_token.
Regenerate(t, p) ==
    /\ Stage(t, "idle") /\ Serves(p)
    /\ task' = [task EXCEPT ![t] = [NoTask EXCEPT !.pc = "write", !.p = p, !.value = Drawn,
                                    !.kind = "regenerate", !.todo = {"admin_token"}]]
    /\ UNCHANGED <<table, snap, signing>>

\* save_settings of the support page: the document of the snapshot, edited.
SaveSupport(t, p, plain) ==
    /\ Stage(t, "idle") /\ Serves(p)
    /\ task' = [task EXCEPT ![t] = [NoTask EXCEPT !.pc = "write", !.p = p, !.kind = "support",
                                    !.todo = {"support"},
                                    !.value = [snap[p]["support"] EXCEPT !.plain = plain]]]
    /\ UNCHANGED <<table, snap, signing>>

-----------------------------------------------------------------------------
(* Its steps, each one query.                                                *)

\* mergedValue reads the row; an import takes the value as it is.
MergeValue(t) ==
    LET k == FirstOf(task[t].todo)
        inc == task[t].sent[k]
    IN /\ Stage(t, "next") /\ task[t].todo # {}
       /\ task' = [task EXCEPT ![t].pc = "write",
              ![t].value = IF task[t].kind = "put" /\ table[k] # None THEN Merge(table[k], inc) ELSE inc]
       /\ UNCHANGED <<table, snap, signing>>

\* The last reload of an import; the other edits have made theirs.
EditEnds(t) ==
    /\ Stage(t, "next") /\ task[t].todo = {}
    /\ task' = [task EXCEPT ![t] = IF task[t].kind = "import"
                                   THEN [NoTask EXCEPT !.pc = "read", !.p = task[t].p, !.kind = "reload"]
                                   ELSE NoTask]
    /\ UNCHANGED <<table, snap, signing>>

\* Put: the row, then Reload.
Put(t) ==
    LET k == FirstOf(task[t].todo)
    IN /\ Stage(t, "write")
       /\ table' = [table EXCEPT ![k] = task[t].value]
       /\ task' = [task EXCEPT ![t].pc = "read", ![t].todo = @ \ {k}]
       /\ UNCHANGED <<snap, signing>>

ReadAll(t) ==
    /\ Stage(t, "read")
    /\ task' = [task EXCEPT ![t].pc = "fill", ![t].raw = table]
    /\ UNCHANGED <<table, snap, signing>>

\* The default of oidc.keys is null, a row that says nothing.
Missing(t) == {k \in SettingKey \ {"oidc.keys"} : task[t].raw[k] = None}

\* INSERT ... ON CONFLICT DO NOTHING RETURNING: the value stored, or nothing when
\* another process was first.
Overwritten(k, v) == v          \* mistake: DO UPDATE
Inserted(k, v) == IF table[k] = None THEN v ELSE table[k]
Returned(k, v) == IF table[k] = None THEN v ELSE None

FillMissing(t) ==
    LET k == FirstOf(Missing(t))
        v == IF k \in Generated THEN Drawn ELSE Blank
    IN /\ Stage(t, "fill") /\ Missing(t) # {}
       /\ table' = [table EXCEPT ![k] = Inserted(k, v)]
       /\ task' = [task EXCEPT ![t].raw[k] = Returned(k, v),
                               ![t].pc = IF Returned(k, v) = None THEN "select" ELSE "fill"]
       /\ UNCHANGED <<snap, signing>>

SelectStored(t) ==
    LET k == FirstOf(Missing(t))
    IN /\ Stage(t, "select")
       /\ task' = [task EXCEPT ![t].raw[k] = table[k], ![t].pc = "fill"]
       /\ UNCHANGED <<table, snap, signing>>

\* cur.Store.  A start goes on to oidc.NewManager; Put is over and an edit takes
\* its next key.
Publish(t) ==
    LET q == task[t]
    IN /\ Stage(t, "fill") /\ Missing(t) = {}
       /\ snap' = [snap EXCEPT ![q.p] = Snapshot(q.raw)]
       /\ task' = [task EXCEPT ![t] = CASE q.kind \in {"start", "sign"} -> [q EXCEPT !.pc = "sign"]
                                        [] q.kind \in {"put", "import"} -> [q EXCEPT !.pc = "next", !.raw = Empty,
                                                                                     !.value = None]
                                        [] OTHER -> NoTask]
       /\ UNCHANGED <<table, signing>>

\* NewManager: the key of the snapshot, or one of its own, stored and used.
SigningKey(t) ==
    LET q == task[t]
        found == q.raw["oidc.keys"]
    IN /\ Stage(t, "sign")
       /\ \/ /\ q.kind = "start" /\ found = None
             /\ task' = [task EXCEPT ![t] = [q EXCEPT !.pc = "write", !.kind = "sign", !.value = Drawn,
                                                      !.todo = {"oidc.keys"}]]
             /\ UNCHANGED signing
          \/ /\ q.kind = "sign" \/ found # None
             /\ signing' = [signing EXCEPT ![q.p] = IF q.kind = "sign" THEN q.value ELSE found]
             /\ task' = [task EXCEPT ![t] = NoTask]
       /\ UNCHANGED <<table, snap>>

\* An error of the database ends the task where it is; a start ends its process.
TaskFails(t) ==
    LET q == task[t]
    IN /\ ~Stage(t, "idle")
       /\ task' = [task EXCEPT ![t] = NoTask]
       /\ snap' = IF q.kind \in {"start", "sign"} THEN [snap EXCEPT ![q.p] = None] ELSE snap
       /\ UNCHANGED <<table, signing>>

ProcessDies(p) ==
    /\ Runs(p)
    /\ snap' = [snap EXCEPT ![p] = None]
    /\ signing' = [signing EXCEPT ![p] = None]
    /\ task' = [t \in Task |-> IF task[t].p = p THEN NoTask ELSE task[t]]
    /\ UNCHANGED table

SettingsNext ==
    /\ \/ \E t \in Task, p \in Process :
             \/ StartProcess(t, p) \/ ReloadSignal(t, p) \/ Regenerate(t, p)
             \/ \E plain \in Plain : SaveSupport(t, p, plain)
             \/ PutSettings(t, p) \/ ImportSettings(t, p)
       \/ \E t \in Task : \/ MergeValue(t) \/ EditEnds(t) \/ Put(t) \/ ReadAll(t) \/ FillMissing(t)
                          \/ SelectStored(t) \/ Publish(t) \/ SigningKey(t) \/ TaskFails(t)
       \/ \E p \in Process : ProcessDies(p)
    /\ UNCHANGED now

-----------------------------------------------------------------------------
(* Properties.                                                               *)

\* master_key, which deciphers every stored factor, is one: whatever processes
\* start together, fail between two rows, or import the settings of another
\* server, each runs with the key of the table.  And a mask that an editor sends
\* back is never stored for a value.
SecretsKept ==
    /\ \A p \in Process : Runs(p) => snap[p]["master_key"] \in Secret
                                      /\ snap[p]["master_key"] = table["master_key"]
    /\ \A k \in SettingKey : /\ table[k] # Mask
                      /\ k \in Document /\ table[k] # None =>
                             Mask \notin {table[k].plain, table[k].secret}
=============================================================================
