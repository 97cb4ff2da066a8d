--------------------------- MODULE RuntimeConfig ---------------------------
(***************************************************************************)
(* Where the settings live: app/runtime.py with utils/config.py and        *)
(* core/identity.py.  The process works on one live configuration.  Two    *)
(* yaml files, which people also edit by hand, hold the owners and the     *)
(* persona; a row of Postgres holds the rest; the adapters and the graphs  *)
(* hold what they were last built with.  The console changes all of them.  *)
(*                                                                         *)
(* A handler keeps the event loop until it awaits the database.  The hands *)
(* that edit the files are no task of the loop: an edit may land between   *)
(* any two reads.  Modification times are only ever compared for equality, *)
(* so that the model keeps whether the recorded stamp is the files'.       *)
(***************************************************************************)
EXTENDS Naturals, FiniteSets

CONSTANTS
    Updates,        \* slots for the console's requests to the settings row
    Users,          \* platform and user_id of the people who write
    BuiltinOwners,  \* BUILTIN_OWNERS: the console and the terminal client
    Cards,          \* what person.yaml may hold
    DefaultCard,    \* PersonaSettings()
    Tokens,         \* secrets somebody may type
    Ports,          \* where the server may listen
    NoToken, Mask,  \* no secret; what mask_secret shows of one
    Keep,           \* a field that a request leaves out, or leaves blank
    Missing,        \* no such file
    Broken,         \* a file that yaml refuses
    NoRow,
    SysEnabled,     \* whether sys.yaml enables the platform
    SysPort         \* the port of sys.yaml or the environment

(* policy stands for the fields of identity.yaml other than the owners.    *)
Identities == [owners : SUBSET Users, policy : BOOLEAN]
Secrets == Tokens \cup {NoToken}
(* enabled stands for the plain fields of the sections llm, napcat, tui    *)
(* and agent and for log_level, token for the secrets of the sections.     *)
(* port stands for host and port, which the row does not keep.             *)
Sections == [enabled : BOOLEAN, token : Secrets \cup {Mask}]
AppConfig == [sections : Sections, card : Cards, port : Ports]
Rows == [sections : Sections, card : Cards]
Patches == [enabled : BOOLEAN \cup {Keep}, token : Secrets \cup {Mask, Keep},
            card : Cards \cup {Keep}, port : Ports \cup {Keep}]
(* What LUOPITA_* variables name: Keep and NoToken where they are not set. *)
Environments == [enabled : BOOLEAN \cup {Keep}, token : Secrets]

ASSUME RuntimeAssumption ==
    /\ BuiltinOwners \subseteq Users
    /\ DefaultCard \in Cards
    /\ NoToken \notin Tokens
    /\ Mask \notin Secrets
    /\ Keep \notin BOOLEAN \cup Secrets \cup {Mask} \cup Cards \cup Ports
    /\ {Missing, Broken} \cap (Identities \cup Cards) = {}
    /\ Missing # Broken
    /\ NoRow \notin Rows
    /\ SysEnabled \in BOOLEAN /\ SysPort \in Ports
    /\ Updates \cap {"turn", "console"} = {}

VARIABLES
    phase,         \* "down", "starting" until start() has returned, or "up"
    identityFile,  \* identity.yaml
    personaFile,   \* person.yaml
    stamped,       \* _settings_stamp equals the files' modification times
    identity,      \* IdentityStore.settings
    config,        \* Runtime.config
    row,           \* the row of bot_settings
    env,           \* the environment of the process
    built,         \* what adapters, graphs and orchestrator were given
    reading,       \* where sync_disk_settings is
    reader,        \* who called it
    touched,       \* a file changed since that call
    flight,        \* where each request to the row is
    payload,       \* the row it writes, NoRow when it writes none
    \* History: never read by the actions.
    raced,         \* an edit fell between a read and the stamp after it
    failed,        \* a request raised after it had changed the configuration
    overlapped,    \* two requests were on their way at once
    unsaved        \* the card in memory is newer than its file, which would
                   \* not be written

files == <<identityFile, personaFile>>
live == <<identity, config, built>>
sync == <<reading, reader>>
requests == <<flight, payload>>
history == <<raced, failed, overlapped, unsaved>>
vars == <<phase, files, stamped, live, row, env, sync, touched, requests, history>>

TypeOK ==
    /\ phase \in {"down", "starting", "up"}
    /\ identityFile \in Identities \cup {Missing, Broken}
    /\ personaFile \in Cards \cup {Missing, Broken}
    /\ identity \in Identities
    /\ config \in AppConfig
    /\ row \in Rows \cup {NoRow}
    /\ env \in Environments
    /\ built \in Sections
    /\ reading \in {"no", "identity", "persona", "stamp"}
    /\ reader \in Updates \cup {"turn", "console"}
    /\ flight \in [Updates -> {"none", "reading", "putting", "written"}]
    /\ payload \in [Updates -> Rows \cup {NoRow}]
    /\ {stamped, touched, raced, failed, overlapped, unsaved} \subseteq BOOLEAN

(* The event loop is not in the middle of sync_disk_settings.              *)
Idle == reading = "no"
Serving == phase = "up" /\ Idle

-----------------------------------------------------------------------------
(* Reading and merging.                                                    *)

(* ensure_builtin_owners.                                                  *)
Ensured(i) == [i EXCEPT !.owners = @ \cup BuiltinOwners]

(* What an empty identity.yaml says.                                       *)
NoOwners == [owners |-> {}, policy |-> TRUE]

(* Mutant: load takes the owners as the file has them.                     *)
LoadedIdentityAsWritten(f) == IF f = Missing THEN Ensured(NoOwners) ELSE f

(* IdentityStore.load of a file that can be read.                          *)
LoadedIdentity(f) == Ensured(IF f = Missing THEN NoOwners ELSE f)

(* load_persona.                                                           *)
LoadedCard(f) == IF f = Missing THEN DefaultCard ELSE f

(* Mutant: only a blank secret is left as it is.                           *)
MergedTokenMasked(old, new) == IF new \in {Keep, NoToken} THEN old ELSE new

(* _merge_section: a secret that is blank or masked is left as it is.      *)
MergedToken(old, new) == IF new \in {Keep, NoToken, Mask} THEN old ELSE new

(* Mutant: a field left out is merged like any other.                     *)
MergedFieldUnguarded(old, new) == new

MergedField(old, new) == IF new = Keep THEN old ELSE new

Merged(c, p) ==
    [sections |-> [enabled |-> MergedField(c.sections.enabled, p.enabled),
                   token |-> MergedToken(c.sections.token, p.token)],
     card |-> MergedField(c.card, p.card),
     port |-> MergedField(c.port, p.port)]

(* runtime_payload: what of the configuration goes into the row.           *)
RuntimePayload(c) == [sections |-> c.sections, card |-> c.card]

(* _from_flat_yaml of sys.yaml, where the secrets are left blank.          *)
SysSections == [enabled |-> SysEnabled, token |-> NoToken]

(* apply_env_overrides.                                                    *)
Overridden(s, e) ==
    [enabled |-> IF e.enabled = Keep THEN s.enabled ELSE e.enabled,
     token |-> IF e.token = NoToken THEN s.token ELSE e.token]

(* load_config, then merge_runtime_settings; the environment goes on top.  *)
BootSections(r, e) == Overridden(IF r = NoRow THEN SysSections ELSE r.sections, e)

(* What there is before the row and the files have been read.              *)
BuiltinIdentity == [owners |-> BuiltinOwners, policy |-> TRUE]
BareConfig(e) ==
    [sections |-> BootSections(NoRow, e), card |-> DefaultCard, port |-> SysPort]

(* _restore_persona_from_store: a card of the row replaces the default.    *)
BootCard(f, r) ==
    IF LoadedCard(f) = DefaultCard /\ r # NoRow THEN r.card ELSE LoadedCard(f)

-----------------------------------------------------------------------------
(* Hands on the files.  Between a read and the stamp that follows it an    *)
(* edit goes unseen; start() reads both files early and stamps last.       *)

HandEditIdentity(f) ==
    /\ f # identityFile
    /\ identityFile' = f
    /\ stamped' = FALSE
    /\ touched' = ~Idle
    /\ raced' = (raced \/ phase = "starting" \/ reading \in {"persona", "stamp"})
    /\ UNCHANGED <<phase, personaFile, live, row, env, sync, requests, failed, overlapped, unsaved>>

HandEditPersona(f) ==
    /\ f # personaFile
    /\ personaFile' = f
    /\ stamped' = FALSE
    /\ touched' = ~Idle
    /\ raced' = (raced \/ phase = "starting" \/ reading = "stamp")
    /\ UNCHANGED <<phase, identityFile, live, row, env, sync, requests, failed, overlapped, unsaved>>

-----------------------------------------------------------------------------
(* sync_disk_settings, a stretch of the event loop.                        *)

BeginSync(who) ==
    /\ reading' = "identity"
    /\ reader' = who
    /\ touched' = FALSE
    /\ raced' = FALSE

EndSync == reading' = "no" /\ reader' = "turn" /\ touched' = FALSE

(* get_config, called by a turn, a scheduled one as early as start().      *)
Turn ==
    /\ phase # "down" /\ Idle
    /\ ~stamped
    /\ BeginSync("turn")
    /\ UNCHANGED <<phase, files, stamped, live, row, env, requests, failed, overlapped, unsaved>>

(* GET /api/config, /api/persona and /api/identity.                        *)
ConsoleReads ==
    /\ Serving
    /\ BeginSync("console")
    /\ UNCHANGED <<phase, files, stamped, live, row, env, requests, failed, overlapped, unsaved>>

(* IdentityStore.load, which writes the file when there is none.           *)
ReadIdentity ==
    /\ reading = "identity"
    /\ identityFile # Broken
    /\ identity' = LoadedIdentity(identityFile)
    /\ IF identityFile = Missing
         THEN identityFile' = identity' /\ stamped' = FALSE /\ touched' = TRUE
         ELSE UNCHANGED <<identityFile, stamped, touched>>
    /\ reading' = "persona"
    /\ UNCHANGED <<phase, personaFile, config, built, row, env, reader, requests, history>>

ReadPersona ==
    /\ reading = "persona"
    /\ personaFile # Broken
    /\ config' = [config EXCEPT !.card = LoadedCard(personaFile)]
    /\ unsaved' = FALSE
    /\ reading' = "stamp"
    /\ UNCHANGED <<phase, files, stamped, identity, built, row, env, reader, touched,
                   requests, raced, failed, overlapped>>

(* _touch_settings_stamp; apply_update goes on to the database.            *)
Touch ==
    /\ reading = "stamp"
    /\ stamped' = TRUE
    /\ EndSync
    /\ IF reader \in Updates
         THEN /\ flight' = [flight EXCEPT ![reader] = "putting"]
              /\ payload' = [payload EXCEPT ![reader] = RuntimePayload(config)]
         ELSE UNCHANGED requests
    /\ UNCHANGED <<phase, files, live, row, env, history>>

(* A file that cannot be read, or an identity.yaml that cannot be created. *)
(* get_config takes the stamp it saw first and goes on with what it has;   *)
(* the other callers answer with an error.  start() has read the files     *)
(* before they came to this.                                               *)
ReadFails ==
    /\ \/ /\ \/ reading = "identity" /\ identityFile = Broken
             \/ reading = "persona" /\ personaFile = Broken
          /\ UNCHANGED <<identityFile, identity>>
       \/ /\ reading = "identity" /\ identityFile = Missing
          /\ identity' = LoadedIdentity(identityFile)
          /\ identityFile' \in {Missing, Broken, NoOwners}
    /\ EndSync
    /\ stamped' = /\ identityFile' = identityFile
                  /\ IF reader = "turn" THEN ~touched ELSE stamped
    /\ IF reader \in Updates
         THEN flight' = [flight EXCEPT ![reader] = "none"] /\ failed' = TRUE
         ELSE UNCHANGED <<flight, failed>>
    /\ raced' = (raced \/ phase = "starting")
    /\ UNCHANGED <<phase, personaFile, config, built, row, env, payload, overlapped, unsaved>>

-----------------------------------------------------------------------------
(* The console's requests.                                                 *)

Busy(u) == flight[u] # "none"

NotesOverlap(u) == overlapped' = (\E v \in Updates \ {u} : Busy(v))

Answered(u) ==
    /\ flight' = [flight EXCEPT ![u] = "none"]
    /\ payload' = [payload EXCEPT ![u] = NoRow]

(* apply_update without a persona: the files are read, then the row is     *)
(* written.  The configuration has changed before either.                  *)
PutConfig(u, p) ==
    /\ Serving /\ ~Busy(u)
    /\ p.card = Keep
    /\ config' = Merged(config, p)
    /\ BeginSync(u)
    /\ flight' = [flight EXCEPT ![u] = "reading"]
    /\ NotesOverlap(u)
    /\ UNCHANGED <<phase, files, stamped, identity, built, row, env, payload, failed, unsaved>>

(* Mutant: saving the card stamps both files.                              *)
PutPersonaStamping(u, p) ==
    /\ Serving /\ ~Busy(u)
    /\ p.card # Keep
    /\ config' = Merged(config, p)
    /\ personaFile' = config'.card
    /\ stamped' = TRUE
    /\ flight' = [flight EXCEPT ![u] = "putting"]
    /\ payload' = [payload EXCEPT ![u] = RuntimePayload(config')]
    /\ NotesOverlap(u)
    /\ unsaved' = FALSE
    /\ UNCHANGED <<phase, identityFile, identity, built, row, env, sync, touched, raced, failed>>

(* apply_update with a persona: the whole card goes to the file, whatever  *)
(* the file holds by now.                                                  *)
PutPersona(u, p) ==
    /\ Serving /\ ~Busy(u)
    /\ p.card # Keep
    /\ config' = Merged(config, p)
    /\ personaFile' = config'.card
    /\ stamped' = FALSE
    /\ flight' = [flight EXCEPT ![u] = "putting"]
    /\ payload' = [payload EXCEPT ![u] = RuntimePayload(config')]
    /\ NotesOverlap(u)
    /\ unsaved' = FALSE
    /\ UNCHANGED <<phase, identityFile, identity, built, row, env, sync, touched, raced, failed>>

(* save_persona raises: the configuration has changed all the same, the    *)
(* file is as it was or, written in place, cut short or empty.             *)
PersonaNotSaved(u, p) ==
    /\ Serving /\ ~Busy(u)
    /\ p.card # Keep
    /\ config' = Merged(config, p)
    /\ \/ UNCHANGED <<personaFile, stamped>>
       \/ personaFile' \in {Broken, Missing} /\ stamped' = FALSE
    /\ NotesOverlap(u)
    /\ failed' = TRUE
    /\ unsaved' = TRUE
    /\ UNCHANGED <<phase, identityFile, identity, built, row, env, sync, touched, requests,
                   raced>>

(* Mutant: the row is composed before the switch.                          *)
TogglePlatformStale(u, on) ==
    /\ Serving /\ ~Busy(u)
    /\ config' = [config EXCEPT !.sections.enabled = on]
    /\ flight' = [flight EXCEPT ![u] = "putting"]
    /\ payload' = [payload EXCEPT ![u] = RuntimePayload(config)]
    /\ NotesOverlap(u)
    /\ UNCHANGED <<phase, files, stamped, identity, built, row, env, sync, touched, raced, failed,
                   unsaved>>

(* toggle_platform, with the platform's new state or the opposite of the   *)
(* one it has.                                                             *)
TogglePlatform(u, on) ==
    /\ Serving /\ ~Busy(u)
    /\ config' = [config EXCEPT !.sections.enabled = on]
    /\ flight' = [flight EXCEPT ![u] = "putting"]
    /\ payload' = [payload EXCEPT ![u] = RuntimePayload(config')]
    /\ NotesOverlap(u)
    /\ UNCHANGED <<phase, files, stamped, identity, built, row, env, sync, touched, raced, failed,
                   unsaved>>

(* put_settings commits.                                                   *)
RowWritten(u) ==
    /\ flight[u] = "putting"
    /\ row' = payload[u]
    /\ flight' = [flight EXCEPT ![u] = "written"]
    /\ UNCHANGED <<phase, files, stamped, live, env, sync, touched, payload, history>>

(* Mutant: rebuild with what this request wrote.                           *)
RebuildFromRow(u) ==
    /\ Idle
    /\ flight[u] = "written"
    /\ built' = payload[u].sections
    /\ failed' = FALSE
    /\ Answered(u)
    /\ UNCHANGED <<phase, files, stamped, identity, config, row, env, sync, touched, raced,
                   overlapped, unsaved>>

(* rebuild: adapters, graphs and orchestrator get the configuration of now.*)
Rebuild(u) ==
    /\ Idle
    /\ flight[u] = "written"
    /\ built' = config.sections
    /\ failed' = FALSE
    /\ Answered(u)
    /\ UNCHANGED <<phase, files, stamped, identity, config, row, env, sync, touched, raced,
                   overlapped, unsaved>>

(* put_settings raises, before or after the commit.                        *)
PutFails(u) ==
    /\ Idle
    /\ flight[u] \in {"putting", "written"}
    /\ failed' = TRUE
    /\ Answered(u)
    /\ UNCHANGED <<phase, files, stamped, live, row, env, sync, touched, raced, overlapped,
                   unsaved>>

(* PUT /api/identity: the settings in memory with the fields of the        *)
(* request, over whatever the file holds by now.                           *)
PutIdentity(owners, policy) ==
    /\ Serving
    /\ identity' = Ensured([owners |-> MergedField(identity.owners, owners),
                            policy |-> MergedField(identity.policy, policy)])
    /\ identityFile' = identity'
    /\ stamped' = FALSE
    /\ UNCHANGED <<phase, personaFile, config, built, row, env, sync, touched, requests, history>>

(* save raises: the settings in memory are changed only after the file,    *)
(* which is cut short or empty when it is not as it was.                   *)
IdentityNotSaved ==
    /\ Serving
    /\ identityFile' \in {Broken, NoOwners}
    /\ stamped' = FALSE
    /\ UNCHANGED <<phase, personaFile, live, row, env, sync, touched, requests, history>>

-----------------------------------------------------------------------------
(* Start and end of the process.  A start that raises leaves a process     *)
(* that is down and files as hands may leave them.                         *)

Start ==
    /\ phase = "down"
    /\ Broken \notin {identityFile, personaFile}
    /\ phase' = "starting"
    /\ config' = [sections |-> BootSections(row, env), card |-> BootCard(personaFile, row),
                  port |-> SysPort]
    /\ identity' = LoadedIdentity(identityFile)
    /\ identityFile' = IF identityFile = Missing THEN identity' ELSE identityFile
    /\ personaFile' = IF config'.card = LoadedCard(personaFile) THEN personaFile ELSE config'.card
    /\ built' = config'.sections
    /\ UNCHANGED <<stamped, row, env, sync, touched, requests, history>>

(* The last step of start(), after the call that asks the platform for its *)
(* account.                                                                *)
Started ==
    /\ phase = "starting" /\ Idle
    /\ phase' = "up"
    /\ stamped' = TRUE
    /\ UNCHANGED <<files, live, row, env, sync, touched, requests, history>>

(* The process ends and its memory goes with it; the environment of the    *)
(* next one may be another.                                                *)
Stop(e) ==
    /\ phase # "down"
    /\ phase' = "down"
    /\ env' = e
    /\ identity' = BuiltinIdentity
    /\ config' = BareConfig(e)
    /\ built' = config'.sections
    /\ EndSync
    /\ flight' = [u \in Updates |-> "none"]
    /\ payload' = [u \in Updates |-> NoRow]
    /\ stamped' = FALSE
    /\ raced' = FALSE /\ failed' = FALSE /\ overlapped' = FALSE /\ unsaved' = FALSE
    /\ UNCHANGED <<files, row>>

-----------------------------------------------------------------------------
Init ==
    /\ phase = "down"
    /\ identityFile \in {Missing, NoOwners}
    /\ personaFile \in {Missing, DefaultCard}
    /\ row = NoRow
    /\ env \in Environments
    /\ identity = BuiltinIdentity
    /\ config = BareConfig(env)
    /\ built = config.sections
    /\ reading = "no" /\ reader = "turn"
    /\ flight = [u \in Updates |-> "none"]
    /\ payload = [u \in Updates |-> NoRow]
    /\ stamped = FALSE /\ touched = FALSE
    /\ raced = FALSE /\ failed = FALSE /\ overlapped = FALSE /\ unsaved = FALSE

HandEdit ==
    \/ \E f \in Identities \cup {Missing, Broken} : HandEditIdentity(f)
    \/ \E f \in Cards \cup {Missing, Broken} : HandEditPersona(f)

Request ==
    \E u \in Updates :
        \/ \E p \in Patches : PutConfig(u, p) \/ PutPersona(u, p) \/ PersonaNotSaved(u, p)
        \/ \E on \in BOOLEAN : TogglePlatform(u, on)

GrantOwners ==
    \/ \E owners \in (SUBSET Users) \cup {Keep}, policy \in BOOLEAN \cup {Keep} :
          PutIdentity(owners, policy)
    \/ IdentityNotSaved

Settle == \E u \in Updates : RowWritten(u) \/ Rebuild(u) \/ PutFails(u)

Sync == Turn \/ ConsoleReads \/ ReadIdentity \/ ReadPersona \/ Touch \/ ReadFails

End == \E e \in Environments : Stop(e)

Next == HandEdit \/ Request \/ GrantOwners \/ Settle \/ Sync \/ Start \/ Started \/ End

Spec == Init /\ [][Next]_vars

-----------------------------------------------------------------------------
(* Properties.                                                             *)

(* The console and the terminal client are owners whatever the file says,  *)
(* also when it was edited by hand, is gone, or cannot be read.            *)
ConsoleKeepsOwnership == phase # "down" => BuiltinOwners \subseteq identity.owners

(* What the console shows of a secret never becomes the secret, although   *)
(* the console sends back whole sections with what it was shown, and       *)
(* although a request may be older than the secret it blots out.           *)
NoMaskStored ==
    /\ Mask \notin {config.sections.token, built.token}
    /\ \A r \in {row} \cup {payload[u] : u \in Updates} : r # NoRow => r.sections.token # Mask

(* Adapters and graphs run on the settings that the console shows once     *)
(* every request has been answered, however the requests overlapped, with  *)
(* the exception of a request that failed halfway.                         *)
AdaptersFollow ==
    phase # "down" /\ ~failed /\ (\A u \in Updates : ~Busy(u)) => built = config.sections

(* A setting of the sections that was acknowledged is in the row, whence   *)
(* the next start takes it, unless requests overlapped or one failed       *)
(* since: then the row may hold the older of two.  What the environment    *)
(* named at the start may be in the configuration only; and a start takes  *)
(* what the environment names over what the row has.                       *)
RowKeepsUp ==
    phase # "down" /\ row # NoRow /\ ~failed /\ ~overlapped
      /\ (\A u \in Updates : ~Busy(u))
    => \/ row.sections = config.sections
       \/ Overridden(row.sections, env) = config.sections

(* A recorded stamp that matches the files means that both were read: no   *)
(* edit is overlooked, whichever handler wrote or stamped between, save    *)
(* one that fell between a read and the stamp after it.  The files are     *)
(* such as can be read, and an identity.yaml that is missing be created;   *)
(* and a card that could not be saved is in memory beside the older file.  *)
EditsPickedUp ==
    phase = "up" /\ Idle /\ stamped /\ ~raced
      /\ identityFile \notin {Missing, Broken} /\ personaFile # Broken
    => /\ identity = LoadedIdentity(identityFile)
       /\ unsaved \/ config.card = LoadedCard(personaFile)
=============================================================================
