------------------------ MODULE RuntimeConfigProofs ------------------------
(***************************************************************************)
(* The invariants of RuntimeConfig, for any number of requests, users,     *)
(* cards and secrets.                                                      *)
(***************************************************************************)
EXTENDS RuntimeConfig, TLAPS

(* Nothing is on its way in a process that is down, and a request that is  *)
(* reading the files is the one that sync_disk_settings works for.         *)
LoopInv ==
    /\ phase = "down" => Idle /\ \A u \in Updates : ~Busy(u)
    /\ ~Idle /\ reader \in Updates => flight[reader] = "reading"

(* Unless it is noted that two overlapped, at most one request is on its   *)
(* way; what it is putting is the configuration of now, and what it has    *)
(* put is in the row.                                                      *)
AloneInv ==
    ~overlapped => \A u \in Updates :
       /\ \A v \in Updates : Busy(u) /\ Busy(v) => u = v
       /\ flight[u] = "putting" => payload[u] # NoRow /\ payload[u].sections = config.sections
       /\ flight[u] = "written" => row # NoRow /\ row.sections = config.sections

(* What sync_disk_settings has read so far is what the files hold, unless  *)
(* an edit raced with it; and what start() has read, too.                  *)
IdentityRead == identityFile # Broken /\ identity = LoadedIdentity(identityFile)
PersonaRead == personaFile # Broken /\ config.card = LoadedCard(personaFile)

FilesInv ==
    ~raced =>
      /\ reading \in {"persona", "stamp"} => IdentityRead
      /\ reading = "stamp" => PersonaRead
      /\ Idle /\ (phase = "starting" \/ (phase = "up" /\ stamped))
           /\ identityFile \notin {Missing, Broken} /\ personaFile # Broken
         => IdentityRead /\ (unsaved \/ PersonaRead)

-----------------------------------------------------------------------------
(***************************************************************************)
(* Types                                                                   *)
(***************************************************************************)

(* An identity.yaml that says nothing has its type.                        *)
LEMMA NoOwnersTyped == NoOwners \in Identities
<1>1. {} \in SUBSET Users
  OBVIOUS
<1> QED BY <1>1 DEF NoOwners, Identities

(* What is loaded has its type, and the builtin owners.                    *)
LEMMA LoadedTyped ==
    ASSUME NEW f \in Identities \cup {Missing}
    PROVE  /\ LoadedIdentity(f) \in Identities
           /\ BuiltinOwners \subseteq LoadedIdentity(f).owners
BY RuntimeAssumption DEF LoadedIdentity, Ensured, Identities, NoOwners

(* Reading once more what was read and saved changes nothing.              *)
LEMMA EnsuredLoads ==
    ASSUME NEW i \in Identities, BuiltinOwners \subseteq i.owners
    PROVE  LoadedIdentity(i) = i
BY RuntimeAssumption DEF LoadedIdentity, Ensured, Identities, NoOwners

(* A card that is loaded has its type.                                     *)
LEMMA CardTyped ==
    ASSUME NEW f \in Cards \cup {Missing}
    PROVE  LoadedCard(f) \in Cards
BY RuntimeAssumption DEF LoadedCard

(* A request that is merged gives a configuration.                         *)
LEMMA MergedTyped ==
    ASSUME NEW c \in AppConfig, NEW p \in Patches
    PROVE  Merged(c, p) \in AppConfig
<1>1. /\ p.enabled \in BOOLEAN \cup {Keep}
      /\ p.token \in Secrets \cup {Mask, Keep}
      /\ p.card \in Cards \cup {Keep}
      /\ p.port \in Ports \cup {Keep}
  BY DEF Patches
<1>2. c.sections \in Sections /\ c.card \in Cards /\ c.port \in Ports
  BY DEF AppConfig
<1>3. c.sections.enabled \in BOOLEAN /\ c.sections.token \in Secrets \cup {Mask}
  BY <1>2 DEF Sections
<1>4. /\ MergedField(c.sections.enabled, p.enabled) \in BOOLEAN
      /\ MergedToken(c.sections.token, p.token) \in Secrets \cup {Mask}
      /\ MergedField(c.card, p.card) \in Cards
      /\ MergedField(c.port, p.port) \in Ports
  BY <1>1, <1>2, <1>3 DEF MergedField, MergedToken
<1> QED BY <1>4 DEF Merged, AppConfig, Sections

(* What is put of a configuration is a row, with its sections.             *)
LEMMA PayloadTyped ==
    ASSUME NEW c \in AppConfig
    PROVE  RuntimePayload(c) \in Rows /\ RuntimePayload(c).sections = c.sections
BY DEF RuntimePayload, Rows, AppConfig

(* The sections a process starts with have their type.                     *)
LEMMA BootTyped ==
    ASSUME NEW r \in Rows \cup {NoRow}, NEW e \in Environments
    PROVE  BootSections(r, e) \in Sections
BY RuntimeAssumption DEF BootSections, Overridden, SysSections, Rows, Sections, Secrets, Environments

(* So has the card it starts with.                                         *)
LEMMA BootCardTyped ==
    ASSUME NEW f \in Cards \cup {Missing}, NEW r \in Rows \cup {NoRow}
    PROVE  BootCard(f, r) \in Cards
BY CardTyped DEF BootCard, Rows

(* And what it has before it read anything.                                *)
LEMMA BareTyped ==
    ASSUME NEW e \in Environments
    PROVE  BareConfig(e) \in AppConfig /\ BuiltinIdentity \in Identities
<1>1. BootSections(NoRow, e) \in Sections
  BY BootTyped
<1> QED BY <1>1, RuntimeAssumption DEF BareConfig, AppConfig, BuiltinIdentity, Identities

(* Every action keeps the types.                                           *)
LEMMA TypeStep == TypeOK /\ [Next]_vars => TypeOK'
<1> SUFFICES ASSUME TypeOK, [Next]_vars PROVE TypeOK'
  OBVIOUS
<1>1. ASSUME NEW f \in Identities \cup {Missing, Broken},
             HandEditIdentity(f)
      PROVE  TypeOK'
  BY <1>1, RuntimeAssumption DEF TypeOK, HandEditIdentity, live, sync, requests
<1>2. ASSUME NEW f \in Cards \cup {Missing, Broken},
             HandEditPersona(f)
      PROVE  TypeOK'
  BY <1>2, RuntimeAssumption DEF TypeOK, HandEditPersona, live, sync, requests
<1>3. ASSUME NEW u \in Updates, NEW p \in Patches,
             PutConfig(u, p)
      PROVE  TypeOK'
  BY <1>3, MergedTyped, RuntimeAssumption DEF TypeOK, PutConfig, Serving, BeginSync, NotesOverlap, files, Busy
<1>4. ASSUME NEW u \in Updates, NEW p \in Patches,
             PutPersona(u, p)
      PROVE  TypeOK'
  <2>1. config' \in AppConfig
    BY <1>4, MergedTyped DEF TypeOK, PutPersona
  <2>2. config'.card \in Cards
    BY <2>1 DEF AppConfig
  <2> QED
    BY <1>4, <2>1, <2>2, PayloadTyped, RuntimeAssumption DEF TypeOK, PutPersona, Serving, NotesOverlap, sync
<1>5. ASSUME NEW u \in Updates, NEW on \in BOOLEAN,
             TogglePlatform(u, on)
      PROVE  TypeOK'
  <2>1. config' \in AppConfig
    BY <1>5 DEF TypeOK, TogglePlatform, AppConfig, Sections
  <2> QED
    BY <1>5, <2>1, PayloadTyped, RuntimeAssumption DEF TypeOK, TogglePlatform, Serving, NotesOverlap, files, sync
<1>6. ASSUME NEW owners \in (SUBSET Users) \cup {Keep}, NEW policy \in BOOLEAN \cup {Keep},
             PutIdentity(owners, policy)
      PROVE  TypeOK'
  <2>1. identity.owners \in SUBSET Users /\ identity.policy \in BOOLEAN
    BY DEF TypeOK, Identities
  <2>2. MergedField(identity.owners, owners) \in SUBSET Users
    BY <2>1, Zenon DEF MergedField
  <2>3. MergedField(identity.policy, policy) \in BOOLEAN
    BY <2>1, Zenon DEF MergedField
  <2>4. identity' \in Identities
    BY <1>6, <2>2, <2>3, RuntimeAssumption DEF PutIdentity, Ensured, Identities
  <2> QED
    BY <1>6, <2>4 DEF TypeOK, PutIdentity, Serving, sync, requests, history
<1>7. ASSUME NEW u \in Updates,
             RowWritten(u)
      PROVE  TypeOK'
  BY <1>7, RuntimeAssumption DEF TypeOK, RowWritten, files, live, sync, history
<1>8. ASSUME NEW u \in Updates,
             Rebuild(u)
      PROVE  TypeOK'
  BY <1>8, RuntimeAssumption DEF TypeOK, Rebuild, Answered, files, sync, AppConfig
<1>9. ASSUME NEW u \in Updates,
             PutFails(u)
      PROVE  TypeOK'
  BY <1>9, RuntimeAssumption DEF TypeOK, PutFails, Answered, files, live, sync
<1>10. ASSUME Turn PROVE TypeOK'
  BY <1>10, RuntimeAssumption DEF TypeOK, Turn, Idle, BeginSync, files, live, requests
<1>11. ASSUME ConsoleReads PROVE TypeOK'
  BY <1>11, RuntimeAssumption DEF TypeOK, ConsoleReads, Serving, BeginSync, files, live, requests
<1>12. ASSUME ReadIdentity PROVE TypeOK'
  BY <1>12, LoadedTyped, RuntimeAssumption DEF TypeOK, ReadIdentity, requests, history
<1>13. ASSUME ReadPersona PROVE TypeOK'
  BY <1>13, CardTyped, RuntimeAssumption DEF TypeOK, ReadPersona, files, requests, history, AppConfig
<1>14. ASSUME Touch PROVE TypeOK'
  BY <1>14, PayloadTyped, RuntimeAssumption DEF TypeOK, Touch, EndSync, files, live, history, requests
<1>15. ASSUME ReadFails PROVE TypeOK'
  <2>1. identity' \in Identities /\ identityFile' \in Identities \cup {Missing, Broken}
    BY <1>15, LoadedTyped, NoOwnersTyped DEF TypeOK, ReadFails
  <2>2. stamped' \in BOOLEAN
    BY <1>15 DEF ReadFails
  <2>3. raced' \in BOOLEAN
    BY <1>15 DEF ReadFails
  <2>4. flight' \in [Updates -> {"none", "reading", "putting", "written"}] /\ failed' \in BOOLEAN
    BY <1>15 DEF TypeOK, ReadFails
  <2> QED
    BY <1>15, <2>1, <2>2, <2>3, <2>4 DEF TypeOK, ReadFails, EndSync
<1>16. ASSUME Start PROVE TypeOK'
  <2>1. identityFile \in Identities \cup {Missing} /\ personaFile \in Cards \cup {Missing}
    BY <1>16 DEF TypeOK, Start
  <2>2. config' \in AppConfig
    BY <1>16, <2>1, BootTyped, BootCardTyped, RuntimeAssumption DEF TypeOK, Start, AppConfig
  <2>3. built' \in Sections /\ config'.card \in Cards
    BY <1>16, <2>2 DEF Start, AppConfig
  <2>4. identity' \in Identities
    BY <1>16, <2>1, LoadedTyped DEF Start
  <2> QED
    BY <1>16, <2>1, <2>2, <2>3, <2>4 DEF TypeOK, Start, sync, requests, history
<1>17. ASSUME Started PROVE TypeOK'
  BY <1>17, RuntimeAssumption DEF TypeOK, Started, files, live, sync, requests, history
<1>18. ASSUME NEW e \in Environments,
             Stop(e)
      PROVE  TypeOK'
  <2>1. config' \in AppConfig /\ identity' \in Identities
    BY <1>18, BareTyped DEF Stop
  <2>2. built' \in Sections
    BY <1>18, <2>1 DEF Stop, AppConfig
  <2> QED
    BY <1>18, <2>1, <2>2, RuntimeAssumption DEF TypeOK, Stop, EndSync, files
<1>19. ASSUME NEW u \in Updates, NEW p \in Patches,
             PersonaNotSaved(u, p)
      PROVE  TypeOK'
  <2>1. config' \in AppConfig
    BY <1>19, MergedTyped DEF TypeOK, PersonaNotSaved
  <2> QED
    BY <1>19, <2>1 DEF TypeOK, PersonaNotSaved, Serving, NotesOverlap, sync, requests
<1>20. ASSUME IdentityNotSaved PROVE TypeOK'
  <2>1. identityFile' \in Identities \cup {Missing, Broken}
    BY <1>20, NoOwnersTyped DEF IdentityNotSaved
  <2> QED
    BY <1>20, <2>1 DEF TypeOK, IdentityNotSaved, Serving, live, sync, requests, history
<1>21. ASSUME UNCHANGED vars PROVE TypeOK'
  BY <1>21, RuntimeAssumption DEF TypeOK, vars, files, live, sync, requests, history
<1> QED BY <1>1, <1>2, <1>3, <1>4, <1>5, <1>6, <1>7, <1>8, <1>9, <1>10, <1>11, <1>12, <1>13, <1>14, <1>15, <1>16, <1>17, <1>18, <1>19, <1>20, <1>21
  DEF Next, HandEdit, Request, GrantOwners, Settle, Sync, End

(* The settings, the files and what hangs on them keep their types.        *)
THEOREM TypeCorrect == Spec => []TypeOK
<1>1. Init => TypeOK
  <2> SUFFICES ASSUME Init PROVE TypeOK
    OBVIOUS
  <2>1. env \in Environments /\ NoRow \in Rows \cup {NoRow}
    BY DEF Init
  <2>2. config \in AppConfig /\ identity \in Identities
    BY <2>1, BareTyped DEF Init
  <2>3. built \in Sections
    BY <2>2 DEF Init, AppConfig
  <2>4. identityFile \in Identities \cup {Missing} /\ personaFile \in Cards \cup {Missing}
    BY NoOwnersTyped, RuntimeAssumption DEF Init
  <2>5. flight \in [Updates -> {"none", "reading", "putting", "written"}]
        /\ payload \in [Updates -> Rows \cup {NoRow}]
    BY DEF Init
  <2> QED
    BY <2>1, <2>2, <2>3, <2>4, <2>5 DEF Init, TypeOK
<1> QED BY <1>1, TypeStep, PTL DEF Spec

-----------------------------------------------------------------------------
(***************************************************************************)
(* Owners, secrets and adapters                                            *)
(***************************************************************************)

(* Identities are loaded and changed with the builtin owners in them.       *)
LEMMA OwnershipStep == TypeOK /\ ConsoleKeepsOwnership /\ [Next]_vars => ConsoleKeepsOwnership'
<1> SUFFICES ASSUME TypeOK, ConsoleKeepsOwnership, [Next]_vars PROVE ConsoleKeepsOwnership'
  OBVIOUS
<1>1. ASSUME NEW f \in Identities \cup {Missing, Broken},
             HandEditIdentity(f)
      PROVE  ConsoleKeepsOwnership'
  BY <1>1 DEF ConsoleKeepsOwnership, HandEditIdentity, live, sync, requests
<1>2. ASSUME NEW f \in Cards \cup {Missing, Broken},
             HandEditPersona(f)
      PROVE  ConsoleKeepsOwnership'
  BY <1>2 DEF ConsoleKeepsOwnership, HandEditPersona, live, sync, requests
<1>3. ASSUME NEW u \in Updates, NEW p \in Patches,
             PutConfig(u, p)
      PROVE  ConsoleKeepsOwnership'
  BY <1>3 DEF ConsoleKeepsOwnership, PutConfig, Serving, BeginSync, NotesOverlap, files, Busy
<1>4. ASSUME NEW u \in Updates, NEW p \in Patches,
             PutPersona(u, p)
      PROVE  ConsoleKeepsOwnership'
  BY <1>4 DEF ConsoleKeepsOwnership, PutPersona, Serving, NotesOverlap, sync, Busy
<1>5. ASSUME NEW u \in Updates, NEW on \in BOOLEAN,
             TogglePlatform(u, on)
      PROVE  ConsoleKeepsOwnership'
  BY <1>5 DEF ConsoleKeepsOwnership, TogglePlatform, Serving, NotesOverlap, files, sync
<1>6. ASSUME NEW owners \in (SUBSET Users) \cup {Keep}, NEW policy \in BOOLEAN \cup {Keep},
             PutIdentity(owners, policy)
      PROVE  ConsoleKeepsOwnership'
  BY <1>6 DEF ConsoleKeepsOwnership, PutIdentity, Serving, sync, requests, history, Ensured
<1>7. ASSUME NEW u \in Updates,
             RowWritten(u)
      PROVE  ConsoleKeepsOwnership'
  BY <1>7 DEF ConsoleKeepsOwnership, RowWritten, files, live, sync, history
<1>8. ASSUME NEW u \in Updates,
             Rebuild(u)
      PROVE  ConsoleKeepsOwnership'
  BY <1>8 DEF ConsoleKeepsOwnership, Rebuild, Answered, files, sync
<1>9. ASSUME NEW u \in Updates,
             PutFails(u)
      PROVE  ConsoleKeepsOwnership'
  BY <1>9 DEF ConsoleKeepsOwnership, PutFails, Answered, files, live, sync
<1>10. ASSUME Turn PROVE ConsoleKeepsOwnership'
  BY <1>10 DEF ConsoleKeepsOwnership, Turn, Idle, BeginSync, files, live, requests
<1>11. ASSUME ConsoleReads PROVE ConsoleKeepsOwnership'
  BY <1>11 DEF ConsoleKeepsOwnership, ConsoleReads, Serving, BeginSync, files, live, requests
<1>12. ASSUME ReadIdentity PROVE ConsoleKeepsOwnership'
  <2>1. identityFile \in Identities \cup {Missing}
    BY <1>12 DEF TypeOK, ReadIdentity
  <2> QED BY <1>12, <2>1, LoadedTyped DEF ConsoleKeepsOwnership, ReadIdentity
<1>13. ASSUME ReadPersona PROVE ConsoleKeepsOwnership'
  BY <1>13 DEF ConsoleKeepsOwnership, ReadPersona, files, requests, history
<1>14. ASSUME Touch PROVE ConsoleKeepsOwnership'
  BY <1>14 DEF ConsoleKeepsOwnership, Touch, EndSync, files, live, history, requests
<1>15. ASSUME ReadFails PROVE ConsoleKeepsOwnership'
  BY <1>15, LoadedTyped DEF ConsoleKeepsOwnership, ReadFails, EndSync
<1>16. ASSUME Start PROVE ConsoleKeepsOwnership'
  <2>1. identityFile \in Identities \cup {Missing}
    BY <1>16 DEF TypeOK, Start
  <2> QED BY <1>16, <2>1, LoadedTyped DEF ConsoleKeepsOwnership, Start
<1>17. ASSUME Started PROVE ConsoleKeepsOwnership'
  BY <1>17 DEF ConsoleKeepsOwnership, Started, files, live, sync, requests, history
<1>18. ASSUME NEW e \in Environments,
             Stop(e)
      PROVE  ConsoleKeepsOwnership'
  BY <1>18 DEF ConsoleKeepsOwnership, Stop, EndSync, files, live, history
<1>19. ASSUME NEW u \in Updates, NEW p \in Patches,
             PersonaNotSaved(u, p)
      PROVE  ConsoleKeepsOwnership'
  BY <1>19 DEF ConsoleKeepsOwnership, PersonaNotSaved, Serving, NotesOverlap, sync, requests
<1>20. ASSUME IdentityNotSaved PROVE ConsoleKeepsOwnership'
  BY <1>20 DEF ConsoleKeepsOwnership, IdentityNotSaved, Serving, live, sync, requests, history
<1>21. ASSUME UNCHANGED vars PROVE ConsoleKeepsOwnership'
  BY <1>21 DEF ConsoleKeepsOwnership, vars, files, live, sync, requests, history
<1> QED BY <1>1, <1>2, <1>3, <1>4, <1>5, <1>6, <1>7, <1>8, <1>9, <1>10, <1>11, <1>12, <1>13, <1>14, <1>15, <1>16, <1>17, <1>18, <1>19, <1>20, <1>21
  DEF Next, HandEdit, Request, GrantOwners, Settle, Sync, End

(* The console and the terminal client stay owners under any sequence of   *)
(* hand edits, loads and grants.                                           *)
THEOREM ConsoleKept == Spec => []ConsoleKeepsOwnership
<1>1. Init => ConsoleKeepsOwnership
  BY DEF Init, ConsoleKeepsOwnership, BuiltinIdentity
<1> QED BY <1>1, TypeCorrect, OwnershipStep, PTL DEF Spec

(* The console's mask is no secret, and a merge takes no mask for one.      *)
LEMMA MaskNotMerged ==
    ASSUME NEW c \in AppConfig, NEW p \in Patches, c.sections.token # Mask
    PROVE  Merged(c, p).sections.token # Mask
BY DEF Merged, MergedToken

(* A process starts with a mask only if the row held one.                  *)
LEMMA MaskNotBooted ==
    ASSUME NEW r \in Rows \cup {NoRow}, NEW e \in Environments,
           r # NoRow => r.sections.token # Mask
    PROVE  BootSections(r, e).token # Mask
<1>1. NoToken # Mask /\ e.token # Mask
  BY RuntimeAssumption DEF Secrets, Environments
<1> QED BY <1>1 DEF BootSections, Overridden, SysSections

(* The row, the payloads and the adapters get the token of the             *)
(* configuration, and that is none but a typed or stored one.              *)
LEMMA MaskStep == TypeOK /\ NoMaskStored /\ [Next]_vars => NoMaskStored'
<1> SUFFICES ASSUME TypeOK, NoMaskStored, [Next]_vars PROVE NoMaskStored'
  OBVIOUS
<1>1. ASSUME NEW f \in Identities \cup {Missing, Broken},
             HandEditIdentity(f)
      PROVE  NoMaskStored'
  BY <1>1 DEF NoMaskStored, HandEditIdentity, live, sync, requests, TypeOK
<1>2. ASSUME NEW f \in Cards \cup {Missing, Broken},
             HandEditPersona(f)
      PROVE  NoMaskStored'
  BY <1>2 DEF NoMaskStored, HandEditPersona, live, sync, requests, TypeOK
<1>3. ASSUME NEW u \in Updates, NEW p \in Patches,
             PutConfig(u, p)
      PROVE  NoMaskStored'
  BY <1>3, MaskNotMerged DEF NoMaskStored, PutConfig, Serving, BeginSync, NotesOverlap, files, Busy, TypeOK
<1>4. ASSUME NEW u \in Updates, NEW p \in Patches,
             PutPersona(u, p)
      PROVE  NoMaskStored'
  <2>1. config'.sections.token # Mask
    BY <1>4, MaskNotMerged DEF NoMaskStored, PutPersona, TypeOK
  <2> QED BY <1>4, <2>1 DEF NoMaskStored, PutPersona, RuntimePayload, TypeOK
<1>5. ASSUME NEW u \in Updates, NEW on \in BOOLEAN,
             TogglePlatform(u, on)
      PROVE  NoMaskStored'
  <2>1. config'.sections.token = config.sections.token
    BY <1>5 DEF TypeOK, TogglePlatform, AppConfig, Sections
  <2> QED BY <1>5, <2>1 DEF NoMaskStored, TogglePlatform, RuntimePayload, TypeOK
<1>6. ASSUME NEW owners \in (SUBSET Users) \cup {Keep}, NEW policy \in BOOLEAN \cup {Keep},
             PutIdentity(owners, policy)
      PROVE  NoMaskStored'
  BY <1>6 DEF NoMaskStored, PutIdentity, Serving, sync, requests, history, Ensured, TypeOK
<1>7. ASSUME NEW u \in Updates,
             RowWritten(u)
      PROVE  NoMaskStored'
  BY <1>7 DEF NoMaskStored, RowWritten, files, live, sync, history, TypeOK
<1>8. ASSUME NEW u \in Updates,
             Rebuild(u)
      PROVE  NoMaskStored'
  BY <1>8 DEF NoMaskStored, Rebuild, Answered, files, sync, TypeOK
<1>9. ASSUME NEW u \in Updates,
             PutFails(u)
      PROVE  NoMaskStored'
  BY <1>9 DEF NoMaskStored, PutFails, Answered, files, live, sync, TypeOK
<1>10. ASSUME Turn PROVE NoMaskStored'
  BY <1>10 DEF NoMaskStored, Turn, Idle, BeginSync, files, live, requests, TypeOK
<1>11. ASSUME ConsoleReads PROVE NoMaskStored'
  BY <1>11 DEF NoMaskStored, ConsoleReads, Serving, BeginSync, files, live, requests, TypeOK
<1>12. ASSUME ReadIdentity PROVE NoMaskStored'
  BY <1>12 DEF NoMaskStored, ReadIdentity, requests, history, TypeOK
<1>13. ASSUME ReadPersona PROVE NoMaskStored'
  BY <1>13 DEF NoMaskStored, ReadPersona, files, requests, history, TypeOK
<1>14. ASSUME Touch PROVE NoMaskStored'
  BY <1>14 DEF NoMaskStored, Touch, EndSync, files, live, history, requests, RuntimePayload, TypeOK
<1>15. ASSUME ReadFails PROVE NoMaskStored'
  BY <1>15 DEF NoMaskStored, ReadFails, EndSync, files, live, TypeOK
<1>16. ASSUME Start PROVE NoMaskStored'
  <2>1. BootSections(row, env).token # Mask
    BY MaskNotBooted DEF TypeOK, NoMaskStored
  <2>2. config'.sections.token # Mask /\ built'.token # Mask
    BY <1>16, <2>1 DEF Start
  <2> QED BY <1>16, <2>2 DEF NoMaskStored, Start, requests
<1>17. ASSUME Started PROVE NoMaskStored'
  BY <1>17 DEF NoMaskStored, Started, files, live, sync, requests, history, TypeOK
<1>18. ASSUME NEW e \in Environments,
             Stop(e)
      PROVE  NoMaskStored'
  <2>1. config'.sections.token # Mask
    BY <1>18, MaskNotBooted DEF Stop, BareConfig
  <2> QED BY <1>18, <2>1 DEF NoMaskStored, Stop, TypeOK
<1>19. ASSUME NEW u \in Updates, NEW p \in Patches,
             PersonaNotSaved(u, p)
      PROVE  NoMaskStored'
  BY <1>19, MaskNotMerged DEF NoMaskStored, PersonaNotSaved, requests, TypeOK
<1>20. ASSUME IdentityNotSaved PROVE NoMaskStored'
  BY <1>20 DEF NoMaskStored, IdentityNotSaved, Serving, live, sync, requests, history
<1>21. ASSUME UNCHANGED vars PROVE NoMaskStored'
  BY <1>21 DEF NoMaskStored, vars, files, live, sync, requests, history, TypeOK
<1> QED BY <1>1, <1>2, <1>3, <1>4, <1>5, <1>6, <1>7, <1>8, <1>9, <1>10, <1>11, <1>12, <1>13, <1>14, <1>15, <1>16, <1>17, <1>18, <1>19, <1>20, <1>21
  DEF Next, HandEdit, Request, GrantOwners, Settle, Sync, End

(* No mask of the console becomes a stored secret, for any set of secrets  *)
(* and any overlap of requests.                                            *)
THEOREM NoMaskKept == Spec => []NoMaskStored
<1>1. Init => NoMaskStored
  BY MaskNotBooted DEF Init, NoMaskStored, BareConfig
<1> QED BY <1>1, TypeCorrect, MaskStep, PTL DEF Spec

(* Only a request changes what the adapters should have, and it ends with a *)
(* rebuild or a failure.                                                   *)
LEMMA AdaptersStep == TypeOK /\ AdaptersFollow /\ [Next]_vars => AdaptersFollow'
<1> SUFFICES ASSUME TypeOK, AdaptersFollow, [Next]_vars PROVE AdaptersFollow'
  OBVIOUS
<1>1. ASSUME NEW f \in Identities \cup {Missing, Broken},
             HandEditIdentity(f)
      PROVE  AdaptersFollow'
  BY <1>1 DEF AdaptersFollow, HandEditIdentity, live, sync, requests, Busy, TypeOK
<1>2. ASSUME NEW f \in Cards \cup {Missing, Broken},
             HandEditPersona(f)
      PROVE  AdaptersFollow'
  BY <1>2 DEF AdaptersFollow, HandEditPersona, live, sync, requests, Busy, TypeOK
<1>3. ASSUME NEW u \in Updates, NEW p \in Patches,
             PutConfig(u, p)
      PROVE  AdaptersFollow'
  BY <1>3 DEF AdaptersFollow, PutConfig, Serving, BeginSync, NotesOverlap, files, Busy, TypeOK
<1>4. ASSUME NEW u \in Updates, NEW p \in Patches,
             PutPersona(u, p)
      PROVE  AdaptersFollow'
  BY <1>4 DEF AdaptersFollow, PutPersona, Serving, NotesOverlap, sync, Busy, TypeOK
<1>5. ASSUME NEW u \in Updates, NEW on \in BOOLEAN,
             TogglePlatform(u, on)
      PROVE  AdaptersFollow'
  BY <1>5 DEF AdaptersFollow, TogglePlatform, Serving, NotesOverlap, files, sync, Busy, TypeOK
<1>6. ASSUME NEW owners \in (SUBSET Users) \cup {Keep}, NEW policy \in BOOLEAN \cup {Keep},
             PutIdentity(owners, policy)
      PROVE  AdaptersFollow'
  BY <1>6 DEF AdaptersFollow, PutIdentity, Serving, sync, requests, history, Ensured, Busy, TypeOK
<1>7. ASSUME NEW u \in Updates,
             RowWritten(u)
      PROVE  AdaptersFollow'
  BY <1>7 DEF AdaptersFollow, RowWritten, files, live, sync, history, Busy, TypeOK
<1>8. ASSUME NEW u \in Updates,
             Rebuild(u)
      PROVE  AdaptersFollow'
  BY <1>8 DEF AdaptersFollow, Rebuild, Answered, files, sync, Busy, TypeOK
<1>9. ASSUME NEW u \in Updates,
             PutFails(u)
      PROVE  AdaptersFollow'
  BY <1>9 DEF AdaptersFollow, PutFails, Answered, files, live, sync, Busy, TypeOK
<1>10. ASSUME Turn PROVE AdaptersFollow'
  BY <1>10 DEF AdaptersFollow, Turn, Idle, BeginSync, files, live, requests, Busy, TypeOK
<1>11. ASSUME ConsoleReads PROVE AdaptersFollow'
  BY <1>11 DEF AdaptersFollow, ConsoleReads, Serving, BeginSync, files, live, requests, Busy, TypeOK
<1>12. ASSUME ReadIdentity PROVE AdaptersFollow'
  BY <1>12 DEF AdaptersFollow, ReadIdentity, requests, history, Busy, TypeOK
<1>13. ASSUME ReadPersona PROVE AdaptersFollow'
  BY <1>13 DEF AdaptersFollow, ReadPersona, files, requests, history, Busy, TypeOK
<1>14. ASSUME Touch PROVE AdaptersFollow'
  BY <1>14 DEF AdaptersFollow, Touch, EndSync, files, live, history, requests, Busy, TypeOK
<1>15. ASSUME ReadFails PROVE AdaptersFollow'
  BY <1>15 DEF AdaptersFollow, ReadFails, EndSync, files, live, Busy, TypeOK
<1>16. ASSUME Start PROVE AdaptersFollow'
  BY <1>16 DEF AdaptersFollow, Start, sync, requests, Busy, TypeOK
<1>17. ASSUME Started PROVE AdaptersFollow'
  BY <1>17 DEF AdaptersFollow, Started, files, live, sync, requests, history, Busy, TypeOK
<1>18. ASSUME NEW e \in Environments,
             Stop(e)
      PROVE  AdaptersFollow'
  BY <1>18 DEF AdaptersFollow, Stop, EndSync, files, live, history, Busy, TypeOK
<1>19. ASSUME NEW u \in Updates, NEW p \in Patches,
             PersonaNotSaved(u, p)
      PROVE  AdaptersFollow'
  BY <1>19 DEF AdaptersFollow, PersonaNotSaved, Serving, NotesOverlap, sync, requests
<1>20. ASSUME IdentityNotSaved PROVE AdaptersFollow'
  BY <1>20 DEF AdaptersFollow, IdentityNotSaved, live, requests, history, Busy
<1>21. ASSUME UNCHANGED vars PROVE AdaptersFollow'
  BY <1>21 DEF AdaptersFollow, vars, files, live, sync, requests, history, Busy, TypeOK
<1> QED BY <1>1, <1>2, <1>3, <1>4, <1>5, <1>6, <1>7, <1>8, <1>9, <1>10, <1>11, <1>12, <1>13, <1>14, <1>15, <1>16, <1>17, <1>18, <1>19, <1>20, <1>21
  DEF Next, HandEdit, Request, GrantOwners, Settle, Sync, End

(* Once every request is answered and none has failed, adapters and graphs *)
(* run on the settings of now, for any number of requests.                 *)
THEOREM AdaptersKept == Spec => []AdaptersFollow
<1>1. Init => AdaptersFollow
  BY DEF Init, AdaptersFollow
<1> QED BY <1>1, TypeCorrect, AdaptersStep, PTL DEF Spec

-----------------------------------------------------------------------------
(***************************************************************************)
(* The row                                                                 *)
(***************************************************************************)

(* Only the end of the process and the request itself take a request away. *)
LEMMA LoopStep == TypeOK /\ LoopInv /\ [Next]_vars => LoopInv'
<1> SUFFICES ASSUME TypeOK, LoopInv, [Next]_vars PROVE LoopInv'
  OBVIOUS
<1>1. ASSUME NEW f \in Identities \cup {Missing, Broken},
             HandEditIdentity(f)
      PROVE  LoopInv'
  BY <1>1 DEF LoopInv, HandEditIdentity, live, sync, requests, Busy, Idle, TypeOK
<1>2. ASSUME NEW f \in Cards \cup {Missing, Broken},
             HandEditPersona(f)
      PROVE  LoopInv'
  BY <1>2 DEF LoopInv, HandEditPersona, live, sync, requests, Busy, Idle, TypeOK
<1>3. ASSUME NEW u \in Updates, NEW p \in Patches,
             PutConfig(u, p)
      PROVE  LoopInv'
  BY <1>3 DEF LoopInv, PutConfig, Serving, BeginSync, NotesOverlap, files, Busy, Idle, TypeOK
<1>4. ASSUME NEW u \in Updates, NEW p \in Patches,
             PutPersona(u, p)
      PROVE  LoopInv'
  BY <1>4 DEF LoopInv, PutPersona, Serving, NotesOverlap, sync, Busy, Idle, TypeOK
<1>5. ASSUME NEW u \in Updates, NEW on \in BOOLEAN,
             TogglePlatform(u, on)
      PROVE  LoopInv'
  BY <1>5 DEF LoopInv, TogglePlatform, Serving, NotesOverlap, files, sync, Busy, Idle, TypeOK
<1>6. ASSUME NEW owners \in (SUBSET Users) \cup {Keep}, NEW policy \in BOOLEAN \cup {Keep},
             PutIdentity(owners, policy)
      PROVE  LoopInv'
  BY <1>6 DEF LoopInv, PutIdentity, Serving, sync, requests, history, Ensured, Busy, Idle, TypeOK
<1>7. ASSUME NEW u \in Updates,
             RowWritten(u)
      PROVE  LoopInv'
  BY <1>7 DEF LoopInv, RowWritten, files, live, sync, history, Busy, Idle, TypeOK
<1>8. ASSUME NEW u \in Updates,
             Rebuild(u)
      PROVE  LoopInv'
  BY <1>8 DEF LoopInv, Rebuild, Answered, files, sync, Busy, Idle, TypeOK
<1>9. ASSUME NEW u \in Updates,
             PutFails(u)
      PROVE  LoopInv'
  BY <1>9 DEF LoopInv, PutFails, Answered, files, live, sync, Busy, Idle, TypeOK
<1>10. ASSUME Turn PROVE LoopInv'
  BY <1>10, RuntimeAssumption DEF LoopInv, Turn, Idle, BeginSync, files, live, requests, Busy, TypeOK
<1>11. ASSUME ConsoleReads PROVE LoopInv'
  BY <1>11, RuntimeAssumption DEF LoopInv, ConsoleReads, Serving, BeginSync, files, live, requests, Busy, Idle, TypeOK
<1>12. ASSUME ReadIdentity PROVE LoopInv'
  BY <1>12 DEF LoopInv, ReadIdentity, requests, history, Busy, Idle, TypeOK
<1>13. ASSUME ReadPersona PROVE LoopInv'
  BY <1>13 DEF LoopInv, ReadPersona, files, requests, history, Busy, Idle, TypeOK
<1>14. ASSUME Touch PROVE LoopInv'
  BY <1>14 DEF LoopInv, Touch, EndSync, files, live, history, requests, Busy, Idle, TypeOK
<1>15. ASSUME ReadFails PROVE LoopInv'
  BY <1>15 DEF LoopInv, ReadFails, EndSync, files, live, Busy, Idle, TypeOK
<1>16. ASSUME Start PROVE LoopInv'
  BY <1>16 DEF LoopInv, Start, sync, requests, Busy, Idle, TypeOK
<1>17. ASSUME Started PROVE LoopInv'
  BY <1>17 DEF LoopInv, Started, files, live, sync, requests, history, Busy, Idle, TypeOK
<1>18. ASSUME NEW e \in Environments,
             Stop(e)
      PROVE  LoopInv'
  BY <1>18 DEF LoopInv, Stop, EndSync, files, live, history, Busy, Idle, TypeOK
<1>19. ASSUME NEW u \in Updates, NEW p \in Patches,
             PersonaNotSaved(u, p)
      PROVE  LoopInv'
  BY <1>19 DEF LoopInv, PersonaNotSaved, sync, requests, Idle, Busy
<1>20. ASSUME IdentityNotSaved PROVE LoopInv'
  BY <1>20 DEF LoopInv, IdentityNotSaved, sync, requests, Idle, Busy
<1>21. ASSUME UNCHANGED vars PROVE LoopInv'
  BY <1>21 DEF LoopInv, vars, files, live, sync, requests, history, Busy, Idle, TypeOK
<1> QED BY <1>1, <1>2, <1>3, <1>4, <1>5, <1>6, <1>7, <1>8, <1>9, <1>10, <1>11, <1>12, <1>13, <1>14, <1>15, <1>16, <1>17, <1>18, <1>19, <1>20, <1>21
  DEF Next, HandEdit, Request, GrantOwners, Settle, Sync, End

(* A request that starts alone sees nobody else's configuration come in.   *)
LEMMA AloneStep == TypeOK /\ LoopInv /\ AloneInv /\ [Next]_vars => AloneInv'
<1> SUFFICES ASSUME TypeOK, LoopInv, AloneInv, [Next]_vars PROVE AloneInv'
  OBVIOUS
<1>1. ASSUME NEW f \in Identities \cup {Missing, Broken},
             HandEditIdentity(f)
      PROVE  AloneInv'
  BY <1>1 DEF AloneInv, HandEditIdentity, live, sync, requests, LoopInv, Busy, Idle, TypeOK
<1>2. ASSUME NEW f \in Cards \cup {Missing, Broken},
             HandEditPersona(f)
      PROVE  AloneInv'
  BY <1>2 DEF AloneInv, HandEditPersona, live, sync, requests, LoopInv, Busy, Idle, TypeOK
<1>3. ASSUME NEW u \in Updates, NEW p \in Patches,
             PutConfig(u, p)
      PROVE  AloneInv'
  BY <1>3 DEF AloneInv, PutConfig, Serving, BeginSync, NotesOverlap, files, Busy, LoopInv, Idle, TypeOK
<1>4. ASSUME NEW u \in Updates, NEW p \in Patches,
             PutPersona(u, p)
      PROVE  AloneInv'
  <2>1. config' \in AppConfig
    BY <1>4, MergedTyped DEF TypeOK, PutPersona
  <2>2. /\ flight'[u] = "putting"
        /\ payload'[u] # NoRow /\ payload'[u].sections = config'.sections
    BY <1>4, <2>1, PayloadTyped, RuntimeAssumption DEF TypeOK, PutPersona
  <2>3. \A v \in Updates \ {u} : flight'[v] = flight[v]
    BY <1>4 DEF TypeOK, PutPersona
  <2> QED BY <1>4, <2>1, <2>2, <2>3 DEF AloneInv, PutPersona, NotesOverlap, Busy
<1>5. ASSUME NEW u \in Updates, NEW on \in BOOLEAN,
             TogglePlatform(u, on)
      PROVE  AloneInv'
  <2>1. config' \in AppConfig
    BY <1>5, RuntimeAssumption DEF TypeOK, TogglePlatform, AppConfig, Sections
  <2>2. /\ flight'[u] = "putting"
        /\ payload'[u] # NoRow /\ payload'[u].sections = config'.sections
    BY <1>5, <2>1, PayloadTyped, RuntimeAssumption DEF TypeOK, TogglePlatform
  <2>3. \A v \in Updates \ {u} : flight'[v] = flight[v]
    BY <1>5 DEF TypeOK, TogglePlatform
  <2> QED BY <1>5, <2>1, <2>2, <2>3 DEF AloneInv, TogglePlatform, NotesOverlap, Busy
<1>6. ASSUME NEW owners \in (SUBSET Users) \cup {Keep}, NEW policy \in BOOLEAN \cup {Keep},
             PutIdentity(owners, policy)
      PROVE  AloneInv'
  BY <1>6 DEF AloneInv, PutIdentity, Serving, sync, requests, history, Ensured, LoopInv, Busy, Idle, TypeOK
<1>7. ASSUME NEW u \in Updates,
             RowWritten(u)
      PROVE  AloneInv'
  BY <1>7, RuntimeAssumption DEF AloneInv, RowWritten, files, live, sync, history, LoopInv, Busy, Idle, TypeOK
<1>8. ASSUME NEW u \in Updates,
             Rebuild(u)
      PROVE  AloneInv'
  BY <1>8 DEF AloneInv, Rebuild, Answered, files, sync, LoopInv, Busy, Idle, TypeOK
<1>9. ASSUME NEW u \in Updates,
             PutFails(u)
      PROVE  AloneInv'
  BY <1>9 DEF AloneInv, PutFails, Answered, files, live, sync, LoopInv, Busy, Idle, TypeOK
<1>10. ASSUME Turn PROVE AloneInv'
  BY <1>10 DEF AloneInv, Turn, Idle, BeginSync, files, live, requests, LoopInv, Busy, TypeOK
<1>11. ASSUME ConsoleReads PROVE AloneInv'
  BY <1>11 DEF AloneInv, ConsoleReads, Serving, BeginSync, files, live, requests, LoopInv, Busy, Idle, TypeOK
<1>12. ASSUME ReadIdentity PROVE AloneInv'
  BY <1>12 DEF AloneInv, ReadIdentity, requests, history, LoopInv, Busy, Idle, TypeOK
<1>13. ASSUME ReadPersona PROVE AloneInv'
  BY <1>13 DEF AloneInv, ReadPersona, files, requests, history, LoopInv, Busy, Idle, TypeOK
<1>14. ASSUME Touch PROVE AloneInv'
  BY <1>14, PayloadTyped, RuntimeAssumption DEF AloneInv, Touch, EndSync, files, live, history, requests, LoopInv, Busy, Idle, TypeOK
<1>15. ASSUME ReadFails PROVE AloneInv'
  BY <1>15 DEF AloneInv, ReadFails, EndSync, files, live, LoopInv, Busy, Idle, TypeOK
<1>16. ASSUME Start PROVE AloneInv'
  BY <1>16 DEF AloneInv, Start, sync, requests, LoopInv, Busy, Idle, TypeOK
<1>17. ASSUME Started PROVE AloneInv'
  BY <1>17 DEF AloneInv, Started, files, live, sync, requests, history, LoopInv, Busy, Idle, TypeOK
<1>18. ASSUME NEW e \in Environments,
             Stop(e)
      PROVE  AloneInv'
  BY <1>18 DEF AloneInv, Stop, EndSync, files, live, history, LoopInv, Busy, Idle, TypeOK
<1>19. ASSUME NEW u \in Updates, NEW p \in Patches,
             PersonaNotSaved(u, p)
      PROVE  AloneInv'
  BY <1>19 DEF AloneInv, PersonaNotSaved, NotesOverlap, requests, Busy
<1>20. ASSUME IdentityNotSaved PROVE AloneInv'
  BY <1>20 DEF AloneInv, IdentityNotSaved, live, requests, history, Busy
<1>21. ASSUME UNCHANGED vars PROVE AloneInv'
  BY <1>21 DEF AloneInv, vars, files, live, sync, requests, history, LoopInv, Busy, Idle, TypeOK
<1> QED BY <1>1, <1>2, <1>3, <1>4, <1>5, <1>6, <1>7, <1>8, <1>9, <1>10, <1>11, <1>12, <1>13, <1>14, <1>15, <1>16, <1>17, <1>18, <1>19, <1>20, <1>21
  DEF Next, HandEdit, Request, GrantOwners, Settle, Sync, End

(* The row is behind only while somebody is on the way to write it.        *)
LEMMA RowStep == TypeOK /\ LoopInv /\ AloneInv /\ RowKeepsUp /\ [Next]_vars => RowKeepsUp'
<1> SUFFICES ASSUME TypeOK, LoopInv, AloneInv, RowKeepsUp, [Next]_vars PROVE RowKeepsUp'
  OBVIOUS
<1>1. ASSUME NEW f \in Identities \cup {Missing, Broken},
             HandEditIdentity(f)
      PROVE  RowKeepsUp'
  BY <1>1 DEF RowKeepsUp, HandEditIdentity, live, sync, requests, AloneInv, Busy, TypeOK, BootSections, Overridden, SysSections
<1>2. ASSUME NEW f \in Cards \cup {Missing, Broken},
             HandEditPersona(f)
      PROVE  RowKeepsUp'
  BY <1>2 DEF RowKeepsUp, HandEditPersona, live, sync, requests, AloneInv, Busy, TypeOK, BootSections, Overridden, SysSections
<1>3. ASSUME NEW u \in Updates, NEW p \in Patches,
             PutConfig(u, p)
      PROVE  RowKeepsUp'
  BY <1>3 DEF RowKeepsUp, PutConfig, Serving, BeginSync, NotesOverlap, files, Busy, AloneInv, TypeOK, BootSections, Overridden, SysSections
<1>4. ASSUME NEW u \in Updates, NEW p \in Patches,
             PutPersona(u, p)
      PROVE  RowKeepsUp'
  BY <1>4 DEF RowKeepsUp, PutPersona, Serving, NotesOverlap, sync, Busy, AloneInv, TypeOK, BootSections, Overridden, SysSections
<1>5. ASSUME NEW u \in Updates, NEW on \in BOOLEAN,
             TogglePlatform(u, on)
      PROVE  RowKeepsUp'
  BY <1>5 DEF RowKeepsUp, TogglePlatform, Serving, NotesOverlap, files, sync, AloneInv, Busy, TypeOK, BootSections, Overridden, SysSections
<1>6. ASSUME NEW owners \in (SUBSET Users) \cup {Keep}, NEW policy \in BOOLEAN \cup {Keep},
             PutIdentity(owners, policy)
      PROVE  RowKeepsUp'
  BY <1>6 DEF RowKeepsUp, PutIdentity, Serving, sync, requests, history, Ensured, AloneInv, Busy, TypeOK, BootSections, Overridden, SysSections
<1>7. ASSUME NEW u \in Updates,
             RowWritten(u)
      PROVE  RowKeepsUp'
  BY <1>7 DEF RowKeepsUp, RowWritten, files, live, sync, history, AloneInv, Busy, TypeOK, BootSections, Overridden, SysSections
<1>8. ASSUME NEW u \in Updates,
             Rebuild(u)
      PROVE  RowKeepsUp'
  BY <1>8 DEF RowKeepsUp, Rebuild, Answered, files, sync, AloneInv, Busy, TypeOK, BootSections, Overridden, SysSections
<1>9. ASSUME NEW u \in Updates,
             PutFails(u)
      PROVE  RowKeepsUp'
  BY <1>9 DEF RowKeepsUp, PutFails, Answered, files, live, sync, AloneInv, Busy, TypeOK, BootSections, Overridden, SysSections
<1>10. ASSUME Turn PROVE RowKeepsUp'
  BY <1>10 DEF RowKeepsUp, Turn, Idle, BeginSync, files, live, requests, AloneInv, Busy, TypeOK, BootSections, Overridden, SysSections
<1>11. ASSUME ConsoleReads PROVE RowKeepsUp'
  BY <1>11 DEF RowKeepsUp, ConsoleReads, Serving, BeginSync, files, live, requests, AloneInv, Busy, TypeOK, BootSections, Overridden, SysSections
<1>12. ASSUME ReadIdentity PROVE RowKeepsUp'
  BY <1>12 DEF RowKeepsUp, ReadIdentity, requests, history, AloneInv, Busy, TypeOK, BootSections, Overridden, SysSections
<1>13. ASSUME ReadPersona PROVE RowKeepsUp'
  BY <1>13 DEF RowKeepsUp, ReadPersona, files, requests, history, AloneInv, Busy, TypeOK, BootSections, Overridden, SysSections
<1>14. ASSUME Touch PROVE RowKeepsUp'
  BY <1>14 DEF RowKeepsUp, Touch, EndSync, files, live, history, requests, AloneInv, Busy, TypeOK, BootSections, Overridden, SysSections
<1>15. ASSUME ReadFails PROVE RowKeepsUp'
  BY <1>15 DEF RowKeepsUp, ReadFails, EndSync, files, live, AloneInv, Busy, TypeOK, BootSections, Overridden, SysSections
<1>16. ASSUME Start PROVE RowKeepsUp'
  BY <1>16 DEF RowKeepsUp, Start, sync, requests, AloneInv, Busy, TypeOK, BootSections, Overridden, SysSections
<1>17. ASSUME Started PROVE RowKeepsUp'
  BY <1>17 DEF RowKeepsUp, Started, files, live, sync, requests, history, AloneInv, Busy, TypeOK, BootSections, Overridden, SysSections
<1>18. ASSUME NEW e \in Environments,
             Stop(e)
      PROVE  RowKeepsUp'
  BY <1>18 DEF RowKeepsUp, Stop, EndSync, files, live, history, AloneInv, Busy, TypeOK, BootSections, Overridden, SysSections
<1>19. ASSUME NEW u \in Updates, NEW p \in Patches,
             PersonaNotSaved(u, p)
      PROVE  RowKeepsUp'
  BY <1>19 DEF RowKeepsUp, PersonaNotSaved, Serving, NotesOverlap, sync, requests
<1>20. ASSUME IdentityNotSaved PROVE RowKeepsUp'
  BY <1>20 DEF RowKeepsUp, IdentityNotSaved, live, requests, history, Busy
<1>21. ASSUME UNCHANGED vars PROVE RowKeepsUp'
  BY <1>21 DEF RowKeepsUp, vars, files, live, sync, requests, history, AloneInv, Busy, TypeOK, BootSections, Overridden, SysSections
<1> QED BY <1>1, <1>2, <1>3, <1>4, <1>5, <1>6, <1>7, <1>8, <1>9, <1>10, <1>11, <1>12, <1>13, <1>14, <1>15, <1>16, <1>17, <1>18, <1>19, <1>20, <1>21
  DEF Next, HandEdit, Request, GrantOwners, Settle, Sync, End

(* The row holds what was acknowledged last, for any number of requests of *)
(* which no two overlapped.                                                *)
THEOREM RowKept == Spec => []RowKeepsUp
<1>1. Init => LoopInv /\ AloneInv /\ RowKeepsUp
  BY DEF Init, LoopInv, AloneInv, RowKeepsUp, Idle, Busy
<1> QED BY <1>1, TypeCorrect, LoopStep, AloneStep, RowStep, PTL DEF Spec

-----------------------------------------------------------------------------
(***************************************************************************)
(* The files                                                               *)
(***************************************************************************)

(* Every reader of the files leaves with what they hold or in their debt:  *)
(* without a stamp, or with a race on record.                              *)
LEMMA FilesStep ==
    TypeOK /\ LoopInv /\ ConsoleKeepsOwnership /\ FilesInv /\ [Next]_vars => FilesInv'
<1> SUFFICES ASSUME TypeOK, LoopInv, ConsoleKeepsOwnership, FilesInv, [Next]_vars
             PROVE  FilesInv'
  OBVIOUS
<1>1. ASSUME NEW f \in Identities \cup {Missing, Broken},
             HandEditIdentity(f)
      PROVE  FilesInv'
  BY <1>1 DEF FilesInv, HandEditIdentity, live, sync, requests, IdentityRead, PersonaRead, Idle, TypeOK
<1>2. ASSUME NEW f \in Cards \cup {Missing, Broken},
             HandEditPersona(f)
      PROVE  FilesInv'
  BY <1>2 DEF FilesInv, HandEditPersona, live, sync, requests, IdentityRead, PersonaRead, Idle, TypeOK
<1>3. ASSUME NEW u \in Updates, NEW p \in Patches,
             PutConfig(u, p)
      PROVE  FilesInv'
  <2>1. reading' = "identity"
    BY <1>3 DEF PutConfig, BeginSync
  <2> QED BY <2>1 DEF FilesInv, Idle
<1>4. ASSUME NEW u \in Updates, NEW p \in Patches,
             PutPersona(u, p)
      PROVE  FilesInv'
  <2>1. Idle' /\ phase' = "up" /\ ~stamped'
    BY <1>4 DEF PutPersona, Serving, Idle, sync
  <2> QED BY <2>1 DEF FilesInv, Idle
<1>5. ASSUME NEW u \in Updates, NEW on \in BOOLEAN,
             TogglePlatform(u, on)
      PROVE  FilesInv'
  <2>1. config'.card = config.card
    BY <1>5 DEF TogglePlatform, TypeOK, AppConfig
  <2> QED BY <1>5, <2>1 DEF FilesInv, IdentityRead, PersonaRead, TogglePlatform, Serving, Idle, files, sync
<1>6. ASSUME NEW owners \in (SUBSET Users) \cup {Keep}, NEW policy \in BOOLEAN \cup {Keep},
             PutIdentity(owners, policy)
      PROVE  FilesInv'
  <2>1. Idle' /\ phase' = "up" /\ ~stamped'
    BY <1>6 DEF PutIdentity, Serving, Idle, sync
  <2> QED BY <2>1 DEF FilesInv, Idle
<1>7. ASSUME NEW u \in Updates,
             RowWritten(u)
      PROVE  FilesInv'
  BY <1>7 DEF FilesInv, RowWritten, files, live, sync, history, IdentityRead, PersonaRead, Idle, TypeOK
<1>8. ASSUME NEW u \in Updates,
             Rebuild(u)
      PROVE  FilesInv'
  BY <1>8 DEF FilesInv, Rebuild, Answered, files, sync, IdentityRead, PersonaRead, Idle, TypeOK
<1>9. ASSUME NEW u \in Updates,
             PutFails(u)
      PROVE  FilesInv'
  BY <1>9 DEF FilesInv, PutFails, Answered, files, live, sync, IdentityRead, PersonaRead, Idle, TypeOK
<1>10. ASSUME Turn PROVE FilesInv'
  BY <1>10 DEF FilesInv, Turn, Idle, BeginSync, files, live, requests, IdentityRead, PersonaRead, TypeOK
<1>11. ASSUME ConsoleReads PROVE FilesInv'
  BY <1>11 DEF FilesInv, ConsoleReads, Serving, BeginSync, files, live, requests, IdentityRead, PersonaRead, Idle, TypeOK
<1>12. ASSUME ReadIdentity PROVE FilesInv'
  <2>1. identityFile \in Identities \cup {Missing}
    BY <1>12 DEF TypeOK, ReadIdentity
  <2>2. LoadedIdentity(identityFile) \in Identities
        /\ BuiltinOwners \subseteq LoadedIdentity(identityFile).owners
    BY <2>1, LoadedTyped
  <2>3. LoadedIdentity(identity') = identity'
    BY <1>12, <2>2, EnsuredLoads DEF ReadIdentity
  <2>4. identity' # Broken
    BY <1>12, <2>2, RuntimeAssumption DEF ReadIdentity
  <2>5. IdentityRead'
    BY <1>12, <2>3, <2>4 DEF IdentityRead, ReadIdentity
  <2>6. reading' = "persona"
    BY <1>12 DEF ReadIdentity
  <2> QED BY <2>5, <2>6 DEF FilesInv, Idle
<1>13. ASSUME ReadPersona PROVE FilesInv'
  <2>1. PersonaRead'
    BY <1>13 DEF PersonaRead, ReadPersona, files, TypeOK, AppConfig
  <2>2. IdentityRead' = IdentityRead /\ raced' = raced
    BY <1>13 DEF IdentityRead, ReadPersona, files, history
  <2>3. reading = "persona" /\ reading' = "stamp"
    BY <1>13 DEF ReadPersona
  <2> QED BY <2>1, <2>2, <2>3 DEF FilesInv, Idle
<1>14. ASSUME Touch PROVE FilesInv'
  BY <1>14 DEF FilesInv, Touch, EndSync, files, live, history, requests, IdentityRead, PersonaRead, Idle, TypeOK
<1>15. ASSUME ReadFails PROVE FilesInv'
  BY <1>15 DEF FilesInv, ReadFails, EndSync, files, live, IdentityRead, PersonaRead, Idle, TypeOK
<1>16. ASSUME Start PROVE FilesInv'
  <2>1. Idle
    BY <1>16 DEF LoopInv, Start
  <2>2. /\ identityFile \in Identities \cup {Missing}
        /\ personaFile \in Cards \cup {Missing}
    BY <1>16 DEF TypeOK, Start
  <2>3. LoadedIdentity(identityFile) \in Identities
        /\ LoadedIdentity(LoadedIdentity(identityFile)) = LoadedIdentity(identityFile)
    BY <2>2, LoadedTyped, EnsuredLoads
  <2>4. IdentityRead'
    BY <1>16, <2>2, <2>3, RuntimeAssumption DEF IdentityRead, Start
  <2>5. BootCard(personaFile, row) \in Cards /\ config'.card = BootCard(personaFile, row)
    BY <1>16, <2>2, BootCardTyped DEF Start, TypeOK
  <2>6. LoadedCard(config'.card) = config'.card /\ config'.card # Broken
    BY <2>5, RuntimeAssumption DEF LoadedCard
  <2>7. PersonaRead'
    BY <1>16, <2>2, <2>6, RuntimeAssumption DEF PersonaRead, Start
  <2>8. Idle'
    BY <1>16, <2>1 DEF Start, Idle, sync
  <2> QED BY <2>4, <2>7, <2>8 DEF FilesInv, Idle
<1>17. ASSUME Started PROVE FilesInv'
  BY <1>17 DEF FilesInv, Started, files, live, sync, requests, history, IdentityRead, PersonaRead, Idle, TypeOK
<1>18. ASSUME NEW e \in Environments,
             Stop(e)
      PROVE  FilesInv'
  BY <1>18 DEF FilesInv, Stop, EndSync, files, live, history, IdentityRead, PersonaRead, Idle, TypeOK
<1>19. ASSUME NEW u \in Updates, NEW p \in Patches,
             PersonaNotSaved(u, p)
      PROVE  FilesInv'
  <2>1. Idle' /\ phase' = "up" /\ raced' = raced /\ unsaved'
    BY <1>19 DEF PersonaNotSaved, Serving, Idle, sync
  <2>2. stamped' => stamped /\ UNCHANGED files
    BY <1>19 DEF PersonaNotSaved, files, TypeOK
  <2>3. UNCHANGED <<identity, identityFile>>
    BY <1>19 DEF PersonaNotSaved
  <2>4. phase = "up" /\ Idle
    BY <1>19 DEF PersonaNotSaved, Serving
  <2> QED BY <2>1, <2>2, <2>3, <2>4 DEF FilesInv, IdentityRead, files, Idle
<1>20. ASSUME IdentityNotSaved PROVE FilesInv'
  <2>1. Idle' /\ phase' = "up" /\ ~stamped'
    BY <1>20 DEF IdentityNotSaved, Serving, Idle, sync
  <2> QED BY <2>1 DEF FilesInv, Idle
<1>21. ASSUME UNCHANGED vars PROVE FilesInv'
  BY <1>21 DEF FilesInv, vars, files, live, sync, requests, history, IdentityRead, PersonaRead, Idle, TypeOK
<1> QED BY <1>1, <1>2, <1>3, <1>4, <1>5, <1>6, <1>7, <1>8, <1>9, <1>10, <1>11, <1>12, <1>13, <1>14, <1>15, <1>16, <1>17, <1>18, <1>19, <1>20, <1>21
  DEF Next, HandEdit, Request, GrantOwners, Settle, Sync, End

(* For every number of requests, cards and users: an edit of the files that *)
(* the recorded stamp covers has been read, however the edits, the turns    *)
(* and the console's requests were interleaved.                             *)
THEOREM EditsKept == Spec => []EditsPickedUp
<1>1. Init => LoopInv /\ FilesInv
  BY DEF Init, LoopInv, FilesInv, Idle, Busy
<1>2. FilesInv => EditsPickedUp
  BY DEF FilesInv, EditsPickedUp, IdentityRead, PersonaRead
<1> QED BY <1>1, <1>2, TypeCorrect, LoopStep, ConsoleKept, FilesStep, PTL DEF Spec
=============================================================================
