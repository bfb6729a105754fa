---------------------------- MODULE RecordsProofs ----------------------------
(***************************************************************************)
(* Proofs about the components of RecordParts, for any agents, models,     *)
(* keys, settings, policies, tasks and sessions, each with an inductive    *)
(* invariant of its own: the registry of agents and what it removes with   *)
(* one, the models and their keys, the settings, the policy for commands,  *)
(* the views of the desktop, the task of a session and the database.       *)
(* Their variables are w1, w2, ... as RecordParts gives them.              *)
(*                                                                         *)
(* The registry and the settings are of one program at a time              *)
(* (Programs = {p}): two programs over the same tables and files may       *)
(* remove what the other has read.  So is the task of a session, of one    *)
(* process (Writers = {p}) that can read its row.  Any number of           *)
(* processes may open the database.                                        *)
(***************************************************************************)
EXTENDS RecordParts, FunctionTheorems, FiniteSetTheorems, SequenceTheorems, TLAPS

-----------------------------------------------------------------------------
(* The registry of agents (AgentRegistry), for one program.  Here rows,    *)
(* sessions and memories are w2, w4 and w6; running, mine, open, todo and  *)
(* leaving are w9, w10, w12, w13 and w14.                                  *)

LEMMA RegistryInit ==
    ASSUME Registry!Init
    PROVE  Registry!RegistrySound
BY DEF Registry!Init, Registry!RegistrySound, Registry!Typed, Registry!SessionHasAgent,
       Registry!Resting, Registry!Staying

LEMMA RegistryTyped ==
    ASSUME Registry!Typed, NEW p \in Programs,
           \/ Registry!Start(p) \/ Registry!Stop(p)
           \/ Registry!SaveUser(p) \/ Registry!PurgeAgents(p) \/ Registry!CleanDirs(p)
           \/ Registry!PurgeSessions(p) \/ Registry!Save(p)
           \/ Registry!RemoveItsSession(p) \/ Registry!RemoveItsMemory(p)
           \/ Registry!RemoveItsIdentity(p)
           \/ \E a \in Owners :
                 \/ Registry!SaveAgent(p, a) \/ Registry!SaveSession(p, a)
                 \/ Registry!CreateAgent(p, a) \/ Registry!Remember(p, a)
                 \/ Registry!TakeTool(p, a) \/ Registry!RemoveAgent(p, a)
    PROVE  Registry!Typed'
<1> USE DEF Registry!Typed, Registry!Steps
<1>1. CASE Registry!Start(p)
  <2>1. PICK agents \in SUBSET Owners, its \in SUBSET Owners :
           /\ Registry!Load(p, agents, its)
           /\ w13' = w13 \/ w13' = [w13 EXCEPT ![p] = Registry!WholeSave]
    <3>1. CASE Registry!LoadTables(p)
      BY <3>1 DEF Registry!LoadTables
    <3>2. CASE Registry!LoadFiles(p)
      <4>1. w8 \in SUBSET Owners /\ {} \in SUBSET Owners
        OBVIOUS
      <4> QED
        BY <3>2, <4>1 DEF Registry!LoadFiles
    <3> QED
      BY <1>1, <3>1, <3>2 DEF Registry!Start
  <2>2. /\ w10' \in [Programs -> SUBSET Owners] /\ w11' \in [Programs -> SUBSET Owners]
        /\ w12' \in [Programs -> SUBSET Owners] /\ w5' = w5 \cup agents
    BY <2>1 DEF Registry!Load, Registry!WithDirs, Registry!AfterMerge
  <2>3. w13' \in [Programs -> SUBSET (Registry!Steps \cup Owners)]
    BY <2>1 DEF Registry!WholeSave
  <2> QED
    BY <1>1, <2>2, <2>3 DEF Registry!Start
<1>2. CASE Registry!Stop(p)
  BY <1>2 DEF Registry!Stop, Registry!Staying, Registry!disk
<1>3. CASE Registry!SaveUser(p)
  BY <1>3 DEF Registry!SaveUser
<1>4. CASE Registry!PurgeAgents(p)
  BY <1>4 DEF Registry!PurgeAgents, Registry!Done
<1>5. CASE Registry!CleanDirs(p)
  BY <1>5 DEF Registry!CleanDirs
<1>6. CASE Registry!PurgeSessions(p)
  BY <1>6 DEF Registry!PurgeSessions
<1>7. CASE Registry!Save(p)
  BY <1>7 DEF Registry!Save, Registry!WholeSave, Registry!disk
<1>8. CASE Registry!RemoveItsSession(p)
  BY <1>8 DEF Registry!RemoveItsSession, Registry!WholeSave
<1>9. CASE Registry!RemoveItsMemory(p)
  BY <1>9 DEF Registry!RemoveItsMemory, Registry!Staying
<1>10. CASE Registry!RemoveItsIdentity(p)
  BY <1>10 DEF Registry!RemoveItsIdentity, Registry!WholeSave, Registry!Staying, Registry!disk
<1>11. ASSUME NEW a \in Owners, Registry!SaveAgent(p, a) PROVE Registry!Typed'
  BY <1>11 DEF Registry!SaveAgent, Registry!Done
<1>12. ASSUME NEW a \in Owners, Registry!SaveSession(p, a) PROVE Registry!Typed'
  BY <1>12 DEF Registry!SaveSession, Registry!Done
<1>13. ASSUME NEW a \in Owners, Registry!CreateAgent(p, a) PROVE Registry!Typed'
  BY <1>13 DEF Registry!CreateAgent, Registry!WithDirs, Registry!WholeSave
<1>14. ASSUME NEW a \in Owners, Registry!Remember(p, a) PROVE Registry!Typed'
  BY <1>14 DEF Registry!Remember, Registry!process
<1>15. ASSUME NEW a \in Owners, Registry!TakeTool(p, a) PROVE Registry!Typed'
  BY <1>15 DEF Registry!TakeTool, Registry!WholeSave, Registry!disk
<1>16. ASSUME NEW a \in Owners, Registry!RemoveAgent(p, a) PROVE Registry!Typed'
  BY <1>16 DEF Registry!RemoveAgent, Registry!disk
<1> QED
  BY <1>1, <1>2, <1>3, <1>4, <1>5, <1>6, <1>7, <1>8, <1>9, <1>10, <1>11, <1>12, <1>13, <1>14,
     <1>15, <1>16

LEMMA RegistryKept ==
    ASSUME Registry!RegistrySound, RegistryAssumption, Registry!Typed', NEW p, Programs = {p},
           p \in Programs,
           \/ Registry!Start(p) \/ Registry!Stop(p)
           \/ Registry!SaveUser(p) \/ Registry!PurgeAgents(p) \/ Registry!CleanDirs(p)
           \/ Registry!PurgeSessions(p) \/ Registry!Save(p)
           \/ Registry!RemoveItsSession(p) \/ Registry!RemoveItsMemory(p)
           \/ Registry!RemoveItsIdentity(p)
           \/ \E a \in Owners :
                 \/ Registry!SaveAgent(p, a) \/ Registry!SaveSession(p, a)
                 \/ Registry!CreateAgent(p, a) \/ Registry!Remember(p, a)
                 \/ Registry!TakeTool(p, a) \/ Registry!RemoveAgent(p, a)
    PROVE  Registry!RegistrySound'
<1> DEFINE Others ==
              /\ Registry!SessionHasAgent
              /\ ~w1 => w2 = {} /\ w4 = {}
              /\ IF p \in w9 THEN Registry!ProgramSound(p) ELSE Registry!Resting(p)
<1> SUFFICES Others'
  BY DEF Registry!RegistrySound
<1>0. Registry!Typed /\ Others
  BY DEF Registry!RegistrySound
<1> USE <1>0 DEF Registry!Typed, Registry!Steps, RegistryAssumption, Registry!SessionHasAgent,
       Registry!ProgramSound, Registry!SaveSound, Registry!Resting
<1>1. CASE Registry!Start(p)
  <2>1. /\ Registry!Resting(p) /\ p \in w9' /\ w1' = w1 /\ w2' = w2 /\ w4' = w4 /\ w14' = w14
    BY <1>1 DEF Registry!Start
  <2>2. w14[p].step = "none"
    BY <2>1 DEF Registry!Staying
  <2>3. CASE Registry!LoadTables(p)
    <3>1. w10'[p] = w2 /\ w12'[p] = w4 /\ w11'[p] = {} /\ w13'[p] = {}
      BY <2>1, <2>3 DEF Registry!LoadTables, Registry!Load, Registry!AfterMerge
    <3> QED
      BY <2>1, <2>2, <3>1
  <2>4. CASE Registry!LoadFiles(p)
    <3>1. PICK agents \in SUBSET Owners :
             /\ w10'[p] = agents /\ w12'[p] = agents /\ w11'[p] = {}
             /\ w13'[p] = {} \/ w13'[p] = Registry!WholeSave
      <4>1. w8 \in SUBSET Owners /\ {} \in SUBSET Owners
        OBVIOUS
      <4> QED
        BY <2>1, <2>4, <4>1 DEF Registry!LoadFiles, Registry!Load, Registry!AfterMerge
    <3>2. w4 = {} /\ w2 = {}
      BY <2>4 DEF Registry!LoadFiles
    <3>3. CASE w13'[p] = {}
      BY <2>1, <2>2, <3>1, <3>2, <3>3
    <3>4. CASE w13'[p] = Registry!WholeSave
      BY <2>1, <2>2, <3>1, <3>2, <3>4 DEF Registry!WholeSave
    <3> QED
      BY <3>1, <3>3, <3>4
  <2> QED
    BY <1>1, <2>3, <2>4 DEF Registry!Start
<1>2. CASE Registry!Stop(p)
  BY <1>2 DEF Registry!Stop, Registry!Staying, Registry!disk
<1>3. CASE Registry!SaveUser(p)
  BY <1>3 DEF Registry!SaveUser
<1>4. CASE Registry!PurgeAgents(p)
  BY <1>4 DEF Registry!PurgeAgents, Registry!Done
<1>5. CASE Registry!CleanDirs(p)
  <2>1. /\ "dirs" \in w13[p] /\ "identities" \notin w13[p]
        /\ w13'[p] = (w13[p] \ {"dirs"}) \cup w12[p]
        /\ UNCHANGED <<w1, w2, w4, w9, w10, w11, w12, w14>>
    BY <1>5 DEF Registry!CleanDirs
  <2>2. p \in w9 /\ Registry!ProgramSound(p)
    BY <2>1
  <2>3. w12[p] \subseteq Owners
    OBVIOUS
  <2>4. /\ "begin" \notin w13[p] /\ "begin" \notin w13'[p] /\ "identities" \notin w13'[p]
        /\ w2 = w10[p] /\ w13'[p] \cap Owners \subseteq w12[p]
    <3>1. \A a \in Owners : a # "begin" /\ a # "identities" /\ a # "dirs"
      OBVIOUS
    <3>2. w2 = w10[p] /\ "begin" \notin w13[p] /\ w13[p] \cap Owners = {}
      BY <2>1, <2>2
    <3> QED
      BY <2>1, <2>3, <3>1, <3>2
  <2>5. Registry!SaveSound(p)'
    BY <2>1, <2>4
  <2> QED
    BY <2>1, <2>2, <2>5
<1>6. CASE Registry!PurgeSessions(p)
  BY <1>6 DEF Registry!PurgeSessions
<1>7. CASE Registry!Save(p)
  BY <1>7 DEF Registry!Save, Registry!WholeSave, Registry!disk, Registry!Calm, Registry!Idle
<1>8. CASE Registry!RemoveItsSession(p)
  BY <1>8 DEF Registry!RemoveItsSession, Registry!WholeSave, Registry!Idle
<1>9. CASE Registry!RemoveItsMemory(p)
  BY <1>9 DEF Registry!RemoveItsMemory, Registry!Staying, Registry!Idle
<1>10. CASE Registry!RemoveItsIdentity(p)
  BY <1>10 DEF Registry!RemoveItsIdentity, Registry!WholeSave, Registry!Staying, Registry!disk, Registry!Idle
<1>11. ASSUME NEW a \in Owners, Registry!SaveAgent(p, a) PROVE Others'
  <2>1. /\ "identities" \in w13[p] /\ a \in w13[p] /\ "begin" \notin w13[p]
        /\ w2' = w2 \cup {a} /\ w13'[p] = w13[p] \ {a}
        /\ UNCHANGED <<w1, w4, w9, w10, w11, w12, w14>>
    BY <1>11 DEF Registry!SaveAgent, Registry!Done
  <2>2. p \in w9 /\ Registry!ProgramSound(p)
    BY <2>1
  <2>3. a # "begin" /\ a # "identities" /\ a # "dirs"
    OBVIOUS
  <2>4. Registry!SaveSound(p)'
    BY <2>1, <2>2, <2>3
  <2> QED
    BY <2>1, <2>2, <2>4
<1>12. ASSUME NEW a \in Owners, Registry!SaveSession(p, a) PROVE Others'
  BY <1>12 DEF Registry!SaveSession, Registry!Done
<1>13. ASSUME NEW a \in Owners, Registry!CreateAgent(p, a) PROVE Others'
  BY <1>13 DEF Registry!CreateAgent, Registry!WithDirs, Registry!WholeSave, Registry!Calm, Registry!Idle, Registry!Staying
<1>14. ASSUME NEW a \in Owners, Registry!Remember(p, a) PROVE Others'
  BY <1>14 DEF Registry!Remember, Registry!process, Registry!Calm, Registry!Idle
<1>15. ASSUME NEW a \in Owners, Registry!TakeTool(p, a) PROVE Others'
  BY <1>15 DEF Registry!TakeTool, Registry!WholeSave, Registry!disk, Registry!Calm, Registry!Idle, Registry!Staying
<1>16. ASSUME NEW a \in Owners, Registry!RemoveAgent(p, a) PROVE Others'
  BY <1>16 DEF Registry!RemoveAgent, Registry!disk, Registry!Calm, Registry!Idle
<1> QED
  BY <1>1, <1>2, <1>3, <1>4, <1>5, <1>6, <1>7, <1>8, <1>9, <1>10, <1>11, <1>12, <1>13, <1>14, <1>15, <1>16

\* No statement of a save removes the memory of an agent that is stored.
LEMMA RegistryMemory ==
    ASSUME Registry!RegistrySound, NEW p, Programs = {p}, Registry!Next
    PROVE  Registry!MemoryStep
<1> SUFFICES ASSUME NEW a \in w2 \cap w6, a \notin w6'
             PROVE  w14[p] = [agent |-> a, step |-> "memory"]
  BY DEF Registry!MemoryStep
<1>1. /\ w14[p] \in [agent : Owners \cup {None}, step : {"none", "session", "memory", "identity"}]
      /\ IF p \in w9 THEN Registry!ProgramSound(p) ELSE Registry!Resting(p)
  BY DEF Registry!RegistrySound, Registry!Typed
<1>2. CASE Registry!CleanDirs(p)
  <2>1. w2 = w10[p]
    BY <1>1, <1>2 DEF Registry!CleanDirs, Registry!ProgramSound, Registry!SaveSound, Registry!Resting
  <2> QED
    BY <1>2, <2>1 DEF Registry!CleanDirs
<1>3. CASE Registry!RemoveItsMemory(p)
  BY <1>1, <1>3 DEF Registry!RemoveItsMemory
<1>4. \/ w6' = w6 \/ Registry!CleanDirs(p) \/ Registry!RemoveItsMemory(p)
      \/ \E b \in Owners : w6' = w6 \cup {b}
  BY DEF Registry!Next, Registry!Start, Registry!Stop, Registry!SaveUser, Registry!PurgeAgents,
         Registry!PurgeSessions, Registry!Save, Registry!RemoveItsSession,
         Registry!RemoveItsIdentity, Registry!SaveAgent, Registry!SaveSession,
         Registry!CreateAgent, Registry!Remember, Registry!TakeTool, Registry!RemoveAgent,
         Registry!disk
<1> QED
  BY <1>2, <1>3, <1>4

LEMMA RegistryStep ==
    ASSUME Registry!RegistrySound, RegistryAssumption, NEW p, Programs = {p},
           Registry!Next \/ UNCHANGED Registry!vars
    PROVE  Registry!RegistrySound'
<1>1. CASE Registry!Next
  BY <1>1, RegistryTyped, RegistryKept DEF Registry!Next, Registry!RegistrySound
<1>2. CASE UNCHANGED Registry!vars
  BY <1>2 DEF Registry!vars, Registry!disk, Registry!process, Registry!RegistrySound,
              Registry!Typed, Registry!SessionHasAgent, Registry!ProgramSound,
              Registry!SaveSound, Registry!Resting
<1> QED
  BY <1>1, <1>2

LEMMA RegistryFacts ==
    ASSUME Registry!RegistrySound, NEW p, Programs = {p}
    PROVE  Registry!TypeOK /\ Registry!SessionHasAgent
<1>1. /\ w11[p] \subseteq w10[p] /\ w10[p] \in SUBSET Owners /\ w12[p] \in SUBSET Owners
      /\ w13[p] \in SUBSET (Registry!Steps \cup Owners)
      /\ w14[p] \in [agent : Owners \cup {None}, step : {"none", "session", "memory", "identity"}]
  BY DEF Registry!RegistrySound, Registry!Typed, Registry!ProgramSound, Registry!Resting
<1> QED
  BY <1>1 DEF Registry!RegistrySound, Registry!Typed, Registry!TypeOK, Registry!Steps

-----------------------------------------------------------------------------
(* The providers of models (ModelCatalog).  Here file, keychain, up and    *)
(* edits are w1, w2, w4 and w7.                                            *)

LEMMA CatalogInit ==
    ASSUME Catalog!Init, CatalogAssumption
    PROVE  Catalog!CatalogSound
<1> USE DEF CatalogAssumption, Catalog!NoEntry, Catalog!Entries, Catalog!Refs, Catalog!Choices,
            Catalog!Nowhere, Catalog!Nothing, Catalog!NoChoice
<1>1. Catalog!NoChoice \in Catalog!Choices /\ Catalog!Nowhere \in [ProviderIds -> Catalog!Entries \cup {Catalog!NoEntry}]
  OBVIOUS
<1>2. /\ w2 = [m \in Models |-> None] /\ w3 = Catalog!NoChoice /\ w6 = Catalog!NoChoice
      /\ w4 = FALSE /\ w5 = [i \in ProviderIds |-> Absent] /\ w7 = 0
  BY DEF Catalog!Init
<1>2a. w2 \in [Models -> ProviderIds \cup {None}]
  BY <1>2
<1>2b. w5 \in [ProviderIds -> ProviderIds \cup {Absent, None, Env}]
  BY <1>2
<1>2c. w3 \in Catalog!Choices /\ w6 \in Catalog!Choices
  BY <1>1, <1>2
<1>2d. w4 \in BOOLEAN
  BY <1>2
<1>2e. w7 \in 0 .. MaxModelEdits
  BY <1>2
<1>3. CASE w1 = [kind |-> "missing", list |-> Catalog!Nowhere, default |-> Catalog!NoChoice]
  BY <1>1, <1>2, <1>2a, <1>2b, <1>2c, <1>2d, <1>2e, <1>3 DEF Catalog!CatalogSound, Catalog!DefaultListed, Catalog!Listed
<1>4. ASSUME NEW i \in ProviderIds, NEW m \in Models, NEW k \in {None, Env},
             w1 = [kind |-> "v1",
                   list |-> [Catalog!Nowhere EXCEPT ![i] = [enabled |-> TRUE, key |-> k]],
                   default |-> [provider |-> i, model |-> m]]
      PROVE  Catalog!CatalogSound
  <2>1. [enabled |-> TRUE, key |-> k] \in Catalog!Entries /\ [enabled |-> TRUE, key |-> k] # Catalog!NoEntry
    OBVIOUS
  <2>2. [provider |-> i, model |-> m] \in Catalog!Choices
    OBVIOUS
  <2>3. /\ w1.list \in [ProviderIds -> Catalog!Entries \cup {Catalog!NoEntry}]
        /\ w1.list[i] = [enabled |-> TRUE, key |-> k]
    BY <1>1, <1>4, <2>1
  <2>4. i \in Catalog!Listed(w1) /\ w1.default.provider = i /\ w1.kind = "v1"
    BY <1>4, <2>1, <2>3 DEF Catalog!Listed
  <2>5. w1 \in [kind : {"missing", "torn", "v1", "v2"},
                list : [ProviderIds -> Catalog!Entries \cup {Catalog!NoEntry}], default : Catalog!Choices]
    BY <1>4, <2>2, <2>3
  <2> QED
    BY <1>2, <1>2a, <1>2b, <1>2c, <1>2d, <1>2e, <2>4, <2>5 DEF Catalog!CatalogSound, Catalog!DefaultListed
<1> QED
  BY <1>3, <1>4 DEF Catalog!Init

\* What is read of the file (Readable) has the providers and the default of the file.
LEMMA CatalogReadable ==
    ASSUME Catalog!CatalogSound, CatalogAssumption
    PROVE  LET f == Catalog!Readable(w1) IN
           /\ f \in [kind : {"v1", "v2"}, list : [ProviderIds -> Catalog!Entries \cup {Catalog!NoEntry}],
                     default : Catalog!Choices]
           /\ Catalog!Listed(f) = Catalog!Listed(w1)
           /\ f.default.provider \in Catalog!Listed(f) \cup {None}
           /\ w4 => Catalog!Providers(f) = f.list
           /\ f.kind = w1.kind \/ Catalog!Listed(f) = {}
           /\ \A i \in Catalog!Listed(w1) : f.list[i] = w1.list[i]
           /\ Catalog!Providers(f) \in [ProviderIds -> Catalog!Entries \cup {Catalog!NoEntry}]
<1> DEFINE f == Catalog!Readable(w1)
<1> DEFINE Lists == [ProviderIds -> Catalog!Entries \cup {Catalog!NoEntry}]
<1>1. Catalog!Nowhere \in Lists /\ \A i \in ProviderIds : Catalog!Nowhere[i] = Catalog!NoEntry
  BY DEF Catalog!Nowhere
<1>2. Catalog!NoChoice \in Catalog!Choices /\ Catalog!NoChoice.provider = None
  BY DEF Catalog!NoChoice, Catalog!Choices
<1>3. CASE w1.kind \in {"missing", "torn"}
  <2>1. f = [kind |-> "v2", list |-> Catalog!Nowhere, default |-> Catalog!NoChoice]
    BY <1>3 DEF Catalog!Readable
  <2>2. Catalog!Listed(f) = {} /\ Catalog!Listed(w1) = {}
    BY <1>1, <1>3, <2>1 DEF Catalog!Listed, Catalog!CatalogSound
  <2>3. Catalog!Providers(f) = f.list
    BY <2>1 DEF Catalog!Providers
  <2>4. f.list \in Lists /\ f.default \in Catalog!Choices /\ f.default.provider = None /\ f.kind = "v2"
    BY <1>1, <1>2, <2>1
  <2> QED
    BY <1>1, <1>2, <2>1, <2>2, <2>3, <2>4
<1>4. CASE w1.kind \in {"v1", "v2"}
  <2>1. f = w1
    BY <1>4 DEF Catalog!Readable
  <2>2. /\ w1 \in [kind : {"missing", "torn", "v1", "v2"}, list : Lists, default : Catalog!Choices]
        /\ w1.default.provider \in Catalog!Listed(w1) \cup {None}
        /\ w1.kind = "v1" /\ w4 => Catalog!Listed(w1) = {}
    BY DEF Catalog!CatalogSound, Catalog!DefaultListed
  <2>3. w4 => Catalog!Providers(f) = f.list
    <3>1. SUFFICES ASSUME w4, w1.kind = "v1" PROVE Catalog!Nowhere = w1.list
      BY <1>4, <2>1 DEF Catalog!Providers
    <3>2. \A i \in ProviderIds : w1.list[i] = Catalog!NoEntry
      BY <2>2, <3>1 DEF Catalog!Listed
    <3> QED
      BY <1>1, <2>2, <3>2
  <2>4. Catalog!Providers(f) \in Lists
    BY <1>1, <2>1, <2>2 DEF Catalog!Providers
  <2> QED
    BY <1>4, <2>1, <2>2, <2>3, <2>4
<1> QED
  BY <1>3, <1>4 DEF Catalog!CatalogSound

\* A file that is written with a default it lists is sound, and only the reference to the
\* key of provider i is another when the others are written as they were.
LEMMA CatalogWritten ==
    ASSUME CatalogAssumption,
           NEW list \in [ProviderIds -> Catalog!Entries \cup {Catalog!NoEntry}], NEW d \in Catalog!Choices,
           d.provider # None => d.provider \in ProviderIds /\ list[d.provider] # Catalog!NoEntry,
           w1' = Catalog!Written(list, d),
           w2' \in [Models -> ProviderIds \cup {None}], w3' \in Catalog!Choices, w6' \in Catalog!Choices,
           w4' \in BOOLEAN, w5' \in [ProviderIds -> ProviderIds \cup {Absent, None, Env}],
           w7' \in 0 .. MaxModelEdits
    PROVE  Catalog!CatalogSound'
<1>1. w1' = [kind |-> "v2", list |-> list, default |-> d]
  BY DEF Catalog!Written
<1>2. /\ w1'.list = list /\ w1'.default = d /\ w1'.kind = "v2"
      /\ w1' \in [kind : {"missing", "torn", "v1", "v2"},
                  list : [ProviderIds -> Catalog!Entries \cup {Catalog!NoEntry}], default : Catalog!Choices]
  BY <1>1
<1>3. Catalog!DefaultListed'
  BY <1>2 DEF Catalog!DefaultListed, Catalog!Listed
<1> QED
  BY <1>2, <1>3 DEF Catalog!CatalogSound

LEMMA CatalogOneKey ==
    ASSUME NEW i \in ProviderIds, Catalog!Rekeyed \subseteq {i}, w7' # w7
    PROVE  Catalog!KeyStep
<1>1. Catalog!Rekeyed = {} \/ Catalog!Rekeyed = {i}
  OBVIOUS
<1> QED
  BY <1>1, Zenon DEF Catalog!KeyStep

\* Each step of the component keeps the invariant and the references to keys.
LEMMA CatalogStep ==
    ASSUME Catalog!CatalogSound, CatalogAssumption, Catalog!Next
    PROVE  Catalog!CatalogSound' /\ Catalog!KeyStep
<1> DEFINE f == Catalog!Readable(w1)
<1> DEFINE Lists == [ProviderIds -> Catalog!Entries \cup {Catalog!NoEntry}]
<1>1. /\ f \in [kind : {"v1", "v2"}, list : Lists, default : Catalog!Choices]
      /\ Catalog!Listed(f) = Catalog!Listed(w1)
      /\ f.default.provider \in Catalog!Listed(f) \cup {None}
      /\ w4 => Catalog!Providers(f) = f.list
      /\ f.kind = w1.kind \/ Catalog!Listed(f) = {}
      /\ \A i \in Catalog!Listed(w1) : f.list[i] = w1.list[i]
      /\ Catalog!Providers(f) \in Lists
  BY CatalogReadable
<1>2. /\ w1 \in [kind : {"missing", "torn", "v1", "v2"}, list : Lists, default : Catalog!Choices]
      /\ w2 \in [Models -> ProviderIds \cup {None}]
      /\ w3 \in Catalog!Choices /\ w6 \in Catalog!Choices /\ w4 \in BOOLEAN
      /\ w5 \in [ProviderIds -> ProviderIds \cup {Absent, None, Env}]
      /\ w7 \in 0 .. MaxModelEdits
      /\ w1.default.provider \in Catalog!Listed(w1) \cup {None}
      /\ w1.kind \in {"missing", "torn"} => Catalog!Listed(w1) = {}
      /\ w1.kind = "v1" /\ w4 => Catalog!Listed(w1) = {}
  BY DEF Catalog!CatalogSound, Catalog!DefaultListed
<1>3. \A i \in Catalog!Listed(w1) : i \in ProviderIds /\ w1.list[i] \in Catalog!Entries /\ w1.list[i] # Catalog!NoEntry
  BY <1>2 DEF Catalog!Listed
<1>4. \A b \in BOOLEAN, k \in {None, Env} \cup Models :
         [enabled |-> b, key |-> k] \in Catalog!Entries /\ [enabled |-> b, key |-> k] # Catalog!NoEntry
  BY DEF Catalog!Entries, Catalog!Refs, Catalog!NoEntry, CatalogAssumption
<1>5. ASSUME w1' = w1 PROVE Catalog!Rekeyed = {}
  BY <1>5 DEF Catalog!Rekeyed
<1>6. ASSUME Catalog!Edit PROVE w4 = TRUE /\ w7' \in 0 .. MaxModelEdits /\ w7' # w7
  BY <1>2, <1>6 DEF Catalog!Edit, CatalogAssumption
<1>7. Catalog!Nothing \in [ProviderIds -> ProviderIds \cup {Absent, None, Env}] /\ Catalog!NoChoice \in Catalog!Choices
  BY DEF Catalog!Nothing, Catalog!NoChoice, Catalog!Choices
\* A list in which the entry of i alone is another.
<1>8. ASSUME NEW i \in ProviderIds, NEW list \in Lists, NEW d,
             \A j \in Catalog!Listed(w1) \ {i} : list[j] = w1.list[j],
             w1' = Catalog!Written(list, d)
      PROVE  Catalog!Rekeyed \subseteq {i}
  <2>1. w1'.list = list
    BY <1>8 DEF Catalog!Written
  <2> QED
    BY <1>8, <2>1 DEF Catalog!Rekeyed
<1>9. ASSUME NEW i \in ProviderIds, NEW e, w4 = TRUE
      PROVE  \A j \in Catalog!Listed(w1) \ {i} : [Catalog!Providers(f) EXCEPT ![i] = e][j] = w1.list[j]
  BY <1>1, <1>3, <1>9
<1> HIDE DEF f, Lists
<1>10. CASE Catalog!LoadConfig
  <2>1. w4 = FALSE /\ w4' = TRUE /\ UNCHANGED <<w2, w3, w7>>
    BY <1>2, <1>10 DEF Catalog!LoadConfig
  <2>2. CASE w1.kind = "missing" /\ w1' = [kind |-> "v1", list |-> Catalog!Nowhere, default |-> Catalog!NoChoice]
                /\ UNCHANGED <<w5, w6>>
    <3>1. w1'.kind = "v1" /\ w1'.list = Catalog!Nowhere /\ w1'.default = Catalog!NoChoice
      BY <2>2
    <3>2. Catalog!Nowhere \in Lists /\ \A i \in ProviderIds : Catalog!Nowhere[i] = Catalog!NoEntry
      BY DEF Catalog!Nowhere, Lists
    <3>3. Catalog!Listed(w1)' = {} /\ Catalog!NoChoice.provider = None
      BY <3>1, <3>2 DEF Catalog!Listed, Catalog!NoChoice
    <3>4. w1' \in [kind : {"missing", "torn", "v1", "v2"}, list : Lists, default : Catalog!Choices]
      BY <1>7, <2>2, <3>2
    <3>5. Catalog!CatalogSound'
      BY <1>2, <2>1, <2>2, <3>1, <3>3, <3>4 DEF Catalog!CatalogSound, Catalog!DefaultListed, Lists
    <3>6. Catalog!Rekeyed = {}
      BY <1>2, <2>2 DEF Catalog!Rekeyed
    <3> QED
      BY <3>5, <3>6 DEF Catalog!KeyStep
  <2>3. CASE Catalog!Listed(f) = {} /\ UNCHANGED <<w1, w5, w6>>
    <3>1. Catalog!Listed(w1) = {} /\ Catalog!Listed(w1)' = {}
      BY <1>1, <2>3 DEF f
    <3>2. Catalog!CatalogSound'
      BY <1>2, <2>1, <2>3, <3>1 DEF Catalog!CatalogSound, Catalog!DefaultListed, Lists
    <3> QED
      BY <1>5, <2>3, <3>2 DEF Catalog!KeyStep
  <2>4. CASE /\ Catalog!Listed(f) # {}
             /\ w5' \in [ProviderIds -> ProviderIds \cup {Absent, None, Env}]
             /\ \E first \in Catalog!Listed(f) :
                   w6' = Catalog!Chosen(IF f.default.provider # None THEN f.default
                                        ELSE [f.default EXCEPT !.provider = first])
             /\ w1' = IF f.kind = "v1" THEN Catalog!Migrated(f) ELSE w1
    <3>1. w6' \in Catalog!Choices
      <4>1. PICK first \in Catalog!Listed(f) :
               w6' = Catalog!Chosen(IF f.default.provider # None THEN f.default
                                    ELSE [f.default EXCEPT !.provider = first])
        BY <2>4
      <4>2. f.default \in Catalog!Choices /\ first \in ProviderIds
        BY <1>1, <1>3, <4>1 DEF f
      <4> DEFINE d == IF f.default.provider # None THEN f.default ELSE [f.default EXCEPT !.provider = first]
      <4>3. d \in Catalog!Choices
        BY <4>2 DEF Catalog!Choices
      <4>4. w6' = Catalog!Chosen(d)
        BY <4>1
      <4> HIDE DEF d
      <4> QED
        BY <1>2, <4>3, <4>4 DEF Catalog!Chosen, Catalog!Choices
    <3>2. f.kind = w1.kind
      BY <1>1, <2>4 DEF f
    <3>3. w1.kind \notin {"missing", "torn"} /\ f = w1
      BY <1>1, <1>2, <2>4, <3>2 DEF f, Catalog!Readable
    <3>4. CASE f.kind = "v1"
      <4>1. w1' = Catalog!Written(f.list, f.default)
        BY <2>4, <3>4 DEF Catalog!Migrated
      <4>2. Catalog!CatalogSound'
        BY <1>2, <1>3, <2>1, <2>4, <3>1, <3>3, <4>1, CatalogWritten DEF Lists
      <4>3. Catalog!Rekeyed = {}
        BY <3>3, <4>1 DEF Catalog!Rekeyed, Catalog!Written
      <4> QED
        BY <4>2, <4>3 DEF Catalog!KeyStep
    <3>5. CASE f.kind # "v1"
      <4>1. w1' = w1 /\ w1.kind = "v2"
        BY <1>2, <2>4, <3>3, <3>5
      <4>2. Catalog!CatalogSound'
        BY <1>2, <2>1, <2>4, <3>1, <4>1 DEF Catalog!CatalogSound, Catalog!DefaultListed, Catalog!Listed, Lists
      <4> QED
        BY <1>5, <4>1, <4>2 DEF Catalog!KeyStep
    <3> QED
      BY <3>4, <3>5
  <2> QED
    BY <1>10, <2>2, <2>3, <2>4 DEF Catalog!LoadConfig, f
<1>11. ASSUME NEW i \in ProviderIds, NEW m \in Models, NEW key \in {None, Env, m}, NEW b \in BOOLEAN,
              Catalog!SaveInstance(i, m, key, b)
       PROVE  Catalog!CatalogSound' /\ Catalog!KeyStep
  <2> DEFINE e == [enabled |-> b, key |-> key]
  <2> DEFINE list == [Catalog!Providers(f) EXCEPT ![i] = e]
  <2> DEFINE d == IF f.default.provider = None THEN [f.default EXCEPT !.provider = i] ELSE f.default
  <2>1. /\ w2' = [w2 EXCEPT ![m] = i] \/ w2' = w2
        /\ w5' = [w5 EXCEPT ![i] = IF key = m THEN w2'[m] ELSE key]
        /\ w6' = [provider |-> i, model |-> m] /\ w3' = w6' /\ w4' = w4
        /\ Catalog!Edit
    BY <1>11 DEF Catalog!SaveInstance
  <2>2. w2' \in [Models -> ProviderIds \cup {None}]
    BY <1>2, <2>1
  <2>3. w5' \in [ProviderIds -> ProviderIds \cup {Absent, None, Env}]
    BY <1>2, <2>1, <2>2
  <2>4. w6' \in Catalog!Choices /\ w3' \in Catalog!Choices
    BY <2>1 DEF Catalog!Choices
  <2>5. e \in Catalog!Entries /\ e # Catalog!NoEntry
    BY <1>4
  <2>6. w1' = Catalog!Written(list, d)
    BY <1>11 DEF Catalog!SaveInstance, Catalog!Added, f
  <2> HIDE DEF e
  <2>7. list \in Lists
    BY <1>1, <2>5 DEF Lists
  <2>8. d \in Catalog!Choices /\ d.provider \in Catalog!Listed(f) \cup {i}
    BY <1>1 DEF Catalog!Choices
  <2>9. d.provider # None => d.provider \in ProviderIds /\ list[d.provider] # Catalog!NoEntry
    BY <1>1, <1>3, <1>6, <2>1, <2>5, <2>7, <2>8 DEF Lists
  <2> HIDE DEF list, d
  <2>10. Catalog!CatalogSound'
    BY <1>2, <1>6, <2>1, <2>2, <2>3, <2>4, <2>6, <2>7, <2>8, <2>9, CatalogWritten DEF Lists
  <2>11. Catalog!Rekeyed \subseteq {i}
    BY <1>6, <1>8, <1>9, <2>1, <2>6, <2>7 DEF list
  <2> QED
    BY <1>6, <2>1, <2>10, <2>11, CatalogOneKey
<1>12. ASSUME NEW i \in ProviderIds, Catalog!DeleteInstance(i)
       PROVE  Catalog!CatalogSound' /\ Catalog!KeyStep
  <2> DEFINE list == [Catalog!Providers(f) EXCEPT ![i] = Catalog!NoEntry]
  <2> DEFINE d == IF f.default.provider = i THEN Catalog!NoChoice ELSE f.default
  <2>1. Catalog!Edit /\ UNCHANGED <<w2, w3, w4, w5, w6>> /\ w1' = Catalog!Written(list, d)
    BY <1>12 DEF Catalog!DeleteInstance, Catalog!desktop, Catalog!Removed, f
  <2>2. list \in Lists
    BY <1>1 DEF Lists
  <2>3. d \in Catalog!Choices
    BY <1>1, <1>7
  <2>4. d.provider # None => d.provider \in ProviderIds /\ list[d.provider] # Catalog!NoEntry
    <3>1. d.provider # None => d.provider \in Catalog!Listed(w1) /\ d.provider # i
      BY <1>1 DEF Catalog!NoChoice
    <3> QED
      BY <1>1, <1>3, <1>6, <2>1, <3>1 DEF Lists
  <2> HIDE DEF list, d
  <2>5. Catalog!CatalogSound'
    BY <1>2, <1>6, <2>1, <2>2, <2>3, <2>4, CatalogWritten DEF Lists
  <2>6. Catalog!Rekeyed \subseteq {i}
    BY <1>6, <1>8, <1>9, <2>1, <2>2 DEF list
  <2> QED
    BY <1>6, <2>1, <2>5, <2>6, CatalogOneKey
<1>13. ASSUME NEW i \in ProviderIds, Catalog!SetDefault(i)
       PROVE  Catalog!CatalogSound' /\ Catalog!KeyStep
  <2> DEFINE list == Catalog!Providers(f)
  <2> DEFINE d == [f.default EXCEPT !.provider = i]
  <2>1. /\ Catalog!Edit /\ UNCHANGED <<w2, w3, w4, w5, w6>> /\ w1' = Catalog!Written(list, d)
        /\ i \in Catalog!Listed(f)
    BY <1>13 DEF Catalog!SetDefault, Catalog!desktop, f
  <2>2. list \in Lists
    BY <1>1
  <2>3. d \in Catalog!Choices /\ d.provider = i
    BY <1>1 DEF Catalog!Choices
  <2>4. d.provider # None => d.provider \in ProviderIds /\ list[d.provider] # Catalog!NoEntry
    BY <1>1, <1>3, <1>6, <2>1, <2>3
  <2>5. \A j \in Catalog!Listed(w1) \ {i} : list[j] = w1.list[j]
    BY <1>1, <1>6, <2>1
  <2> HIDE DEF list, d
  <2>6. Catalog!CatalogSound'
    BY <1>2, <1>6, <2>1, <2>2, <2>3, <2>4, CatalogWritten DEF Lists
  <2>7. Catalog!Rekeyed \subseteq {i}
    BY <1>8, <2>1, <2>2, <2>5
  <2> QED
    BY <1>6, <2>1, <2>6, <2>7, CatalogOneKey
<1>14. ASSUME NEW i \in ProviderIds, Catalog!Toggle(i)
       PROVE  Catalog!CatalogSound' /\ Catalog!KeyStep
  <2> DEFINE e == [f.list[i] EXCEPT !.enabled = ~@]
  <2> DEFINE list == [f.list EXCEPT ![i] = e]
  <2>1. /\ Catalog!Edit /\ UNCHANGED <<w2, w3, w4, w5, w6>> /\ i \in Catalog!Listed(f)
        /\ w1' = Catalog!Written([Catalog!Providers(f) EXCEPT ![i].enabled = ~@], f.default)
    BY <1>14 DEF Catalog!Toggle, Catalog!desktop, f
  <2>2. Catalog!Providers(f) = f.list /\ f.list \in Lists
    BY <1>1, <1>6, <2>1
  <2>3. f.list[i] \in Catalog!Entries
    BY <1>1, <1>3, <2>1
  <2>4. e \in Catalog!Entries /\ e # Catalog!NoEntry
    <3>1. e = [enabled |-> ~f.list[i].enabled, key |-> f.list[i].key]
      BY <2>3 DEF Catalog!Entries
    <3>2. f.list[i].key \in {None, Env} \cup Models
      BY <2>3 DEF Catalog!Entries, Catalog!Refs
    <3>3. (~f.list[i].enabled) \in BOOLEAN
      <4>1. f.list[i].enabled \in BOOLEAN
        BY <2>3 DEF Catalog!Entries
      <4>2. \A b \in BOOLEAN : (~b) \in BOOLEAN
        OBVIOUS
      <4> QED
        BY <4>1, <4>2, Zenon
    <3> HIDE DEF e
    <3> QED
      BY <1>4, <3>1, <3>2, <3>3
  <2>5. [Catalog!Providers(f) EXCEPT ![i].enabled = ~@] = list
    BY <2>2
  <2>6. list \in Lists
    <3> HIDE DEF e
    <3> QED
      BY <2>2, <2>4 DEF Lists
  <2>7. f.default \in Catalog!Choices /\ f.default.provider \in Catalog!Listed(w1) \cup {None}
    BY <1>1
  <2> HIDE DEF e
  <2>8. \A j \in Catalog!Listed(w1) \ {i} : list[j] = w1.list[j]
    BY <1>1, <1>3, <2>2 DEF Lists
  <2>9. f.default.provider # None =>
           f.default.provider \in ProviderIds /\ list[f.default.provider] # Catalog!NoEntry
    BY <1>3, <2>2, <2>4, <2>7, <2>8 DEF Lists
  <2> HIDE DEF list
  <2>10. w1' = Catalog!Written(list, f.default)
    BY <2>1, <2>5
  <2>11. Catalog!CatalogSound'
    BY <1>2, <1>6, <2>1, <2>6, <2>7, <2>9, <2>10, CatalogWritten DEF Lists
  <2>12. Catalog!Rekeyed \subseteq {i}
    BY <1>8, <2>6, <2>8, <2>10
  <2> QED
    BY <1>6, <2>1, <2>11, <2>12, CatalogOneKey
<1>15. ASSUME NEW i \in ProviderIds, NEW m \in Models, NEW key \in {None, Env}, NEW first \in BOOLEAN,
              Catalog!AddProvider(i, m, key, first)
       PROVE  Catalog!CatalogSound' /\ Catalog!KeyStep
  <2> DEFINE g == IF w1.kind = "v1" THEN Catalog!Migrated(w1) ELSE f
  <2> DEFINE e == [enabled |-> TRUE, key |-> key]
  <2> DEFINE list == [g.list EXCEPT ![i] = e]
  <2> DEFINE d == IF first \/ g.default.provider = None THEN [provider |-> i, model |-> m] ELSE g.default
  <2>1. UNCHANGED <<w2, w3, w4, w5, w6>> /\ w7' \in 0 .. MaxModelEdits /\ w7' # w7
        /\ w1' = Catalog!Written(list, d)
    BY <1>2, <1>15 DEF Catalog!AddProvider, Catalog!desktop, CatalogAssumption, f
  <2>2. g.list \in Lists /\ g.default \in Catalog!Choices /\ g.list = f.list /\ g.default = f.default
    <3>1. w1.kind = "v1" => f = w1
      BY DEF f, Catalog!Readable
    <3> QED
      BY <1>1, <3>1 DEF Catalog!Migrated, Catalog!Written
  <2>3. e \in Catalog!Entries /\ e # Catalog!NoEntry
    BY <1>4
  <2> HIDE DEF e, g
  <2>4. list \in Lists
    BY <2>2, <2>3 DEF Lists
  <2>5. d \in Catalog!Choices
    BY <2>2 DEF Catalog!Choices
  <2>6. \A j \in Catalog!Listed(w1) \ {i} : list[j] = w1.list[j]
    BY <1>1, <1>3, <2>2 DEF Lists
  <2>7. d.provider # None => d.provider \in ProviderIds /\ list[d.provider] # Catalog!NoEntry
    <3>1. d.provider = i \/ d.provider \in Catalog!Listed(w1) \cup {None}
      BY <1>1, <2>2
    <3>2. list[i] = e
      BY <2>2 DEF Lists
    <3> QED
      BY <1>3, <2>3, <2>6, <3>1, <3>2
  <2> HIDE DEF list, d
  <2>8. Catalog!CatalogSound'
    BY <1>2, <2>1, <2>4, <2>5, <2>7, CatalogWritten DEF Lists
  <2>9. Catalog!Rekeyed \subseteq {i}
    BY <1>8, <2>1, <2>4, <2>6
  <2> QED
    BY <2>1, <2>8, <2>9, CatalogOneKey
<1>16. CASE Catalog!Stop
  <2>1. w4' = FALSE /\ w5' = Catalog!Nothing /\ w6' = Catalog!NoChoice /\ UNCHANGED <<w1, w2, w3, w7>>
    BY <1>16 DEF Catalog!Stop
  <2>2. Catalog!Listed(w1)' = Catalog!Listed(w1)
    BY <2>1
  <2>3. Catalog!CatalogSound'
    BY <1>2, <1>7, <2>1, <2>2 DEF Catalog!CatalogSound, Catalog!DefaultListed, Lists
  <2> QED
    BY <1>5, <2>1, <2>3 DEF Catalog!KeyStep
<1>17. CASE Catalog!StopWriting
  <2>1. /\ Catalog!Edit /\ w4' = FALSE /\ w5' = Catalog!Nothing /\ w6' = Catalog!NoChoice
        /\ w1' = [kind |-> "torn", list |-> Catalog!Nowhere, default |-> Catalog!NoChoice]
        /\ UNCHANGED <<w2, w3>>
    BY <1>17 DEF Catalog!StopWriting
  <2>2. Catalog!Nowhere \in Lists /\ \A i \in ProviderIds : Catalog!Nowhere[i] = Catalog!NoEntry
    BY DEF Catalog!Nowhere, Lists
  <2>3. Catalog!Listed(w1)' = {} /\ Catalog!NoChoice.provider = None
    BY <2>1, <2>2 DEF Catalog!Listed, Catalog!NoChoice
  <2>4. w1' \in [kind : {"missing", "torn", "v1", "v2"}, list : Lists, default : Catalog!Choices]
    BY <1>7, <2>1, <2>2
  <2>5. Catalog!CatalogSound'
    BY <1>2, <1>6, <1>7, <2>1, <2>3, <2>4 DEF Catalog!CatalogSound, Catalog!DefaultListed, Lists
  <2>6. Catalog!Rekeyed = {}
    BY <1>2, <2>1, <2>2 DEF Catalog!Rekeyed, Catalog!Listed
  <2> QED
    BY <2>5, <2>6 DEF Catalog!KeyStep
<1> QED
  BY <1>10, <1>11, <1>12, <1>13, <1>14, <1>15, <1>16, <1>17 DEF Catalog!Next

LEMMA CatalogFacts ==
    ASSUME Catalog!CatalogSound
    PROVE  Catalog!TypeOK /\ Catalog!DefaultListed
BY DEF Catalog!CatalogSound, Catalog!TypeOK

-----------------------------------------------------------------------------
(* The settings (InformationSettings).  Here policy, user, beats, lanes,   *)
(* profiles, jobs, form, byHand and unsaved are w1, ..., w7, w9 and w10.   *)

LEMMA SettingsInit ==
    ASSUME Settings!Init, SettingsAssumption
    PROVE  Settings!SettingsSound
<1> USE DEF Settings!Unset, Settings!Rest, Settings!Beat, Settings!NoJob, Settings!Closed
<1>1. /\ w1 = [steward |-> "none", rules |-> "none", rest |-> "none"]
      /\ w2 = [goals |-> <<>>, longTerm |-> <<>>, other |-> FALSE]
      /\ w3 \in [Owners -> Settings!Beat] /\ w4 = w3
      /\ w5 = [a \in Owners |-> [delegate |-> FALSE, model |-> "none"]]
      /\ w6 = [j \in SettingJobs |-> Settings!NoJob]
      /\ w7 = [who |-> "none"] /\ w9 = "none" /\ w10 = {}
  BY DEF Settings!Init, Settings!UserMarkdown
<1>2. w1 \in [steward : Owners \cup {"none"}, rules : SettingValues \cup {"none"}, rest : Settings!Rest]
  BY <1>1
<1>3. w2 \in [goals : Settings!Texts, longTerm : Settings!Texts, other : BOOLEAN]
  BY <1>1 DEF Settings!Texts
<1>4. w6 \in [SettingJobs -> Settings!Job \cup {Settings!NoJob}]
  BY <1>1
<1>5. w5 \in [Owners -> [delegate : BOOLEAN, model : SettingValues \cup {"none"}]]
  BY <1>1
<1>6. Settings!RestKept
  BY <1>1 DEF Settings!RestKept
<1>7. Settings!BeatsAsStored
  <2>1. ASSUME NEW a \in Owners, w3[a].on PROVE w4[a] # Settings!NoLane
    <3>1. Settings!NoLane.on = FALSE
      BY DEF Settings!NoLane
    <3> QED
      BY <1>1, <2>1, <3>1
  <2> QED
    BY <1>1, <2>1 DEF Settings!BeatsAsStored
<1>8. w7.who # "user"
  BY <1>1
<1> QED
  BY <1>1, <1>2, <1>3, <1>4, <1>5, <1>6, <1>7, <1>8
  DEF Settings!SettingsSound, Settings!TypeOK, Settings!SettingsKept

\* A heartbeat that is applied is stored and has its lane, or is known not to be stored.
LEMMA SettingsApplied ==
    ASSUME Settings!SettingsSound, NEW a \in Owners, NEW b \in BOOLEAN, NEW v \in SettingValues \cup {"none"},
           Settings!Applied(a, b, v)
    PROVE  /\ w3' \in [Owners -> Settings!Beat] /\ w4' \in [Owners -> Settings!Beat \cup {Settings!NoLane}]
           /\ w10' \subseteq Owners
           /\ Settings!BeatsAsStored'
<1> DEFINE p == [on |-> b, watch |-> v, act |-> v]
<1>1. /\ w3 \in [Owners -> Settings!Beat] /\ w4 \in [Owners -> Settings!Beat \cup {Settings!NoLane}]
      /\ w10 \subseteq Owners
      /\ \A c \in Owners \ w10 : /\ w3[c].on => w4[c] # Settings!NoLane
                                 /\ w4[c] # Settings!NoLane => w4[c] = w3[c]
  BY DEF Settings!SettingsSound, Settings!TypeOK, Settings!SettingsKept, Settings!BeatsAsStored
<1>2. PICK written \in BOOLEAN :
        /\ w3' = IF written THEN [w3 EXCEPT ![a] = p] ELSE w3
        /\ w10' = IF written THEN w10 \ {a} ELSE w10 \cup {a}
        /\ w4' = [w4 EXCEPT ![a] = IF b THEN p ELSE Settings!NoLane]
  BY DEF Settings!Applied
<1>3. p \in Settings!Beat /\ p.on = b /\ (b => p # Settings!NoLane)
  BY DEF Settings!Beat, Settings!Unset, Settings!NoLane
<1> HIDE DEF p
<1>4. w3' \in [Owners -> Settings!Beat] /\ w10' \subseteq Owners
  BY <1>1, <1>2, <1>3
<1>5. w4' \in [Owners -> Settings!Beat \cup {Settings!NoLane}]
  BY <1>1, <1>2, <1>3
<1>6. ASSUME NEW c \in Owners \ w10'
      PROVE  /\ w3'[c].on => w4'[c] # Settings!NoLane
             /\ w4'[c] # Settings!NoLane => w4'[c] = w3'[c]
  <2>1. CASE c = a
    <3>1. written /\ w3'[c] = p /\ w4'[c] = IF b THEN p ELSE Settings!NoLane
      BY <1>1, <1>2, <1>6, <2>1
    <3> QED
      BY <1>3, <3>1
  <2>2. CASE c # a
    <3>1. w3'[c] = w3[c] /\ w4'[c] = w4[c] /\ c \in Owners \ w10
      BY <1>1, <1>2, <1>6, <2>2
    <3> QED
      BY <1>1, <3>1
  <2> QED
    BY <2>1, <2>2
<1> QED
  BY <1>4, <1>5, <1>6 DEF Settings!BeatsAsStored

\* Each step of the component keeps the invariant.
LEMMA SettingsStep ==
    ASSUME Settings!SettingsSound, SettingsAssumption, Settings!Next
    PROVE  Settings!SettingsSound'
<1> DEFINE Policies == [steward : Owners \cup {"none"}, rules : SettingValues \cup {"none"}, rest : Settings!Rest]
<1> DEFINE Users == [goals : Settings!Texts, longTerm : Settings!Texts, other : BOOLEAN]
<1> DEFINE Profiles == [Owners -> [delegate : BOOLEAN, model : SettingValues \cup {"none"}]]
<1>1. /\ w1 \in Policies /\ w2 \in Users
      /\ w3 \in [Owners -> Settings!Beat] /\ w4 \in [Owners -> Settings!Beat \cup {Settings!NoLane}]
      /\ w5 \in Profiles
      /\ w6 \in [SettingJobs -> Settings!Job \cup {Settings!NoJob}]
      /\ w10 \subseteq Owners
      /\ w7.who = "user" => w7 \in Settings!Form
      /\ Settings!RestKept /\ Settings!BeatsAsStored
  BY DEF Settings!SettingsSound, Settings!TypeOK, Settings!SettingsKept, Settings!Unset
<1>2. ASSUME w1' \in Policies, w2' \in Users,
             w3' \in [Owners -> Settings!Beat], w4' \in [Owners -> Settings!Beat \cup {Settings!NoLane}],
             w5' \in Profiles,
             w6' \in [SettingJobs -> Settings!Job \cup {Settings!NoJob}],
             w10' \subseteq Owners,
             w7'.who = "user" => w7' \in Settings!Form,
             Settings!RestKept', Settings!BeatsAsStored'
      PROVE  Settings!SettingsSound'
  BY <1>2 DEF Settings!SettingsSound, Settings!TypeOK, Settings!SettingsKept, Settings!Unset
<1>3. UNCHANGED <<w1, w9>> => Settings!RestKept'
  BY <1>1 DEF Settings!RestKept
<1>4. UNCHANGED <<w3, w4, w10>> => Settings!BeatsAsStored'
  BY <1>1 DEF Settings!BeatsAsStored
<1>5. w7' = Settings!Closed => w7'.who # "user"
  BY DEF Settings!Closed, Settings!Unset
<1>6. Settings!ByUser <=> w7.who = "user"
  BY DEF Settings!ByUser
<1>7. Settings!Read(w1) \in Policies /\ (w1.rest # "broken" => Settings!Read(w1) = w1)
      /\ (w1.rest = "broken" => Settings!Read(w1).rest = "none")
  BY <1>1 DEF Settings!Read, Settings!Unset, Settings!Rest
\* What the jobs and the policies show in the form.
<1>8. ASSUME NEW j \in SettingJobs, w6[j] # Settings!NoJob
      PROVE  w6[j].agent \in Owners /\ w6[j].prompt \in SettingValues
  BY <1>1, <1>8 DEF Settings!Job
<1>9. ASSUME NEW a \in Owners
      PROVE  /\ w3[a].on \in BOOLEAN /\ w3[a].watch \in SettingValues \cup {"none"}
             /\ w4[a] # Settings!NoLane => w4[a].on \in BOOLEAN /\ w4[a].watch \in SettingValues \cup {"none"}
  BY <1>1 DEF Settings!Beat, Settings!Unset
<1>10. \A a : Settings!ModelOf(a) \in SettingValues \cup {"none"}
  BY <1>1 DEF Settings!ModelOf, Settings!Unset
<1> HIDE DEF Policies, Users, Profiles
<1>11. ASSUME NEW a \in Owners, Settings!Open(a) PROVE Settings!SettingsSound'
  <2>1. w7' = Settings!Shown(a) /\ UNCHANGED <<w1, w2, w3, w4, w5, w6, w8, w9, w10>>
    BY <1>11 DEF Settings!Open
  <2>2. Settings!Read(w1).steward \in Owners \cup {"none"} /\ Settings!Read(w1).rules \in SettingValues \cup {"none"}
    BY <1>7 DEF Policies
  <2>3. Settings!FirstLine(w2.goals) \in Settings!Texts
    <3>1. w2.goals \in Settings!Texts
      BY <1>1 DEF Users
    <3> QED
      BY <3>1 DEF Settings!Texts, Settings!FirstLine
  <2>4. Settings!Shown(a) \in Settings!Form
    BY <1>9, <1>10, <2>2, <2>3 DEF Settings!Shown, Settings!Form, Settings!Unset
  <2> QED
    BY <1>1, <1>2, <1>3, <1>4, <2>1, <2>4
<1>12. ASSUME NEW a \in Owners, Settings!OpenForAgent(a) PROVE Settings!SettingsSound'
  <2>1. w7' = [who |-> a] /\ UNCHANGED <<w1, w2, w3, w4, w5, w6, w8, w9, w10>>
    BY <1>12 DEF Settings!OpenForAgent
  <2>2. w7'.who # "user"
    BY <2>1 DEF SettingsAssumption
  <2> QED
    BY <1>1, <1>2, <1>3, <1>4, <2>1, <2>2
<1>13. ASSUME NEW a \in Owners, Settings!SelectAgent(a) PROVE Settings!SettingsSound'
  <2>1. /\ w7.who = "user"
        /\ LET p == IF w4[a] # Settings!NoLane THEN w4[a] ELSE w3[a] IN
           w7' = [w7 EXCEPT !.agent = a, !.beat = p.on, !.watch = p.watch]
        /\ UNCHANGED <<w1, w2, w3, w4, w5, w6, w8, w9, w10>>
    BY <1>6, <1>13 DEF Settings!SelectAgent
  <2>2. w7' \in Settings!Form
    <3>1. w7 \in Settings!Form
      BY <1>1, <2>1
    <3>2. ASSUME NEW b \in BOOLEAN, NEW v \in SettingValues \cup {"none"}
          PROVE  [w7 EXCEPT !.agent = a, !.beat = b, !.watch = v] \in Settings!Form
      BY <3>1, <3>2 DEF Settings!Form, Settings!Unset
    <3>3. CASE w4[a] # Settings!NoLane
      BY <1>9, <2>1, <3>2, <3>3
    <3>4. CASE w4[a] = Settings!NoLane
      BY <1>9, <2>1, <3>2, <3>4
    <3> QED
      BY <3>3, <3>4
  <2> QED
    BY <1>1, <1>2, <1>3, <1>4, <2>1, <2>2
<1>14. ASSUME NEW a \in Owners, Settings!DeleteJob(a) PROVE Settings!SettingsSound'
  <2>1. /\ w7.who = "user" /\ w7.job # "none"
        /\ w6' = [w6 EXCEPT ![w7.job] = Settings!NoJob]
        /\ w7' = [w7 EXCEPT !.job = "none", !.jobAgent = a, !.prompt = "none"]
        /\ UNCHANGED <<w1, w2, w3, w4, w5, w8, w9, w10>>
    BY <1>6, <1>14 DEF Settings!DeleteJob, Settings!Unset
  <2>2. w7' \in Settings!Form
    <3>1. w7 \in Settings!Form
      BY <1>1, <2>1
    <3> QED
      BY <2>1, <3>1 DEF Settings!Form, Settings!Unset
  <2>3. w6' \in [SettingJobs -> Settings!Job \cup {Settings!NoJob}]
    BY <1>1, <2>1
  <2> QED
    BY <1>1, <1>2, <1>3, <1>4, <2>1, <2>2, <2>3
<1>15. ASSUME NEW j \in SettingJobs, Settings!SelectJob(j) PROVE Settings!SettingsSound'
  <2> DEFINE a == CHOOSE x \in Owners : TRUE
  <2>1. /\ w7.who = "user" /\ w6[j] # Settings!NoJob
        /\ w7' = [w7 EXCEPT !.job = j, !.jobAgent = IF w6[j].agent \in Owners THEN w6[j].agent ELSE a,
                            !.prompt = w6[j].prompt]
        /\ UNCHANGED <<w1, w2, w3, w4, w5, w6, w8, w9, w10>>
    BY <1>6, <1>15 DEF Settings!SelectJob, Settings!WithJob
  <2>2. w7' = [w7 EXCEPT !.job = j, !.jobAgent = w6[j].agent, !.prompt = w6[j].prompt]
    BY <1>8, <2>1
  <2>3. w7' \in Settings!Form
    <3>1. w7 \in Settings!Form
      BY <1>1, <2>1
    <3> QED
      BY <1>8, <2>1, <2>2, <3>1 DEF Settings!Form, Settings!Unset
  <2> QED
    BY <1>1, <1>2, <1>3, <1>4, <2>1, <2>3
<1>16. ASSUME NEW j \in SettingJobs, Settings!SaveJob(j) PROVE Settings!SettingsSound'
  <2>1. /\ w7.who = "user" /\ w7.prompt # "none"
        /\ w6' = [w6 EXCEPT ![j] = [agent |-> w7.jobAgent, prompt |-> w7.prompt]]
        /\ w7' = [w7 EXCEPT !.job = j]
        /\ UNCHANGED <<w1, w2, w3, w4, w5, w9, w10>>
    BY <1>6, <1>16 DEF Settings!SaveJob, Settings!Unset
  <2>2. w7' \in Settings!Form
    <3>1. w7 \in Settings!Form
      BY <1>1, <2>1
    <3> QED
      BY <2>1, <3>1 DEF Settings!Form, Settings!Unset
  <2>3. [agent |-> w7.jobAgent, prompt |-> w7.prompt] \in Settings!Job
    BY <1>1, <2>1 DEF Settings!Form, Settings!Job, Settings!Unset
  <2>4. w6' \in [SettingJobs -> Settings!Job \cup {Settings!NoJob}]
    BY <1>1, <2>1, <2>3
  <2> QED
    BY <1>1, <1>2, <1>3, <1>4, <2>1, <2>2, <2>4
<1>17. ASSUME NEW a \in Owners, NEW j \in SettingJobs,
              Settings!ToolCreates(a, j) \/ Settings!ToolUpdates(a, j) \/ Settings!ToolDeletes(a, j)
       PROVE  Settings!SettingsSound'
  <2>1. UNCHANGED <<w1, w2, w3, w4, w5, w7, w9, w10>>
    BY <1>17 DEF Settings!ToolCreates, Settings!ToolUpdates, Settings!ToolDeletes
  <2>2. w6' \in [SettingJobs -> Settings!Job \cup {Settings!NoJob}]
    <3>1. ASSUME Settings!ToolCreates(a, j) PROVE w6' \in [SettingJobs -> Settings!Job \cup {Settings!NoJob}]
      <4>1. PICK v \in SettingValues : w6' = [w6 EXCEPT ![j] = [agent |-> a, prompt |-> v]]
        BY <3>1 DEF Settings!ToolCreates
      <4>2. [agent |-> a, prompt |-> v] \in Settings!Job
        BY DEF Settings!Job
      <4> QED
        BY <1>1, <4>1, <4>2
    <3>2. ASSUME Settings!ToolUpdates(a, j) PROVE w6' \in [SettingJobs -> Settings!Job \cup {Settings!NoJob}]
      <4>1. PICK v \in SettingValues : w6' = [w6 EXCEPT ![j].prompt = v]
        BY <3>2 DEF Settings!ToolUpdates
      <4>2. w6[j] # Settings!NoJob
        BY <3>2 DEF Settings!ToolUpdates, Settings!MayChange
      <4>3. [w6[j] EXCEPT !.prompt = v] \in Settings!Job
        BY <1>1, <4>2 DEF Settings!Job
      <4> QED
        BY <1>1, <4>1, <4>3
    <3>3. ASSUME Settings!ToolDeletes(a, j) PROVE w6' \in [SettingJobs -> Settings!Job \cup {Settings!NoJob}]
      BY <1>1, <3>3 DEF Settings!ToolDeletes
    <3> QED
      BY <1>17, <3>1, <3>2, <3>3
  <2> QED
    BY <1>1, <1>2, <1>3, <1>4, <2>1, <2>2
<1>18. CASE Settings!Edit
  <2>1. w7.who = "user" /\ UNCHANGED <<w1, w2, w3, w4, w5, w6, w9, w10>>
    BY <1>6, <1>18 DEF Settings!Edit
  <2>2. \/ \E v \in SettingValues : w7' = [w7 EXCEPT !.rules = v]
        \/ \E a \in Owners \cup {"none"} : w7' = [w7 EXCEPT !.steward = a, !.model = Settings!ModelOf(a)]
        \/ \E v \in SettingValues : w7' = [w7 EXCEPT !.model = v]
        \/ \E t \in Settings!Texts : w7' = [w7 EXCEPT !.goals = t]
        \/ \E b \in BOOLEAN, v \in SettingValues : w7' = [w7 EXCEPT !.beat = b, !.watch = v]
        \/ \E a \in Owners, v \in SettingValues : w7' = [w7 EXCEPT !.jobAgent = a, !.prompt = v]
    BY <1>18 DEF Settings!Edit, Settings!Unset
  <2>3. w7' \in Settings!Form
    <3>1. w7 \in Settings!Form
      BY <1>1, <2>1
    <3>2. ASSUME NEW v \in SettingValues \cup {"none"} PROVE [w7 EXCEPT !.rules = v] \in Settings!Form
      BY <3>1, <3>2 DEF Settings!Form, Settings!Unset
    <3>3. ASSUME NEW a \in Owners \cup {"none"}, NEW v \in SettingValues \cup {"none"}
          PROVE  [w7 EXCEPT !.steward = a, !.model = v] \in Settings!Form
      BY <3>1, <3>3 DEF Settings!Form, Settings!Unset
    <3>4. ASSUME NEW v \in SettingValues PROVE [w7 EXCEPT !.model = v] \in Settings!Form
      BY <3>1, <3>4 DEF Settings!Form, Settings!Unset
    <3>5. ASSUME NEW t \in Settings!Texts PROVE [w7 EXCEPT !.goals = t] \in Settings!Form
      BY <3>1, <3>5 DEF Settings!Form
    <3>6. ASSUME NEW b \in BOOLEAN, NEW v \in SettingValues PROVE [w7 EXCEPT !.beat = b, !.watch = v] \in Settings!Form
      BY <3>1, <3>6 DEF Settings!Form, Settings!Unset
    <3>7. ASSUME NEW a \in Owners, NEW v \in SettingValues PROVE [w7 EXCEPT !.jobAgent = a, !.prompt = v] \in Settings!Form
      BY <3>1, <3>7 DEF Settings!Form, Settings!Unset
    <3>8. CASE \E v \in SettingValues : w7' = [w7 EXCEPT !.rules = v]
      BY <3>2, <3>8
    <3>9. CASE \E a \in Owners \cup {"none"} : w7' = [w7 EXCEPT !.steward = a, !.model = Settings!ModelOf(a)]
      BY <1>10, <3>3, <3>9
    <3>10. CASE \E v \in SettingValues : w7' = [w7 EXCEPT !.model = v]
      BY <3>4, <3>10
    <3>11. CASE \E t \in Settings!Texts : w7' = [w7 EXCEPT !.goals = t]
      BY <3>5, <3>11
    <3>12. CASE \E b \in BOOLEAN, v \in SettingValues : w7' = [w7 EXCEPT !.beat = b, !.watch = v]
      BY <3>6, <3>12
    <3>13. CASE \E a \in Owners, v \in SettingValues : w7' = [w7 EXCEPT !.jobAgent = a, !.prompt = v]
      BY <3>7, <3>13
    <3> QED
      BY <2>2, <3>8, <3>9, <3>10, <3>11, <3>12, <3>13
  <2> QED
    BY <1>1, <1>2, <1>3, <1>4, <2>1, <2>3
<1>19. CASE Settings!ApplyHeartbeat
  <2>1. w7.who = "user" /\ Settings!Applied(w7.agent, w7.beat, w7.watch) /\ UNCHANGED <<w1, w2, w5, w6, w7, w8, w9>>
    BY <1>6, <1>19 DEF Settings!ApplyHeartbeat
  <2>2. w7.agent \in Owners /\ w7.beat \in BOOLEAN /\ w7.watch \in SettingValues \cup {"none"}
    BY <1>1, <2>1 DEF Settings!Form, Settings!Unset
  <2> QED
    BY <1>1, <1>2, <1>3, <2>1, <2>2, SettingsApplied
<1>20. CASE Settings!EditFiles
  <2>1. PICK r \in Settings!Rest, o \in BOOLEAN :
           w1' = [w1 EXCEPT !.rest = r] /\ w2' = [w2 EXCEPT !.other = o] /\ w9' = r
    BY <1>20 DEF Settings!EditFiles
  <2>2. UNCHANGED <<w3, w4, w5, w6, w7, w10>>
    BY <1>20 DEF Settings!EditFiles
  <2>3. w1' \in Policies /\ w1'.rest = r
    BY <1>1, <2>1 DEF Policies
  <2>4. w2' \in Users
    BY <1>1, <2>1 DEF Users
  <2>5. Settings!RestKept'
    BY <2>1, <2>3 DEF Settings!RestKept
  <2> QED
    BY <1>1, <1>2, <1>4, <2>2, <2>3, <2>4, <2>5
<1>21. CASE Settings!Accept
  <2>1. w7.who = "user" /\ UNCHANGED <<w6, w8, w9>>
    BY <1>6, <1>21 DEF Settings!Accept
  <2>2. w7 \in Settings!Form
    BY <1>1, <2>1
  <2>3. /\ w7.agent \in Owners /\ w7.beat \in BOOLEAN /\ w7.watch \in SettingValues \cup {"none"}
        /\ w7.steward \in Owners \cup {"none"} /\ w7.rules \in SettingValues \cup {"none"}
        /\ w7.model \in SettingValues \cup {"none"} /\ w7.goals \in Settings!Texts
    BY <2>2 DEF Settings!Form, Settings!Unset
  <2>4. Settings!Policy(w7) \in Policies /\ Settings!Policy(w7).rest = Settings!Read(w1).rest
    BY <1>7, <2>3 DEF Settings!Policy, Policies
  <2>5. Settings!Stewarded(w7) \in Profiles
    BY <1>1, <2>3 DEF Settings!Stewarded, Profiles
  <2>6. Settings!UserMarkdown(w7.goals) \in Users
    BY <2>3 DEF Settings!UserMarkdown, Users
  <2>7. /\ w1' = w1 \/ w1' = Settings!Policy(w7)
        /\ w5' = w5 \/ w5' = Settings!Stewarded(w7)
        /\ w2' = w2 \/ w2' = Settings!UserMarkdown(w7.goals)
        /\ \/ Settings!Applied(w7.agent, w7.beat, w7.watch) /\ w7' = Settings!Closed
           \/ UNCHANGED <<w3, w4, w10, w7>>
    BY <1>21, Zenon DEF Settings!Accept
  <2>8. Settings!RestKept'
    <3>1. w1'.rest = w1.rest \/ (w1.rest = "broken" /\ w1'.rest = "none")
      BY <1>7, <2>4, <2>7
    <3> QED
      BY <1>1, <2>1, <3>1 DEF Settings!RestKept, Settings!Unset
  <2>9. w1' \in Policies /\ w5' \in Profiles /\ w2' \in Users
    BY <1>1, <2>4, <2>5, <2>6, <2>7
  <2>10. CASE Settings!Applied(w7.agent, w7.beat, w7.watch) /\ w7' = Settings!Closed
    BY <1>1, <1>2, <1>5, <2>1, <2>3, <2>8, <2>9, <2>10, SettingsApplied
  <2>11. CASE UNCHANGED <<w3, w4, w10, w7>>
    BY <1>1, <1>2, <1>4, <2>1, <2>8, <2>9, <2>11
  <2> QED
    BY <2>7, <2>10, <2>11
<1>22. CASE Settings!AcceptForAgent
  <2>1. PICK on \in BOOLEAN : w5' = [w5 EXCEPT ![w7.who].delegate = on]
    BY <1>22 DEF Settings!AcceptForAgent
  <2>2. w7' = Settings!Closed /\ UNCHANGED <<w1, w2, w3, w4, w6, w8, w9, w10>> /\ w7.who \in Owners
    BY <1>22 DEF Settings!AcceptForAgent
  <2>3. w5' \in Profiles
    BY <1>1, <2>1, <2>2 DEF Profiles
  <2> QED
    BY <1>1, <1>2, <1>3, <1>4, <1>5, <2>2, <2>3
<1>23. CASE Settings!Reject
  <2>1. w7' = Settings!Closed /\ UNCHANGED <<w1, w2, w3, w4, w5, w6, w8, w9, w10>>
    BY <1>23 DEF Settings!Reject
  <2> QED
    BY <1>1, <1>2, <1>3, <1>4, <1>5, <2>1
<1>24. CASE Settings!Restart
  <2>1. w4' = w3 /\ w7' = Settings!Closed /\ w10' = {} /\ UNCHANGED <<w1, w2, w3, w5, w6, w8, w9>>
    BY <1>24 DEF Settings!Restart
  <2>2. Settings!BeatsAsStored'
    <3>1. ASSUME NEW a \in Owners, w3[a].on PROVE w3[a] # Settings!NoLane
      <4>1. Settings!NoLane.on = FALSE
        BY DEF Settings!NoLane
      <4> QED
        BY <3>1, <4>1
    <3> QED
      BY <2>1, <3>1 DEF Settings!BeatsAsStored
  <2>3. w4' \in [Owners -> Settings!Beat \cup {Settings!NoLane}]
    BY <1>1, <2>1
  <2> QED
    BY <1>1, <1>2, <1>3, <1>5, <2>1, <2>2, <2>3
<1> QED
  BY <1>11, <1>12, <1>13, <1>14, <1>15, <1>16, <1>17, <1>18, <1>19, <1>20, <1>21, <1>22, <1>23, <1>24
  DEF Settings!Next

LEMMA SettingsFacts ==
    ASSUME Settings!SettingsSound
    PROVE  Settings!TypeOK /\ Settings!SettingsKept
BY DEF Settings!SettingsSound

-----------------------------------------------------------------------------
(* The command policy (ShellCommands).  Here file, writing, saves, wish    *)
(* and ended are w1, ..., w5.                                              *)

\* A policy that is normalised once more stays as it is.
LEMMA PolicyNormalizedTwice ==
    ASSUME NEW q
    PROVE  Policy!Normalized(Policy!Normalized(q)) = Policy!Normalized(q)
<1> DEFINE K == Policy!Switches \cup Policy!Lists
<1> DEFINE n == Policy!Normalized(q)
<1> DEFINE nn == Policy!Normalized(n)
<1>1. n = [key \in K |-> CASE key \in Policy!Switches -> Policy!Switch(q, key)
                           [] key = "dangerous" -> Policy!ListOf(q, key) \ Policy!Migrated
                           [] OTHER -> Policy!ListOf(q, key)]
  BY DEF Policy!Normalized
<1>2. nn = [key \in K |-> CASE key \in Policy!Switches -> Policy!Switch(n, key)
                            [] key = "dangerous" -> Policy!ListOf(n, key) \ Policy!Migrated
                            [] OTHER -> Policy!ListOf(n, key)]
  BY DEF Policy!Normalized
<1> HIDE DEF n, nn
<1>3. DOMAIN n = K /\ DOMAIN nn = K
  BY <1>1, <1>2
<1>4. ASSUME NEW key \in K PROVE nn[key] = n[key]
  <2>1. CASE key \in Policy!Switches
    <3>1. nn[key] = Policy!Switch(n, key)
      BY <1>2, <2>1 DEF Policy!Switches
    <3> QED
      BY <1>3, <3>1 DEF Policy!Switch
  <2>2. CASE key \notin Policy!Switches /\ key = "dangerous"
    <3>1. nn[key] = Policy!ListOf(n, key) \ Policy!Migrated
      BY <1>2, <2>2
    <3>2. n[key] = Policy!ListOf(q, key) \ Policy!Migrated
      BY <1>1, <2>2
    <3>3. Policy!ListOf(n, key) = n[key]
      BY <1>3 DEF Policy!ListOf
    <3> QED
      BY <3>1, <3>2, <3>3
  <2>3. CASE key \notin Policy!Switches /\ key # "dangerous"
    <3>1. nn[key] = Policy!ListOf(n, key)
      BY <1>2, <2>3
    <3> QED
      BY <1>3, <3>1 DEF Policy!ListOf
  <2> QED
    BY <2>1, <2>2, <2>3
<1>5. nn = n
  BY <1>1, <1>2, <1>3, <1>4
<1> QED
  BY <1>5 DEF n, nn

\* The normal form of a policy that has every key differs from it by the patterns of
\* older versions only, which decides the same of a command.
LEMMA PolicyNormalizedSafe ==
    ASSUME NEW q, DOMAIN q = Policy!Switches \cup Policy!Lists, NEW c
    PROVE  Policy!IsSafe(c, Policy!Normalized(q))
             <=> Policy!IsSafe(c, [q EXCEPT !.dangerous = @ \ Policy!Migrated])
<1> DEFINE n == Policy!Normalized(q)
<1> DEFINE l == [q EXCEPT !.dangerous = @ \ Policy!Migrated]
<1> USE DEF Policy!Switches, Policy!Lists
<1>1. /\ n["dangerous"] = q["dangerous"] \ Policy!Migrated
      /\ n["safe"] = q["safe"] /\ n["enforce"] = q["enforce"]
  BY DEF Policy!Normalized, Policy!ListOf, Policy!Switch
<1>2. /\ l["dangerous"] = q["dangerous"] \ Policy!Migrated
      /\ l["safe"] = q["safe"] /\ l["enforce"] = q["enforce"]
  OBVIOUS
<1>3. /\ n.dangerous = l.dangerous /\ n.safe = l.safe /\ n.enforce = l.enforce
  BY <1>1, <1>2
<1> HIDE DEF n, l
<1>4. Policy!IsSafe(c, n) <=> Policy!IsSafe(c, l)
  BY <1>3 DEF Policy!IsSafe
<1> QED
  BY <1>4 DEF n, l

LEMMA PolicyInit ==
    ASSUME Policy!Init, PolicyAssumption
    PROVE  Policy!PolicySound
<1>1. /\ w1 = None /\ w2 = [p \in ShellPrograms |-> None] /\ w3 = 0 /\ w4 = Default
      /\ w5.command = None /\ w5.how = "none"
  BY DEF Policy!Init, Policy!Ended
<1>2. Policy!Loaded = Policy!Normalized(Default) /\ DOMAIN Default = Policy!Switches \cup Policy!Lists
  BY <1>1 DEF Policy!Loaded, PolicyAssumption, Policy!Normalized
<1>3. Policy!TypeOK
  BY <1>1 DEF Policy!TypeOK, PolicyAssumption
<1>4. Policy!SavedObeyed
  BY <1>1 DEF Policy!SavedObeyed
<1>5. w2 \in [ShellPrograms -> Policy!Policies \cup {None}]
  BY <1>1
<1> QED
  BY <1>1, <1>2, <1>3, <1>4, <1>5 DEF Policy!PolicySound

\* What the user saved has every key, and its normal form is a policy.
LEMMA PolicyWish ==
    ASSUME PolicyAssumption, NEW q \in {Default} \cup {Policy!Typed(e) : e \in Edits}
    PROVE  /\ DOMAIN q = Policy!Switches \cup Policy!Lists
           /\ q # None /\ Policy!Normalized(q) # None
           /\ Policy!Normalized(q) \in Policy!Policies
<1>1. CASE q = Default
  <2>1. DOMAIN Policy!Normalized(q) = Policy!Switches \cup Policy!Lists
    BY DEF Policy!Normalized
  <2>2. Policy!Normalized(q) = q
    BY <1>1 DEF PolicyAssumption
  <2> QED
    BY <1>1, <2>1, <2>2 DEF PolicyAssumption, Policy!Policies
<1>2. ASSUME NEW e \in Edits, q = Policy!Typed(e)
      PROVE  /\ DOMAIN q = Policy!Switches \cup Policy!Lists
             /\ q # None /\ Policy!Normalized(q) # None
             /\ Policy!Normalized(q) \in Policy!Policies
  <2>1. DOMAIN Policy!Typed(e) = DOMAIN e
    BY DEF Policy!Typed
  <2> QED
    BY <1>2, <2>1 DEF PolicyAssumption, Policy!Policies
<1> QED
  BY <1>1, <1>2

\* A policy that is written is read as it was written.
LEMMA PolicyReadBack ==
    ASSUME PolicyAssumption, NEW q \in Policy!Policies
    PROVE  Policy!Normalized(q) = q
<1>1. CASE q = Default
  BY <1>1 DEF PolicyAssumption
<1>2. ASSUME NEW e \in Edits, q = Policy!Normalized(Policy!Typed(e))
      PROVE  Policy!Normalized(q) = q
  BY <1>2, PolicyNormalizedTwice
<1> QED
  BY <1>1, <1>2 DEF Policy!Policies

\* Each step of the component keeps the invariant.
LEMMA PolicyStep ==
    ASSUME Policy!PolicySound, PolicyAssumption, Policy!Next
    PROVE  Policy!PolicySound'
<1> DEFINE Files == Policy!Policies \cup {None}
<1> DEFINE Wishes == {None, Default} \cup {Policy!Typed(e) : e \in Edits}
<1> DEFINE Quiet == Policy!Loaded = Policy!Normalized(w4) /\ \A p \in ShellPrograms : w2[p] = None
<1> DEFINE Busy == \E p \in ShellPrograms : w2[p] = Policy!Normalized(w4) /\ Policy!OnlyWriter(p)
<1>1. /\ w1 \in Files /\ w2 \in [ShellPrograms -> Files]
      /\ w3 \in 0 .. MaxSaves
      /\ w5.command \in Commands \cup {None}
      /\ w5.how \in {"none", "outside", "unsafe", "refused"} \cup Policy!Runs
      /\ Policy!SavedObeyed
      /\ w4 \in Wishes
      /\ w4 # None => Quiet \/ Busy
  BY DEF Policy!PolicySound, Policy!TypeOK
<1>2. ASSUME w1' \in Files, w2' \in [ShellPrograms -> Files],
             w3' \in 0 .. MaxSaves,
             w5'.command \in Commands \cup {None},
             w5'.how \in {"none", "outside", "unsafe", "refused"} \cup Policy!Runs,
             Policy!SavedObeyed',
             w4' \in Wishes,
             w4' # None => Quiet' \/ Busy'
      PROVE  Policy!PolicySound'
  <2>1. DOMAIN w2' = ShellPrograms
    BY <1>2
  <2> QED
    BY <1>2, <2>1 DEF Policy!PolicySound, Policy!TypeOK
<1>3. UNCHANGED <<w4, w5>> \/ w4' = None => Policy!SavedObeyed'
  BY <1>1 DEF Policy!SavedObeyed
<1>4. ASSUME w4 # None, Busy PROVE ~ \A p \in ShellPrograms : w2[p] = None
  <2>1. Policy!Normalized(w4) # None
    BY <1>1, <1>4, PolicyWish
  <2> QED
    BY <1>4, <2>1
<1>5. Policy!Loaded \in Policy!Policies
  <2>1. CASE w1 = None
    BY <2>1 DEF Policy!Loaded, Policy!Policies
  <2>2. CASE w1 # None
    BY <1>1, <2>2, PolicyReadBack DEF Policy!Loaded
  <2> QED
    BY <2>1, <2>2
<1> HIDE DEF Files, Wishes
<1>6. ASSUME NEW p \in ShellPrograms, NEW c \in Commands, Policy!Execute(p, c)
      PROVE  Policy!PolicySound'
  <2>1. /\ w2[p] = None /\ w3' = w3
        /\ w4' = IF Policy!Contended(p) THEN None ELSE w4
        /\ \/ w2' = [w2 EXCEPT ![p] = Policy!Loaded] /\ w1' = None
           \/ UNCHANGED <<w1, w2>>
    BY <1>6 DEF Policy!Execute, Policy!Load, Policy!Open
  <2>2. PICK verdict \in Policy!Verdicts(c, Policy!Loaded) :
           \/ verdict # "run" /\ w5' = Policy!Ended(c, verdict)
           \/ verdict = "run" /\ \E how \in Policy!Runs : w5' = Policy!Ended(c, how)
    BY <1>6 DEF Policy!Execute
  <2>3. /\ verdict \in {"outside", "unsafe", "run", "refused"}
        /\ c.inside => (verdict = "unsafe" <=> ~Policy!IsSafe(c, Policy!Loaded))
    BY <2>2 DEF Policy!Verdicts, Policy!Inside
  <2>4. /\ w5'.command = c
        /\ w5'.how \in {"outside", "unsafe", "refused"} \cup Policy!Runs
        /\ w5'.how = "unsafe" <=> verdict = "unsafe"
    <3>1. PICK how : /\ w5' = Policy!Ended(c, how)
                     /\ \/ how = verdict /\ verdict # "run"
                        \/ how \in Policy!Runs /\ verdict = "run"
      BY <2>2
    <3>2. w5'.command = c /\ w5'.how = how
      BY <3>1 DEF Policy!Ended
    <3>3. "unsafe" \notin Policy!Runs
      BY DEF Policy!Runs
    <3> QED
      BY <2>3, <3>1, <3>2, <3>3
  <2>5. w4' # None => w4' = w4 /\ Quiet
    <3>1. SUFFICES ASSUME w4' # None PROVE Quiet
      BY <2>1
    <3>2. w4' = w4 /\ \A q \in ShellPrograms : w2[q] = None
      BY <2>1, <3>1 DEF Policy!Contended
    <3> QED
      BY <1>1, <1>4, <3>1, <3>2
  <2>6. w1' \in Files /\ w2' \in [ShellPrograms -> Files] /\ w4' \in Wishes
    BY <1>1, <1>5, <2>1 DEF Files, Wishes
  <2>7. w4' # None => Quiet' \/ Busy'
    <3>1. SUFFICES ASSUME w4' # None PROVE Quiet' \/ Busy'
      OBVIOUS
    <3>2. w4' = w4 /\ Policy!Loaded = Policy!Normalized(w4) /\ \A q \in ShellPrograms : w2[q] = None
      BY <2>5, <3>1
    <3>3. CASE w2' = [w2 EXCEPT ![p] = Policy!Loaded]
      <4>1. w2'[p] = Policy!Normalized(w4')
        BY <1>1, <3>2, <3>3
      <4>2. Policy!OnlyWriter(p)'
        BY <1>1, <3>2, <3>3 DEF Policy!OnlyWriter
      <4> QED
        BY <4>1, <4>2
    <3>4. CASE UNCHANGED <<w1, w2>>
      BY <3>2, <3>4 DEF Policy!Loaded
    <3> QED
      BY <2>1, <3>3, <3>4
  <2>8. Policy!SavedObeyed'
    <3>1. SUFFICES ASSUME w4' # None, c.inside
          PROVE  (w5'.how = "unsafe") = ~Policy!IsSafe(c, [w4' EXCEPT !.dangerous = @ \ Policy!Migrated])
      BY <2>4 DEF Policy!SavedObeyed
    <3>2. w4' = w4 /\ Policy!Loaded = Policy!Normalized(w4)
      BY <2>5, <3>1
    <3>3. DOMAIN w4 = Policy!Switches \cup Policy!Lists
      BY <1>1, <3>1, <3>2, PolicyWish DEF Wishes
    <3>4. Policy!IsSafe(c, Policy!Loaded) <=> Policy!IsSafe(c, [w4 EXCEPT !.dangerous = @ \ Policy!Migrated])
      BY <3>2, <3>3, PolicyNormalizedSafe
    <3> QED
      BY <2>3, <2>4, <3>1, <3>2, <3>4
  <2> HIDE DEF Quiet, Busy
  <2> QED
    BY <1>1, <1>2, <2>1, <2>4, <2>6, <2>7, <2>8
<1>7. ASSUME NEW p \in ShellPrograms, NEW e \in Edits, Policy!SaveDialog(p, e)
      PROVE  Policy!PolicySound'
  <2>1. /\ w2[p] = None /\ w3' \in 0 .. MaxSaves
        /\ w2' = [w2 EXCEPT ![p] = Policy!Normalized(Policy!Typed(e))] /\ w1' = None
        /\ w4' = IF Policy!Contended(p) THEN None ELSE Policy!Typed(e)
        /\ w5'.command = None /\ w5'.how = "none"
    BY <1>1, <1>7 DEF Policy!SaveDialog, Policy!Open, Policy!Ended, PolicyAssumption
  <2>2. Policy!Typed(e) \in Wishes
    BY DEF Wishes
  <2>3. Policy!Normalized(Policy!Typed(e)) \in Files
    BY PolicyWish DEF Files
  <2>4. w1' \in Files /\ w2' \in [ShellPrograms -> Files] /\ w4' \in Wishes
    BY <1>1, <2>1, <2>2, <2>3 DEF Files, Wishes
  <2>5. w4' # None => Busy'
    <3>1. SUFFICES ASSUME w4' # None PROVE Busy'
      OBVIOUS
    <3>2. w4' = Policy!Typed(e) /\ \A q \in ShellPrograms \ {p} : w2[q] = None
      BY <2>1, <3>1 DEF Policy!Contended
    <3>3. w2'[p] = Policy!Normalized(w4') /\ Policy!OnlyWriter(p)'
      BY <1>1, <2>1, <3>2 DEF Policy!OnlyWriter
    <3> QED
      BY <3>3
  <2>6. Policy!SavedObeyed'
    BY <2>1 DEF Policy!SavedObeyed
  <2> HIDE DEF Quiet, Busy
  <2> QED
    BY <1>2, <2>1, <2>4, <2>5, <2>6
<1>8. ASSUME NEW p \in ShellPrograms, Policy!Write(p)
      PROVE  Policy!PolicySound'
  <2>1. /\ w2[p] # None /\ w1' = w2[p] /\ w2' = [w2 EXCEPT ![p] = None]
        /\ UNCHANGED <<w3, w4, w5>>
    BY <1>8 DEF Policy!Write
  <2>2. w1' \in Files /\ w2' \in [ShellPrograms -> Files]
    BY <1>1, <2>1 DEF Files
  <2>3. w4' # None => Quiet'
    <3>1. SUFFICES ASSUME w4 # None PROVE Quiet'
      BY <2>1
    <3>2. PICK q \in ShellPrograms : w2[q] = Policy!Normalized(w4) /\ Policy!OnlyWriter(q)
      BY <1>1, <2>1, <3>1
    <3>3. q = p
      BY <2>1, <3>2 DEF Policy!OnlyWriter
    <3>4. w1' = Policy!Normalized(w4') /\ w1' # None
      BY <2>1, <3>2, <3>3
    <3>5. \A r \in ShellPrograms : w2'[r] = None
      BY <1>1, <2>1, <3>2, <3>3 DEF Policy!OnlyWriter
    <3>6. Policy!Loaded' = Policy!Normalized(w4')
      BY <3>4, PolicyNormalizedTwice DEF Policy!Loaded
    <3> QED
      BY <3>5, <3>6
  <2> HIDE DEF Quiet, Busy
  <2> QED
    BY <1>1, <1>2, <1>3, <2>1, <2>2, <2>3
<1>9. ASSUME NEW p \in ShellPrograms, Policy!Kill(p)
      PROVE  Policy!PolicySound'
  <2>1. w2' = [w2 EXCEPT ![p] = None] /\ w4' = None /\ UNCHANGED <<w1, w3, w5>>
    BY <1>9 DEF Policy!Kill
  <2>2. w2' \in [ShellPrograms -> Files] /\ w4' \in Wishes
    BY <1>1, <2>1 DEF Files, Wishes
  <2> HIDE DEF Quiet, Busy
  <2> QED
    BY <1>1, <1>2, <1>3, <2>1, <2>2
<1> QED
  BY <1>6, <1>7, <1>8, <1>9 DEF Policy!Next

LEMMA PolicyFacts ==
    ASSUME Policy!PolicySound
    PROVE  Policy!TypeOK /\ Policy!SavedObeyed
BY DEF Policy!PolicySound

-----------------------------------------------------------------------------
(* What is stored and set, whichever component it is that runs.            *)

\* A step of these components.
Step == part' = part /\ (part \in RecordNames => RecordsNext)

LEMMA StoppedStays ==
    ASSUME UNCHANGED <<w1, w2, w3, w4, w5, w6, w7, w8, w9, w10, w11, w12, w13, w14>>
    PROVE  /\ Catalog!CatalogSound => Catalog!CatalogSound'
           /\ Settings!SettingsSound => Settings!SettingsSound'
           /\ Policy!PolicySound => Policy!PolicySound'
           /\ Catalog!KeyStep /\ Registry!MemoryStep
<1>1. Catalog!CatalogSound => Catalog!CatalogSound'
  BY DEF Catalog!CatalogSound, Catalog!DefaultListed, Catalog!Listed
<1>2. Settings!SettingsSound => Settings!SettingsSound'
  BY DEF Settings!SettingsSound, Settings!TypeOK, Settings!SettingsKept, Settings!RestKept, Settings!BeatsAsStored
<1>3. Policy!PolicySound => Policy!PolicySound'
  BY DEF Policy!PolicySound, Policy!TypeOK, Policy!SavedObeyed, Policy!Loaded, Policy!OnlyWriter
<1>4. Catalog!KeyStep
  BY DEF Catalog!KeyStep, Catalog!Rekeyed
<1>5. Registry!MemoryStep
  BY DEF Registry!MemoryStep
<1> QED
  BY <1>1, <1>2, <1>3, <1>4, <1>5

\* The inductive invariant of the first four components.
StoredSound ==
    /\ part = "agents" => Registry!RegistrySound
    /\ part = "models" => Catalog!CatalogSound
    /\ part = "settings" => Settings!SettingsSound
    /\ part = "commands" => Policy!PolicySound

LEMMA StoredInit ==
    ASSUME part \in RecordNames => RecordsInit
    PROVE  StoredSound
<1>1. RegistryAssumption /\ CatalogAssumption /\ SettingsAssumption /\ PolicyAssumption
  BY RecordsAssumption
<1>2. /\ part = "agents" => Registry!Init
      /\ part = "models" => Catalog!Init
      /\ part = "settings" => Settings!Init
      /\ part = "commands" => Policy!Init
  BY DEF RecordsInit, RecordNames
<1> QED
  BY <1>1, <1>2, RegistryInit, CatalogInit, SettingsInit, PolicyInit DEF StoredSound

LEMMA StoredStep ==
    ASSUME StoredSound, NEW p, Programs = {p}, [Step]_parts
    PROVE  /\ StoredSound'
           /\ part = "agents" => Registry!MemoryStep
           /\ part = "models" => Catalog!KeyStep
<1>1. RegistryAssumption /\ CatalogAssumption /\ SettingsAssumption /\ PolicyAssumption
  BY RecordsAssumption
<1>2. CASE Step
  <2>1. /\ part' = part
        /\ part = "agents" => Registry!Next
        /\ part = "models" => Catalog!Next
        /\ part = "settings" => Settings!Next
        /\ part = "commands" => Policy!Next
    BY <1>2 DEF Step, RecordsNext, RecordNames
  <2>2. part = "agents" => Registry!RegistrySound' /\ Registry!MemoryStep
    BY <1>1, <2>1, RegistryStep, RegistryMemory DEF StoredSound
  <2>3. part = "models" => Catalog!CatalogSound' /\ Catalog!KeyStep
    BY <1>1, <2>1, CatalogStep DEF StoredSound
  <2>4. part = "settings" => Settings!SettingsSound'
    BY <1>1, <2>1, SettingsStep DEF StoredSound
  <2>5. part = "commands" => Policy!PolicySound'
    BY <1>1, <2>1, PolicyStep DEF StoredSound
  <2> QED
    BY <2>1, <2>2, <2>3, <2>4, <2>5 DEF StoredSound
<1>3. CASE UNCHANGED parts
  <2>1. part' = part /\ UNCHANGED <<w1, w2, w3, w4, w5, w6, w7, w8, w9, w10, w11, w12, w13, w14>>
    BY <1>3 DEF parts
  <2>2. UNCHANGED Registry!vars
    BY <2>1 DEF Registry!vars, Registry!disk, Registry!process
  <2>3. part = "agents" => Registry!RegistrySound'
    BY <1>1, <2>2, RegistryStep DEF StoredSound
  <2> QED
    BY <2>1, <2>3, StoppedStays DEF StoredSound
<1> QED
  BY <1>2, <1>3

LEMMA StoredFacts ==
    ASSUME StoredSound, NEW p, Programs = {p}
    PROVE  part \in {"agents", "models", "settings", "commands"} => StoredTrue
<1>1. part = "agents" => Registry!TypeOK /\ Registry!SessionHasAgent
  BY RegistryFacts DEF StoredSound
<1>2. part = "models" => Catalog!TypeOK /\ Catalog!DefaultListed
  BY CatalogFacts DEF StoredSound
<1>3. part = "settings" => Settings!TypeOK /\ Settings!SettingsKept
  BY SettingsFacts DEF StoredSound
<1>4. part = "commands" => Policy!TypeOK /\ Policy!SavedObeyed
  BY PolicyFacts DEF StoredSound
<1>5. CASE part = "agents"
  BY <1>1, <1>5 DEF StoredTrue
<1>6. CASE part = "models"
  BY <1>2, <1>6 DEF StoredTrue
<1>7. CASE part = "settings"
  BY <1>3, <1>7 DEF StoredTrue
<1>8. CASE part = "commands"
  BY <1>4, <1>8 DEF StoredTrue
<1> QED
  BY <1>5, <1>6, <1>7, <1>8

\* For every set of agents, providers, models, jobs, values and policies, and one program
\* that has the registry to itself: stored sessions have their agents, the default model
\* is listed, settings are those that were made and the policy that was saved decides.
THEOREM RecordsSettings ==
    ASSUME NEW p, Programs = {p}
    PROVE  RecordsSpec => [](part \in {"agents", "models", "settings", "commands"} => StoredTrue)
<1>1. (part \in RecordNames => RecordsInit) => StoredSound
  BY StoredInit
<1>2. StoredSound /\ [Step]_parts => StoredSound'
  BY StoredStep
<1>3. StoredSound => (part \in {"agents", "models", "settings", "commands"} => StoredTrue)
  BY StoredFacts
<1> QED
  BY <1>1, <1>2, <1>3, PTL DEF RecordsSpec, Step

\* Under the same hypothesis no step loses the memory of an agent that the user has not
\* deleted, or replaces the reference to the key of a provider that nobody edits.
THEOREM RecordsNothingLost ==
    ASSUME NEW p, Programs = {p}
    PROVE  RecordsSpec => NothingLost
<1>1. (part \in RecordNames => RecordsInit) => StoredSound
  BY StoredInit
<1>2. StoredSound /\ [Step]_parts => StoredSound'
  BY StoredStep
<1>3. StoredSound /\ [Step]_parts
        => [/\ part = "agents" => Registry!MemoryStep
            /\ part = "models" => Catalog!KeyStep]_parts
  BY StoredStep
<1> QED
  BY <1>1, <1>2, <1>3, PTL DEF RecordsSpec, NothingLost, Step

-----------------------------------------------------------------------------
(* The views of the desktop (ChatViews).  Here session, view, active and   *)
(* posted are w1, w2, w3 and w4.                                           *)

Bubbles == Seq(Seq(Int))

\* The bubbles c are the bubbles b with pieces of a reply and further bubbles added.
Grown(b, c) ==
    /\ b \in Bubbles /\ c \in Bubbles /\ Len(b) <= Len(c)
    /\ \A k \in 1 .. Len(b) :
          IF b[k] = <<>> THEN c[k] = <<>> \/ c[k][1] = 0 ELSE c[k] # <<>> /\ c[k][1] = b[k][1]

LEMMA GrownSame ==
    ASSUME NEW b \in Bubbles
    PROVE  Grown(b, b)
<1>1. Len(b) \in Nat
  BY LenProperties DEF Bubbles
<1> QED
  BY <1>1 DEF Grown

LEMMA GrownTwice ==
    ASSUME NEW b, NEW c, NEW d, Grown(b, c), Grown(c, d)
    PROVE  Grown(b, d)
<1>1. Len(b) \in Nat /\ Len(c) \in Nat /\ Len(d) \in Nat
  BY LenProperties DEF Grown, Bubbles
<1>2. ASSUME NEW k \in 1 .. Len(b)
      PROVE  IF b[k] = <<>> THEN d[k] = <<>> \/ d[k][1] = 0
             ELSE d[k] # <<>> /\ d[k][1] = b[k][1]
  <2>1. k \in 1 .. Len(c)
    BY <1>1 DEF Grown
  <2>2. IF b[k] = <<>> THEN c[k] = <<>> \/ c[k][1] = 0 ELSE c[k] # <<>> /\ c[k][1] = b[k][1]
    BY DEF Grown
  <2>3. IF c[k] = <<>> THEN d[k] = <<>> \/ d[k][1] = 0 ELSE d[k] # <<>> /\ d[k][1] = c[k][1]
    BY <2>1 DEF Grown
  <2> QED
    BY <2>2, <2>3
<1> QED
  BY <1>1, <1>2 DEF Grown

LEMMA GrownAppend ==
    ASSUME NEW b \in Bubbles, NEW x \in Seq(Int)
    PROVE  /\ Grown(b, Append(b, x)) /\ Len(Append(b, x)) = Len(b) + 1
           /\ Append(b, x)[Len(b) + 1] = x
<1>1. Len(b) \in Nat
  BY LenProperties DEF Bubbles
<1>2. /\ Append(b, x) \in Bubbles /\ Len(Append(b, x)) = Len(b) + 1
      /\ \A k \in 1 .. Len(b) : Append(b, x)[k] = b[k]
      /\ Append(b, x)[Len(b) + 1] = x
  BY AppendProperties DEF Bubbles
<1> QED
  BY <1>1, <1>2 DEF Grown

LEMMA GrownPieces ==
    ASSUME NEW b \in Bubbles, NEW row \in 1 .. Len(b), NEW n \in Nat
    PROVE  Grown(b, [b EXCEPT ![row] = @ \o [k \in 1 .. n |-> 0]])
<1> DEFINE t == [k \in 1 .. n |-> 0]
           x == b[row]
           y == x \o t
           c == [b EXCEPT ![row] = y]
<1>1. Len(b) \in Nat /\ x \in Seq(Int)
  BY LenProperties, ElementOfSeq DEF Bubbles
<1>2. t \in Seq(Int)
  OBVIOUS
<1>3. \A k \in 1 .. Len(t) : t[k] = 0
  <2>1. DOMAIN t = 1 .. n /\ DOMAIN t = 1 .. Len(t)
    BY <1>2, LenProperties
  <2> QED
    BY <2>1
<1> HIDE DEF t, x
<1>4. y \in Seq(Int) /\ Len(y) = Len(x) + Len(t) /\ Len(x) \in Nat /\ Len(t) \in Nat
      /\ \A k \in 1 .. Len(x) + Len(t) : y[k] = IF k <= Len(x) THEN x[k] ELSE t[k - Len(x)]
  BY <1>1, <1>2, ConcatProperties, LenProperties
<1>5. IF x = <<>> THEN y = <<>> \/ y[1] = 0 ELSE y # <<>> /\ y[1] = x[1]
  <2>1. CASE x = <<>>
    <3>1. y = t
      BY <2>1, <1>2, ConcatEmptySeq
    <3> HIDE DEF y
    <3>2. CASE Len(t) = 0
      <4>1. t = <<>>
        BY <1>2, <3>2, EmptySeq
      <4> QED
        BY <2>1, <3>1, <4>1
    <3>3. CASE Len(t) # 0
      BY <2>1, <3>1, <3>3, <1>3, <1>4
    <3> QED
      BY <3>2, <3>3
  <2>2. CASE x # <<>>
    <3>1. Len(x) \in Nat \ {0}
      BY <2>2, <1>1, EmptySeq
    <3>2. y[1] = x[1]
      BY <3>1, <1>4
    <3>3. y # <<>>
      <4>1. Len(y) # 0
        BY <3>1, <1>4
      <4> QED
        BY <4>1, EmptySeq
    <3> QED
      BY <2>2, <3>2, <3>3
  <2> QED
    BY <2>1, <2>2
<1> HIDE DEF y
<1>6. /\ c \in Bubbles /\ Len(c) = Len(b)
      /\ \A k \in 1 .. Len(b) : c[k] = IF k = row THEN y ELSE b[k]
  BY <1>4, ExceptSeq DEF Bubbles
<1> HIDE DEF c
<1>7. Grown(b, c)
  <2>1. ASSUME NEW k \in 1 .. Len(b)
        PROVE  IF b[k] = <<>> THEN c[k] = <<>> \/ c[k][1] = 0
               ELSE c[k] # <<>> /\ c[k][1] = b[k][1]
    <3>1. CASE k = row
      BY <3>1, <1>5, <1>6 DEF x
    <3>2. CASE k # row
      BY <3>2, <1>6
    <3> QED
      BY <3>1, <3>2
  <2> QED
    BY <2>1, <1>1, <1>6 DEF Grown
<1> QED
  BY <1>7 DEF c, y, x, t

\* No message is lost from bubbles that grow.
LEMMA GrownBegins ==
    ASSUME NEW b, NEW c, Grown(b, c), NEW m, Views!Begins(m, b)
    PROVE  Views!Begins(m, c)
<1>1. /\ Len(b) \in Nat /\ Len(c) \in Nat
      /\ DOMAIN b = 1 .. Len(b) /\ DOMAIN c = 1 .. Len(c)
  BY LenProperties DEF Grown, Bubbles
<1>2. PICK k \in 1 .. Len(b) : b[k] # <<>> /\ b[k][1] = m
  BY <1>1 DEF Views!Begins
<1>3. k \in 1 .. Len(c) /\ c[k] # <<>> /\ c[k][1] = m
  BY <1>1, <1>2 DEF Grown
<1> QED
  BY <1>1, <1>3 DEF Views!Begins

LEMMA BeginsAppend ==
    ASSUME NEW b \in Bubbles, NEW m \in Int
    PROVE  Views!Begins(m, Append(b, <<m>>))
<1>1. <<m>> \in Seq(Int) /\ <<m>> # <<>> /\ <<m>>[1] = m
  OBVIOUS
<1>2. /\ Grown(b, Append(b, <<m>>)) /\ Len(Append(b, <<m>>)) = Len(b) + 1
      /\ Append(b, <<m>>)[Len(b) + 1] = <<m>>
  BY <1>1, GrownAppend
<1>3. Len(b) \in Nat /\ DOMAIN Append(b, <<m>>) = 1 .. Len(b) + 1
  BY <1>2, LenProperties DEF Grown, Bubbles
<1>4. Len(b) + 1 \in DOMAIN Append(b, <<m>>)
  BY <1>3
<1> QED
  BY <1>1, <1>2, <1>4 DEF Views!Begins

\* What a view becomes when nothing but its bubbles, its indicators and the row of its
\* reply change.
Kept(w, v) ==
    /\ w \in Views!ViewStates /\ v \in Views!ViewStates
    /\ v.cur = w.cur /\ v.list = w.list /\ v.apart = w.apart
    /\ w.late \subseteq v.late
    /\ v.pending = w.pending \/ v.pending = 0
    /\ Grown(w.bubbles, v.bubbles)

LEMMA KeptSame ==
    ASSUME NEW w \in Views!ViewStates
    PROVE  Kept(w, w)
<1>1. w.bubbles \in Bubbles
  BY DEF Views!ViewStates, Bubbles
<1> QED
  BY <1>1, GrownSame DEF Kept

LEMMA KeptTwice ==
    ASSUME NEW w, NEW v, NEW u, Kept(w, v), Kept(v, u)
    PROVE  Kept(w, u)
<1>1. Grown(w.bubbles, u.bubbles)
  BY GrownTwice DEF Kept
<1> QED
  BY <1>1 DEF Kept

LEMMA FlushedKept ==
    ASSUME NEW w \in Views!ViewStates
    PROVE  /\ Kept(w, Views!Flushed(w))
           /\ Views!Flushed(w).sending = w.sending /\ Views!Flushed(w).pending = w.pending
<1> DEFINE b == w.bubbles
           row == IF w.target \in DOMAIN b THEN w.target ELSE Len(b)
           c == IF row \in DOMAIN b THEN [b EXCEPT ![row] = @ \o [k \in 1 .. w.tail |-> 0]] ELSE b
<1>1. b \in Bubbles /\ w.tail \in Nat
  BY DEF Views!ViewStates, Bubbles
<1>2. DOMAIN b = 1 .. Len(b)
  BY <1>1, LenProperties DEF Bubbles
<1>3. Grown(b, c)
  <2>1. CASE row \in DOMAIN b
    <3>1. Grown(b, [b EXCEPT ![row] = @ \o [k \in 1 .. w.tail |-> 0]])
      BY <1>1, <1>2, <2>1, GrownPieces
    <3> QED
      BY <2>1, <3>1
  <2>2. CASE row \notin DOMAIN b
    BY <1>1, <2>2, GrownSame
  <2> QED
    BY <2>1, <2>2
<1>4. Views!Flushed(w) = [w EXCEPT !.bubbles = c, !.tail = 0]
  <2>1. CASE row \in DOMAIN b
    BY <2>1 DEF Views!Flushed, Views!Written, Views!Piece, Views!ViewStates
  <2>2. CASE row \notin DOMAIN b
    BY <2>2 DEF Views!Flushed, Views!Written, Views!Piece, Views!ViewStates
  <2> QED
    BY <2>1, <2>2
<1>5. c \in Seq(Seq(Int))
  BY <1>3 DEF Grown, Bubbles
<1> HIDE DEF c
<1>6. [w EXCEPT !.bubbles = c, !.tail = 0] \in Views!ViewStates
  BY <1>5 DEF Views!ViewStates
<1> QED
  BY <1>3, <1>4, <1>6 DEF Kept, Views!ViewStates

LEMMA SendingKept ==
    ASSUME NEW w \in Views!ViewStates, NEW b \in BOOLEAN
    PROVE  /\ Kept(w, Views!Sending(w, b))
           /\ Views!Sending(w, b).sending = b /\ Views!Sending(w, b).pending = w.pending
<1> DEFINE v == [w EXCEPT !.sending = b]
<1>1. /\ v \in Views!ViewStates /\ v.sending = b /\ v.pending = w.pending /\ v.cur = w.cur
      /\ v.list = w.list /\ v.apart = w.apart /\ v.bubbles = w.bubbles /\ v.late = w.late
  BY DEF Views!ViewStates
<1>2. Kept(w, v)
  <2>1. w.bubbles \in Bubbles
    BY DEF Views!ViewStates, Bubbles
  <2> QED
    BY <1>1, <2>1, GrownSame DEF Kept
<1>3. Views!Sending(w, b) = IF b THEN v ELSE Views!Flushed(v)
  BY DEF Views!Sending
<1> HIDE DEF v
<1>4. /\ Kept(v, Views!Flushed(v)) /\ Views!Flushed(v).sending = v.sending
      /\ Views!Flushed(v).pending = v.pending
  BY <1>1, FlushedKept
<1>5. Kept(w, Views!Flushed(v))
  BY <1>2, <1>4, KeptTwice
<1> QED
  BY <1>1, <1>2, <1>3, <1>4, <1>5

\* The sessions ss are like those of the program.
SessionsTyped(ss) == ss \in [ViewSessions -> Views!SessionStates]

LEMMA UpdatedKept ==
    ASSUME NEW w \in Views!ViewStates, NEW ss, SessionsTyped(ss)
    PROVE  /\ Kept(w, Views!Updated(w, ss)) /\ Views!Updated(w, ss).pending = w.pending
           /\ Views!Updated(w, ss).sending = Views!Streaming(ss, w.cur)
<1>1. Views!Streaming(ss, w.cur) \in BOOLEAN
  BY DEF Views!Streaming
<1> QED
  BY <1>1, SendingKept DEF Views!Updated

LEMMA ResetKept ==
    ASSUME NEW w \in Views!ViewStates
    PROVE  /\ Kept(w, Views!Reset(w)) /\ Views!Reset(w).pending = 0
           /\ Views!Reset(w).sending = w.sending
           /\ Views!Reset(w).bubbles = w.bubbles
<1>1. /\ Views!Reset(w) \in Views!ViewStates
      /\ Views!Reset(w).pending = 0 /\ Views!Reset(w).cur = w.cur
      /\ Views!Reset(w).list = w.list /\ Views!Reset(w).apart = w.apart
      /\ Views!Reset(w).bubbles = w.bubbles /\ Views!Reset(w).sending = w.sending
      /\ Views!Reset(w).late = w.late
  BY DEF Views!ViewStates, Views!Reset
<1>2. w.bubbles \in Bubbles
  BY DEF Views!ViewStates, Bubbles
<1> QED
  BY <1>1, <1>2, GrownSame DEF Kept

LEMMA AddedKept ==
    ASSUME NEW w \in Views!ViewStates, NEW x \in Seq(Int)
    PROVE  /\ Kept(w, Views!Added(w, x)) /\ Views!Added(w, x).pending = w.pending
           /\ Views!Added(w, x).sending = w.sending
           /\ Views!Added(w, x).bubbles = Append(w.bubbles, x)
           /\ Views!Added(w, x).late = w.late
<1> DEFINE c == Append(w.bubbles, x)
<1>1. w.bubbles \in Bubbles /\ Grown(w.bubbles, c) /\ c \in Seq(Seq(Int))
  <2>1. w.bubbles \in Bubbles
    BY DEF Views!ViewStates, Bubbles
  <2> QED
    BY <2>1, GrownAppend DEF Grown, Bubbles
<1>2. Views!Added(w, x) = [w EXCEPT !.bubbles = c]
  BY DEF Views!Added
<1> HIDE DEF c
<1>3. /\ Views!Added(w, x) \in Views!ViewStates
      /\ Views!Added(w, x).pending = w.pending /\ Views!Added(w, x).cur = w.cur
      /\ Views!Added(w, x).list = w.list /\ Views!Added(w, x).apart = w.apart
      /\ Views!Added(w, x).bubbles = c /\ Views!Added(w, x).sending = w.sending
      /\ Views!Added(w, x).late = w.late
  BY <1>1, <1>2 DEF Views!ViewStates
<1> QED
  BY <1>1, <1>3 DEF Kept, c

LEMMA StreamedKept ==
    ASSUME NEW w \in Views!ViewStates, NEW n \in Nat
    PROVE  /\ Kept(w, Views!Streamed(w, n)) /\ Views!Streamed(w, n).pending = w.pending
           /\ Views!Streamed(w, n).sending = w.sending
<1>1. /\ Views!Streamed(w, n) \in Views!ViewStates
      /\ Views!Streamed(w, n).pending = w.pending /\ Views!Streamed(w, n).cur = w.cur
      /\ Views!Streamed(w, n).list = w.list /\ Views!Streamed(w, n).apart = w.apart
      /\ Views!Streamed(w, n).bubbles = w.bubbles /\ Views!Streamed(w, n).sending = w.sending
      /\ Views!Streamed(w, n).late = w.late
  <2>1. CASE w.sending
    <3>1. w.tail + n \in Nat
      BY DEF Views!ViewStates
    <3> QED
      BY <2>1, <3>1 DEF Views!ViewStates, Views!Streamed
  <2>2. CASE ~w.sending
    BY <2>2 DEF Views!Streamed
  <2> QED
    BY <2>1, <2>2
<1>2. w.bubbles \in Bubbles
  BY DEF Views!ViewStates, Bubbles
<1> QED
  BY <1>1, <1>2, GrownSame DEF Kept

LEMMA PlaceholderFacts ==
    ASSUME NEW w \in Views!ViewStates
    PROVE  LET v == Views!Placeholder(w) IN
           /\ v \in Views!ViewStates /\ v.cur = w.cur /\ v.list = w.list /\ v.apart = w.apart
           /\ v.sending = w.sending /\ Grown(w.bubbles, v.bubbles) /\ Views!RowSound(v)
           /\ v.late = w.late
<1> DEFINE b == w.bubbles
           c == Append(b, <<>>)
           row == Len(b) + 1
           v == Views!Placeholder(w)
<1>1. b \in Bubbles /\ <<>> \in Seq(Int)
  BY EmptySeq DEF Views!ViewStates, Bubbles
<1>2. Grown(b, c) /\ Len(c) = row /\ c[row] = <<>> /\ c \in Seq(Seq(Int)) /\ Len(b) \in Nat
  BY <1>1, GrownAppend, LenProperties DEF Grown, Bubbles
<1>3. row \in Nat /\ DOMAIN c = 1 .. row
  BY <1>2, LenProperties
<1>4. v = [[w EXCEPT !.bubbles = c] EXCEPT !.pending = row, !.target = row]
  BY DEF Views!Placeholder, Views!Added
<1> HIDE DEF c, row, v
<1>5. /\ v \in Views!ViewStates /\ v.cur = w.cur /\ v.list = w.list /\ v.apart = w.apart
      /\ v.sending = w.sending /\ v.bubbles = c /\ v.pending = row /\ v.late = w.late
  BY <1>2, <1>3, <1>4 DEF Views!ViewStates
<1>6. row \in 1 .. row
  BY <1>2 DEF row
<1>7. Views!RowSound(v)
  BY <1>2, <1>3, <1>5, <1>6 DEF Views!RowSound
<1> QED
  BY <1>2, <1>5, <1>7 DEF v

LEMMA RemoveAtFacts ==
    ASSUME NEW b \in Bubbles, NEW i \in 1 .. Len(b)
    PROVE  LET r == Views!RemoveAt(b, i) IN
           /\ r \in Bubbles /\ Len(r) = Len(b) - 1
           /\ \A k \in 1 .. Len(r) : r[k] = IF k < i THEN b[k] ELSE b[k + 1]
<1> DEFINE x == SubSeq(b, 1, i - 1)
           y == SubSeq(b, i + 1, Len(b))
<1>1. Len(b) \in Nat /\ \A k \in 1 .. Len(b) : b[k] \in Seq(Int)
  BY LenProperties, ElementOfSeq DEF Bubbles
<1>2. /\ x \in Bubbles /\ Len(x) = i - 1
      /\ \A k \in 1 .. i - 1 : x[k] = b[k]
  <2>1. /\ x \in Seq(Seq(Int)) /\ Len(x) = (IF 1 <= i - 1 THEN (i - 1) - 1 + 1 ELSE 0)
        /\ \A k \in 1 .. (i - 1) - 1 + 1 : x[k] = b[1 + k - 1]
    BY <1>1, SubSeqProperties
  <2> QED
    BY <2>1 DEF Bubbles
<1>3. /\ y \in Bubbles /\ Len(y) = Len(b) - i
      /\ \A k \in 1 .. Len(b) - i : y[k] = b[i + k]
  <2>1. /\ y \in Seq(Seq(Int)) /\ Len(y) = (IF i + 1 <= Len(b) THEN Len(b) - (i + 1) + 1 ELSE 0)
        /\ \A k \in 1 .. Len(b) - (i + 1) + 1 : y[k] = b[i + 1 + k - 1]
    BY <1>1, SubSeqProperties
  <2>2. \A k \in 1 .. Len(b) - i : y[k] = b[i + k]
    <3> SUFFICES ASSUME NEW k \in 1 .. Len(b) - i PROVE y[k] = b[i + k]
      OBVIOUS
    <3>1. k \in 1 .. Len(b) - (i + 1) + 1 /\ i + 1 + k - 1 = i + k
      BY <1>1
    <3> QED
      BY <2>1, <3>1
  <2> QED
    BY <1>1, <2>1, <2>2 DEF Bubbles
<1> HIDE DEF x, y
<1>4. /\ x \o y \in Bubbles /\ Len(x \o y) = Len(x) + Len(y)
      /\ \A k \in 1 .. Len(x) + Len(y) : (x \o y)[k] = IF k <= Len(x) THEN x[k] ELSE y[k - Len(x)]
  BY <1>2, <1>3, ConcatProperties DEF Bubbles
<1>5. ASSUME NEW k \in 1 .. Len(b) - 1
      PROVE  (x \o y)[k] = IF k < i THEN b[k] ELSE b[k + 1]
  <2>1. (x \o y)[k] = IF k <= i - 1 THEN x[k] ELSE y[k - (i - 1)]
    BY <1>1, <1>2, <1>3, <1>4
  <2>2. CASE k < i
    <3>1. k \in 1 .. i - 1
      BY <2>2
    <3> QED
      BY <1>2, <2>1, <2>2, <3>1
  <2>3. CASE ~(k < i)
    <3>1. k - (i - 1) \in 1 .. Len(b) - i /\ i + (k - (i - 1)) = k + 1
      BY <2>3, <1>1
    <3> QED
      BY <1>3, <2>1, <2>3, <3>1
  <2> QED
    BY <2>2, <2>3
<1>6. Len(x \o y) = Len(b) - 1
  BY <1>1, <1>2, <1>3, <1>4
<1>7. \A k \in 1 .. Len(x \o y) : (x \o y)[k] = IF k < i THEN b[k] ELSE b[k + 1]
  BY <1>5, <1>6
<1>8. Views!RemoveAt(b, i) = x \o y
  BY DEF Views!RemoveAt, x, y
<1> QED
  BY <1>4, <1>6, <1>7, <1>8

LEMMA BeginsRemoved ==
    ASSUME NEW b \in Bubbles, NEW i \in 1 .. Len(b), NEW m, Views!Begins(m, b),
           b[i] = <<>> \/ b[i][1] # m
    PROVE  Views!Begins(m, Views!RemoveAt(b, i))
<1> DEFINE r == Views!RemoveAt(b, i)
<1>1. Len(b) \in Nat /\ DOMAIN b = 1 .. Len(b)
  BY LenProperties DEF Bubbles
<1>2. /\ r \in Bubbles /\ Len(r) = Len(b) - 1
      /\ \A k \in 1 .. Len(r) : r[k] = IF k < i THEN b[k] ELSE b[k + 1]
  BY RemoveAtFacts
<1> HIDE DEF r
<1>3. DOMAIN r = 1 .. Len(b) - 1
  BY <1>1, <1>2, LenProperties DEF Bubbles
<1>4. PICK k \in 1 .. Len(b) : b[k] # <<>> /\ b[k][1] = m
  BY <1>1 DEF Views!Begins
<1>5. k # i
  BY <1>4
<1>6. CASE k < i
  <2>1. k \in 1 .. Len(b) - 1
    BY <1>1, <1>6
  <2> QED
    BY <1>2, <1>3, <1>4, <1>6, <2>1 DEF Views!Begins, r
<1>7. CASE k > i
  <2>1. k - 1 \in 1 .. Len(b) - 1 /\ ~(k - 1 < i) /\ k - 1 + 1 = k
    BY <1>1, <1>7
  <2>2. r[k - 1] = b[k]
    BY <1>2, <2>1
  <2> QED
    BY <1>3, <1>4, <2>1, <2>2 DEF Views!Begins, r
<1> QED
  BY <1>5, <1>6, <1>7

LEMMA KeptRow ==
    ASSUME NEW w, NEW v, Kept(w, v), Views!RowSound(w)
    PROVE  Views!RowSound(v)
<1>1. /\ DOMAIN w.bubbles = 1 .. Len(w.bubbles) /\ DOMAIN v.bubbles = 1 .. Len(v.bubbles)
      /\ Len(w.bubbles) \in Nat /\ Len(v.bubbles) \in Nat
  BY LenProperties DEF Kept, Grown, Bubbles
<1> SUFFICES ASSUME v.pending # 0, ~v.apart
             PROVE  /\ v.pending \in DOMAIN v.bubbles
                    /\ v.bubbles[v.pending] = <<>> \/ v.bubbles[v.pending][1] = 0
  BY DEF Views!RowSound, Views!Piece
<1>2. v.pending = w.pending /\ ~w.apart
  BY DEF Kept
<1>3. /\ v.pending \in DOMAIN w.bubbles
      /\ w.bubbles[v.pending] = <<>> \/ w.bubbles[v.pending][1] = 0
  BY <1>2 DEF Views!RowSound, Views!Piece
<1> QED
  BY <1>1, <1>3 DEF Kept, Grown

LEMMA FunctionIsSeq ==
    ASSUME NEW S, NEW n \in Nat, NEW f \in [1 .. n -> S]
    PROVE  f \in Seq(S)
OBVIOUS

LEMMA ViewsCardinality == \A S : Views!Cardinality(S) = Cardinality(S)
BY DEF Views!Cardinality, Cardinality

\* The elements of S before k.
Before(S, k) == {j \in S : j < k}

LEMMA BeforeGrows ==
    ASSUME NEW S \in SUBSET Int, IsFiniteSet(S), NEW k \in S, NEW l \in S, k < l
    PROVE  Cardinality(Before(S, k)) < Cardinality(Before(S, l))
<1> DEFINE a == Before(S, k)
           b == Before(S, l)
<1>1. k \in Int /\ l \in Int /\ \A j \in S : j \in Int
  OBVIOUS
<1>2. a \subseteq b /\ k \in b /\ k \notin a
  <2>1. \A j \in a : j \in b
    BY <1>1 DEF Before
  <2>2. k \in b /\ k \notin a
    BY <1>1 DEF Before
  <2> QED
    BY <2>1, <2>2
<1>3. IsFiniteSet(b)
  BY FS_Subset DEF Before
<1>4. IsFiniteSet(a) /\ Cardinality(a) <= Cardinality(b) /\ Cardinality(a) # Cardinality(b)
  BY <1>2, <1>3, FS_Subset
<1>5. Cardinality(a) \in Nat /\ Cardinality(b) \in Nat
  BY <1>3, <1>4, FS_CardinalityType
<1> QED
  BY <1>4, <1>5

LEMMA BeforeBound ==
    ASSUME NEW S \in SUBSET Int, IsFiniteSet(S), NEW k \in S
    PROVE  Cardinality(Before(S, k)) \in 0 .. Cardinality(S) - 1
<1> DEFINE a == Before(S, k)
<1>1. a \subseteq S /\ k \notin a
  BY DEF Before
<1>2. IsFiniteSet(a) /\ Cardinality(a) <= Cardinality(S) /\ Cardinality(a) # Cardinality(S)
  BY <1>1, FS_Subset
<1>3. Cardinality(a) \in Nat /\ Cardinality(S) \in Nat
  BY <1>2, FS_CardinalityType
<1> QED
  BY <1>2, <1>3

LEMMA BeforeOnce ==
    ASSUME NEW S \in SUBSET Int, IsFiniteSet(S), NEW k \in S, NEW l \in S,
           Cardinality(Before(S, k)) = Cardinality(Before(S, l))
    PROVE  k = l
<1>1. k < l \/ l < k \/ k = l
  OBVIOUS
<1>2. Cardinality(Before(S, k)) \in Int
  BY BeforeBound, FS_CardinalityType
<1> QED
  BY <1>1, <1>2, BeforeGrows

LEMMA BeforeEach ==
    ASSUME NEW S \in SUBSET Int, IsFiniteSet(S), NEW r \in 1 .. Cardinality(S)
    PROVE  \E k \in S : Cardinality(Before(S, k)) = r - 1
<1> DEFINE n == Cardinality(S)
           f == [k \in S |-> Cardinality(Before(S, k))]
<1>1. n \in Nat
  BY FS_CardinalityType
<1>2. f \in [S -> 0 .. n - 1]
  BY BeforeBound
<1>3. \A k, l \in S : f[k] = f[l] => k = l
  BY BeforeOnce
<1>4. IsFiniteSet(0 .. n - 1) /\ Cardinality(0 .. n - 1) = n
  <2> HIDE DEF n
  <2> QED
    BY <1>1, FS_Interval
<1>5. f \in Injection(S, 0 .. n - 1)
  BY <1>2, <1>3 DEF Injection, IsInjective
<1>6. f \in Surjection(S, 0 .. n - 1)
  BY <1>4, <1>5, FS_Injection
<1>7. r - 1 \in 0 .. n - 1
  BY <1>1
<1>8. \A i \in 0 .. n - 1 : \E k \in S : f[k] = i
  BY <1>6 DEF Surjection
<1> QED
  BY <1>7, <1>8

\* Sorted lists a finite set of numbers.
LEMMA SortedFacts ==
    ASSUME NEW S \in SUBSET Int, IsFiniteSet(S)
    PROVE  /\ Cardinality(S) \in Nat
           /\ Views!Sorted(S) \in [1 .. Cardinality(S) -> S]
           /\ \A m \in S : \E n \in 1 .. Cardinality(S) : Views!Sorted(S)[n] = m
<1> DEFINE N == Cardinality(S)
           q == Views!Sorted(S)
<1>1. N \in Nat
  BY FS_CardinalityType
<1>2. q = [n \in 1 .. N |-> CHOOSE m \in S : Views!Cardinality({j \in S : j < m}) = n - 1]
  <2>1. Views!Cardinality(S) = N
    BY ViewsCardinality
  <2> HIDE DEF N
  <2> QED
    BY <2>1 DEF Views!Sorted
<1>3. ASSUME NEW n \in 1 .. N
      PROVE  q[n] \in S /\ Cardinality(Before(S, q[n])) = n - 1
  <2>1. q[n] = CHOOSE m \in S : Views!Cardinality({j \in S : j < m}) = n - 1
    BY <1>2
  <2>2. \E m \in S : Cardinality({j \in S : j < m}) = n - 1
    BY BeforeEach DEF Before
  <2>3. \E m \in S : Views!Cardinality({j \in S : j < m}) = n - 1
    BY <2>2, ViewsCardinality
  <2> HIDE DEF q
  <2>4. q[n] \in S /\ Views!Cardinality({j \in S : j < q[n]}) = n - 1
    BY <2>1, <2>3
  <2>5. q[n] \in S /\ Cardinality({j \in S : j < q[n]}) = n - 1
    BY <2>4, ViewsCardinality
  <2> QED
    BY <2>5 DEF Before
<1>4. q \in [1 .. N -> S]
  <2>1. q = [n \in 1 .. N |-> q[n]]
    BY <1>2
  <2> HIDE DEF q
  <2> QED
    BY <1>3, <2>1
<1>5. ASSUME NEW m \in S PROVE \E n \in 1 .. N : q[n] = m
  <2>1. Cardinality(Before(S, m)) \in 0 .. N - 1
    BY BeforeBound
  <2> DEFINE c == Cardinality(Before(S, m))
  <2>2. c = Cardinality(Before(S, m))
    OBVIOUS
  <2> HIDE DEF q, N, c
  <2>3. c + 1 \in 1 .. N /\ (c + 1) - 1 = c
    BY <1>1, <2>1, <2>2
  <2>4. q[c + 1] \in S /\ Cardinality(Before(S, q[c + 1])) = c
    BY <1>3, <2>3
  <2>5. q[c + 1] = m
    BY <2>2, <2>4, BeforeOnce
  <2> QED
    BY <2>3, <2>5
<1> QED
  BY <1>1, <1>4, <1>5

\* A message that is not among the last ones will not be when there are more.
LEMMA RecentAppend ==
    ASSUME ViewsAssumption, NEW ms \in Seq(Int), NEW x \in Int, NEW k \in DOMAIN ms,
           k \in Views!Recent(Append(ms, x))
    PROVE  k \in Views!Recent(ms)
<1> DEFINE ns == Append(ms, x)
           A == {j \in Views!Visible(ms) : j > k}
           B == {j \in Views!Visible(ns) : j > k}
<1>1. /\ Len(ms) \in Nat /\ DOMAIN ms = 1 .. Len(ms) /\ DOMAIN ns = 1 .. Len(ms) + 1
      /\ \A j \in 1 .. Len(ms) : ns[j] = ms[j]
  <2>1. ns \in Seq(Int) /\ Len(ns) = Len(ms) + 1 /\ \A j \in 1 .. Len(ms) : ns[j] = ms[j]
    BY AppendProperties
  <2> HIDE DEF ns
  <2> QED
    BY <2>1, LenProperties
<1> HIDE DEF ns
<1>2. \A j \in Views!Visible(ms) : j \in Views!Visible(ns)
  BY <1>1 DEF Views!Visible
<1>3. A \subseteq B /\ B \subseteq 1 .. Len(ms) + 1
  BY <1>1, <1>2 DEF Views!Visible
<1> HIDE DEF A
<1>4. IsFiniteSet(1 .. Len(ms) + 1)
  <2>1. 1 \in Int /\ Len(ms) + 1 \in Int
    BY <1>1
  <2> QED
    BY <2>1, FS_Interval
<1>5. IsFiniteSet(B)
  BY <1>3, <1>4, FS_Subset
<1>6. IsFiniteSet(A) /\ Cardinality(A) <= Cardinality(B)
  BY <1>3, <1>5, FS_Subset
<1>7. Cardinality(A) \in Nat /\ Cardinality(B) \in Nat
  BY <1>5, <1>6, FS_CardinalityType
<1>8. k \in Views!Visible(ns) /\ Cardinality(B) < HistoryLimit
  BY ViewsCardinality DEF Views!Recent, ns
<1> HIDE DEF B
<1>9. Cardinality(A) < HistoryLimit
  BY <1>6, <1>7, <1>8 DEF ViewsAssumption
<1>10. k \in Views!Visible(ms)
  BY <1>1, <1>8 DEF Views!Visible
<1> QED
  BY <1>9, <1>10, ViewsCardinality DEF Views!Recent, A

Messages == Seq(Int \ {0})

\* What the view v is told of, or what there is nothing to show of, when the messages ms
\* of its session have become ns.
Told(ms, ns, v) == \A k \in DOMAIN ns :
    \/ k \in DOMAIN ms /\ ns[k] = ms[k] /\ (k \in Views!Recent(ns) => k \in Views!Recent(ms))
    \/ ns[k] \in {Views!Hidden, Views!Blank}
    \/ ns[k] \in v.late
    \/ Views!Begins(ns[k], v.bubbles)

LEMMA ToldSame ==
    ASSUME NEW ms, NEW v
    PROVE  Told(ms, ms, v)
BY DEF Told

LEMMA ToldTwice ==
    ASSUME NEW ms, NEW ns, NEW os, NEW v, Told(ms, ns, v), Told(ns, os, v)
    PROVE  Told(ms, os, v)
<1> SUFFICES ASSUME NEW k \in DOMAIN os
             PROVE  \/ k \in DOMAIN ms /\ os[k] = ms[k]
                       /\ (k \in Views!Recent(os) => k \in Views!Recent(ms))
                    \/ os[k] \in {Views!Hidden, Views!Blank}
                    \/ os[k] \in v.late
                    \/ Views!Begins(os[k], v.bubbles)
  BY DEF Told
<1>1. \/ k \in DOMAIN ns /\ os[k] = ns[k]
         /\ (k \in Views!Recent(os) => k \in Views!Recent(ns))
      \/ os[k] \in {Views!Hidden, Views!Blank}
      \/ os[k] \in v.late
      \/ Views!Begins(os[k], v.bubbles)
  BY DEF Told
<1>2. CASE k \in DOMAIN ns /\ os[k] = ns[k]
           /\ (k \in Views!Recent(os) => k \in Views!Recent(ns))
  BY <1>2 DEF Told
<1> QED
  BY <1>1, <1>2

LEMMA ToldAppend ==
    ASSUME ViewsAssumption, NEW ms \in Messages, NEW m \in Int \ {0}, NEW v,
           m \in {Views!Hidden, Views!Blank} \/ m \in v.late \/ Views!Begins(m, v.bubbles)
    PROVE  Append(ms, m) \in Messages /\ Told(ms, Append(ms, m), v)
<1> DEFINE ns == Append(ms, m)
<1>1. /\ ns \in Messages /\ Len(ns) = Len(ms) + 1 /\ Len(ms) \in Nat
      /\ \A k \in 1 .. Len(ms) : ns[k] = ms[k]
      /\ ns[Len(ms) + 1] = m
      /\ DOMAIN ms = 1 .. Len(ms)
  BY AppendProperties, LenProperties DEF Messages
<1>2. ms \in Seq(Int) /\ m \in Int
  BY DEF Messages
<1>3. \A k \in DOMAIN ms : k \in Views!Recent(ns) => k \in Views!Recent(ms)
  BY <1>2, RecentAppend
<1> HIDE DEF ns
<1>4. DOMAIN ns = 1 .. Len(ms) + 1
  BY <1>1, LenProperties DEF Messages
<1>5. ASSUME NEW k \in DOMAIN ns
      PROVE  \/ k \in DOMAIN ms /\ ns[k] = ms[k]
                /\ (k \in Views!Recent(ns) => k \in Views!Recent(ms))
             \/ ns[k] = m
  <2>1. k \in 1 .. Len(ms) \/ k = Len(ms) + 1
    BY <1>1, <1>4
  <2> QED
    BY <1>1, <1>3, <2>1
<1>6. Told(ms, ns, v)
  BY <1>5 DEF Told
<1> QED
  BY <1>1, <1>6 DEF ns

\* A view that loses no bubble of a message and is told of the new ones accounts for all.
LEMMA ShownTold ==
    ASSUME NEW w, NEW v, NEW ss, NEW tt, Views!AllShown(w, ss),
           v.cur = w.cur, v.apart = w.apart, w.late \subseteq v.late,
           w.cur # None /\ ~w.apart /\ tt[w.cur].there =>
              /\ ss[w.cur].there
              /\ Told(ss[w.cur].msgs, tt[w.cur].msgs, v)
              /\ \A k \in DOMAIN ss[w.cur].msgs :
                    Views!Begins(ss[w.cur].msgs[k], w.bubbles)
                       => Views!Begins(ss[w.cur].msgs[k], v.bubbles)
              /\ Views!Begins(Views!Earlier, w.bubbles) => Views!Begins(Views!Earlier, v.bubbles)
    PROVE  Views!AllShown(v, tt)
<1> DEFINE ms == ss[w.cur].msgs
           ns == tt[w.cur].msgs
<1> SUFFICES ASSUME w.cur # None, ~w.apart, tt[w.cur].there, NEW k \in DOMAIN ns
             PROVE  Views!Accounted(v, ns, k)
  BY DEF Views!AllShown
<1>1. /\ Told(ms, ns, v)
      /\ \A l \in DOMAIN ms : Views!Begins(ms[l], w.bubbles) => Views!Begins(ms[l], v.bubbles)
      /\ Views!Begins(Views!Earlier, w.bubbles) => Views!Begins(Views!Earlier, v.bubbles)
      /\ \A l \in DOMAIN ms : Views!Accounted(w, ms, l)
  BY DEF Views!AllShown
<1> HIDE DEF ms, ns
<1>2. CASE /\ k \in DOMAIN ms /\ ns[k] = ms[k]
           /\ (k \in Views!Recent(ns) => k \in Views!Recent(ms))
  <2>1. Views!Accounted(w, ms, k)
    BY <1>1, <1>2
  <2> QED
    BY <1>1, <1>2, <2>1 DEF Views!Accounted
<1>3. CASE \/ ns[k] \in {Views!Hidden, Views!Blank}
           \/ ns[k] \in v.late
           \/ Views!Begins(ns[k], v.bubbles)
  BY <1>3 DEF Views!Accounted
<1> QED
  BY <1>1, <1>2, <1>3 DEF Told

LEMMA KeptTold ==
    ASSUME NEW w, NEW v, NEW ss, NEW tt, Kept(w, v), Views!AllShown(w, ss),
           w.cur # None /\ ~w.apart /\ tt[w.cur].there =>
              ss[w.cur].there /\ Told(ss[w.cur].msgs, tt[w.cur].msgs, v)
    PROVE  Views!AllShown(v, tt)
<1>1. \A m : Views!Begins(m, w.bubbles) => Views!Begins(m, v.bubbles)
  BY GrownBegins DEF Kept
<1>2. v.cur = w.cur /\ v.apart = w.apart /\ w.late \subseteq v.late
  BY DEF Kept
<1> QED
  BY <1>1, <1>2, ShownTold

LEMMA KeptShown ==
    ASSUME NEW w, NEW v, NEW ss, Kept(w, v), Views!AllShown(w, ss)
    PROVE  Views!AllShown(v, ss)
<1>1. \A m : Views!Begins(m, w.bubbles) => Views!Begins(m, v.bubbles)
  BY GrownBegins DEF Kept
<1> QED
  BY <1>1, ToldSame, KeptTold

LEMMA IndicesFinite ==
    ASSUME NEW ms \in Seq(Int)
    PROVE  IsFiniteSet(DOMAIN ms)
<1>1. DOMAIN ms = 1 .. Len(ms) /\ Len(ms) \in Int /\ 1 \in Int
  BY LenProperties
<1> QED
  BY <1>1, FS_Interval

\* The bubbles a view is filled with account for every message.
LEMMA HistoryFacts ==
    ASSUME NEW ms \in Messages
    PROVE  /\ Views!History(ms) \in Bubbles
           /\ \A w : w.bubbles = Views!History(ms) =>
                 \A k \in DOMAIN ms : Views!Accounted(w, ms, k)
<1> DEFINE R == Views!Recent(ms)
           U == {ms[k] : k \in R}
           S == U \ {Views!Blank}
           q == Views!Sorted(S)
           N == Cardinality(S)
           shown == [n \in DOMAIN q |-> <<q[n]>>]
           h == Views!History(ms)
<1>1. /\ ms \in Seq(Int) /\ IsFiniteSet(DOMAIN ms)
      /\ \A k \in DOMAIN ms : ms[k] \in Int
  <2>1. ms \in Seq(Int)
    BY DEF Messages
  <2> QED
    BY <2>1, IndicesFinite, LenProperties, ElementOfSeq
<1>2. R \subseteq DOMAIN ms
  BY DEF Views!Recent, Views!Visible
<1>3. IsFiniteSet(U) /\ U \subseteq Int
  <2> HIDE DEF R
  <2> DEFINE g == [k \in R |-> ms[k]]
  <2>1. g \in [R -> U] /\ \A t \in U : \E k \in R : g[k] = t
    OBVIOUS
  <2>2. g \in Surjection(R, U)
    BY <2>1 DEF Surjection
  <2>3. IsFiniteSet(R)
    BY <1>1, <1>2, FS_Subset
  <2> QED
    BY <1>1, <1>2, <2>2, <2>3, FS_Surjection
<1>4. S \in SUBSET Int /\ IsFiniteSet(S)
  <2> HIDE DEF U
  <2> QED
    BY <1>3, FS_Subset
<1>5. /\ N \in Nat /\ q \in [1 .. N -> S]
      /\ \A m \in S : \E n \in 1 .. N : q[n] = m
  <2> HIDE DEF S
  <2> QED
    BY <1>4, SortedFacts
<1>6. ASSUME NEW k \in R, ms[k] # Views!Blank PROVE ms[k] \in S
  BY <1>6
<1>7. h = IF R = Views!Visible(ms) THEN shown ELSE Append(shown, <<Views!Earlier>>)
  BY DEF Views!History
<1> HIDE DEF S, U, R, q, N, h
<1>8. shown \in Bubbles /\ \A m \in S : Views!Begins(m, shown)
  <2>1. shown = [n \in 1 .. N |-> <<q[n]>>]
    BY <1>5
  <2>2. ASSUME NEW n \in 1 .. N
        PROVE  <<q[n]>> \in Seq(Int) /\ <<q[n]>> # <<>> /\ <<q[n]>>[1] = q[n]
    <3>1. q[n] \in Int
      BY <1>4, <1>5
    <3> QED
      BY <3>1
  <2>3. shown \in [1 .. N -> Seq(Int)]
    BY <2>1, <2>2
  <2>4. shown \in Bubbles
    BY <1>5, <2>3, FunctionIsSeq DEF Bubbles
  <2>5. ASSUME NEW m \in S PROVE Views!Begins(m, shown)
    <3>1. PICK n \in 1 .. N : q[n] = m
      BY <1>5
    <3>2. n \in DOMAIN shown /\ shown[n] = <<q[n]>>
      BY <2>1
    <3> HIDE DEF shown
    <3> QED
      BY <2>2, <3>1, <3>2 DEF Views!Begins
  <2> QED
    BY <2>4, <2>5
<1> HIDE DEF shown
<1>9. /\ h \in Bubbles /\ \A m : Views!Begins(m, shown) => Views!Begins(m, h)
      /\ R # Views!Visible(ms) => Views!Begins(Views!Earlier, h)
  <2>1. CASE R = Views!Visible(ms)
    BY <1>7, <1>8, <2>1
  <2>2. CASE R # Views!Visible(ms)
    <3>1. Views!Earlier \in Int /\ <<Views!Earlier>> \in Seq(Int)
      BY DEF Views!Earlier
    <3>2. h = Append(shown, <<Views!Earlier>>)
      BY <1>7, <2>2
    <3>3. Grown(shown, h) /\ Views!Begins(Views!Earlier, h)
      BY <1>8, <3>1, <3>2, GrownAppend, BeginsAppend
    <3> QED
      BY <3>3, GrownBegins DEF Grown
  <2> QED
    BY <2>1, <2>2
<1>10. ASSUME NEW w, w.bubbles = h, NEW k \in DOMAIN ms PROVE Views!Accounted(w, ms, k)
  <2>1. CASE ms[k] \in {Views!Hidden, Views!Blank}
    BY <2>1 DEF Views!Accounted
  <2>2. CASE k \in R /\ ms[k] # Views!Blank
    BY <1>6, <1>8, <1>9, <1>10, <2>2 DEF Views!Accounted
  <2>3. CASE k \notin R /\ ms[k] # Views!Hidden
    <3>1. k \in Views!Visible(ms)
      BY <2>3 DEF Views!Visible
    <3>2. Views!Begins(Views!Earlier, w.bubbles)
      BY <1>9, <1>10, <2>3, <3>1
    <3> QED
      BY <2>3, <3>2 DEF Views!Accounted, R
  <2> QED
    BY <2>1, <2>2, <2>3
<1> QED
  BY <1>9, <1>10 DEF h

LEMMA RestoredFacts ==
    ASSUME NEW w \in Views!ViewStates, w.cur \in ViewSessions, NEW ss, SessionsTyped(ss)
    PROVE  LET v == Views!Restored(w, ss) IN
           /\ v \in Views!ViewStates /\ v.cur = w.cur /\ v.list = w.list
           /\ v.sending = w.sending /\ v.pending = w.pending
           /\ Views!RowSound(v) /\ Views!AllShown(v, ss)
<1> DEFINE v == Views!Restored(w, ss)
           ms == ss[w.cur].msgs
           h == Views!History(ms)
<1>1. ms \in Messages
  BY DEF SessionsTyped, Views!SessionStates, Messages
<1>2. h \in Seq(Seq(Int))
  <2> HIDE DEF ms
  <2> QED
    BY <1>1, HistoryFacts DEF Bubbles
<1>3. v = [w EXCEPT !.bubbles = h, !.target = 0, !.tail = 0, !.late = {}, !.apart = w.pending # 0]
  BY DEF Views!Restored
<1> HIDE DEF h, v
<1>4. /\ v \in Views!ViewStates /\ v.cur = w.cur /\ v.list = w.list
      /\ v.sending = w.sending /\ v.pending = w.pending /\ v.bubbles = h
      /\ v.pending # 0 => v.apart
  BY <1>2, <1>3 DEF Views!ViewStates
<1>5. Views!RowSound(v)
  BY <1>4 DEF Views!RowSound
<1>6. Views!AllShown(v, ss)
  <2>1. \A k \in DOMAIN ms : Views!Accounted(v, ms, k)
    <3> HIDE DEF ms
    <3> QED
      BY <1>1, <1>4, HistoryFacts DEF h
  <2> QED
    BY <1>4, <2>1 DEF Views!AllShown
<1> QED
  BY <1>4, <1>5, <1>6 DEF v

\* A reply takes the place of its pieces and of no message.
LEMMA CompletedFacts ==
    ASSUME NEW w \in Views!ViewStates, NEW a \in Nat, Views!RowSound(w)
    PROVE  LET v == Views!Completed(w, a) IN
           /\ v \in Views!ViewStates /\ v.cur = w.cur /\ v.list = w.list /\ v.apart = w.apart
           /\ v.sending = w.sending /\ v.pending = w.pending /\ v.late = w.late
           /\ ~w.apart =>
                 /\ \A m \in Int \ {0} : Views!Begins(m, w.bubbles) => Views!Begins(m, v.bubbles)
                 /\ a # 0 => Views!Begins(a, v.bubbles)
<1> DEFINE v == Views!Completed(w, a)
           b == w.bubbles
           i == w.pending
<1>1. b \in Bubbles /\ i \in Nat /\ <<a>> \in Seq(Int) /\ Len(b) \in Nat
      /\ DOMAIN b = 1 .. Len(b) /\ w.apart \in BOOLEAN
  <2>1. b \in Bubbles /\ i \in Nat /\ w.apart \in BOOLEAN
    BY DEF Views!ViewStates, Bubbles
  <2> QED
    BY <2>1, LenProperties DEF Bubbles
<1>2. i # 0 /\ ~w.apart => i \in DOMAIN b /\ (b[i] = <<>> \/ b[i][1] = 0)
  BY DEF Views!RowSound, Views!Piece
<1>3. CASE i # 0 /\ a = 0
  <2> DEFINE c == IF i \in DOMAIN b THEN Views!RemoveAt(b, i) ELSE b
             t == IF w.target = i THEN 0 ELSE IF w.target > i THEN w.target - 1 ELSE w.target
  <2>1. c \in Seq(Seq(Int))
    BY <1>1, RemoveAtFacts DEF Bubbles
  <2>2. t \in Nat
    BY <1>1 DEF Views!ViewStates
  <2>3. v = [w EXCEPT !.bubbles = c, !.target = t]
    BY <1>3 DEF Views!Completed
  <2>4. ~w.apart => \A m \in Int \ {0} : Views!Begins(m, b) => Views!Begins(m, c)
    <3> SUFFICES ASSUME ~w.apart, NEW m \in Int \ {0}, Views!Begins(m, b)
                 PROVE  Views!Begins(m, c)
      OBVIOUS
    <3>1. i \in 1 .. Len(b) /\ (b[i] = <<>> \/ b[i][1] # m)
      BY <1>1, <1>2, <1>3
    <3>2. Views!Begins(m, Views!RemoveAt(b, i))
      BY <1>1, <3>1, BeginsRemoved
    <3> QED
      BY <1>1, <3>1, <3>2
  <2> HIDE DEF c, t, v
  <2>5. /\ v \in Views!ViewStates /\ v.cur = w.cur /\ v.list = w.list /\ v.apart = w.apart
        /\ v.sending = w.sending /\ v.pending = w.pending /\ v.bubbles = c
        /\ v.late = w.late
    BY <2>1, <2>2, <2>3 DEF Views!ViewStates
  <2> QED
    BY <1>3, <2>4, <2>5 DEF v
<1>4. CASE i # 0 /\ a # 0 /\ i \in DOMAIN b
  <2> DEFINE c == [b EXCEPT ![i] = <<a>>]
  <2>1. /\ c \in Seq(Seq(Int)) /\ Len(c) = Len(b)
        /\ \A k \in 1 .. Len(b) : c[k] = IF k = i THEN <<a>> ELSE b[k]
    BY <1>1, <1>4, ExceptSeq DEF Bubbles
  <2>2. v = [w EXCEPT !.bubbles = c]
    BY <1>4 DEF Views!Completed
  <2> HIDE DEF c, v
  <2>3. DOMAIN c = 1 .. Len(b)
    BY <2>1, LenProperties
  <2>4. Views!Begins(a, c)
    <3>1. c[i] = <<a>> /\ i \in DOMAIN c /\ <<a>> # <<>> /\ <<a>>[1] = a
      BY <1>1, <1>4, <2>1, <2>3
    <3> QED
      BY <3>1 DEF Views!Begins
  <2>5. ~w.apart => \A m \in Int \ {0} : Views!Begins(m, b) => Views!Begins(m, c)
    <3> SUFFICES ASSUME ~w.apart, NEW m \in Int \ {0}, Views!Begins(m, b)
                 PROVE  Views!Begins(m, c)
      OBVIOUS
    <3>1. PICK k \in 1 .. Len(b) : b[k] # <<>> /\ b[k][1] = m
      BY <1>1 DEF Views!Begins
    <3>2. k # i
      BY <1>2, <1>4, <3>1
    <3> QED
      BY <2>1, <2>3, <3>1, <3>2 DEF Views!Begins
  <2>6. /\ v \in Views!ViewStates /\ v.cur = w.cur /\ v.list = w.list /\ v.apart = w.apart
        /\ v.sending = w.sending /\ v.pending = w.pending /\ v.bubbles = c
        /\ v.late = w.late
    BY <2>1, <2>2 DEF Views!ViewStates
  <2> QED
    BY <2>4, <2>5, <2>6 DEF v
<1>5. CASE i # 0 /\ a # 0 /\ i \notin DOMAIN b
  <2>1. v = w /\ w.apart
    BY <1>1, <1>2, <1>5 DEF Views!Completed
  <2> QED
    BY <2>1
<1>6. CASE i = 0 /\ a # 0
  <2>1. v = Views!Added(w, <<a>>)
    BY <1>6 DEF Views!Completed
  <2>2. /\ Kept(w, v) /\ v.pending = w.pending /\ v.sending = w.sending
        /\ v.bubbles = Append(b, <<a>>) /\ v.late = w.late
    BY <1>1, <2>1, AddedKept
  <2>3. Views!Begins(a, v.bubbles)
    BY <1>1, <2>2, BeginsAppend
  <2>4. \A m : Views!Begins(m, b) => Views!Begins(m, v.bubbles)
    BY <2>2, GrownBegins DEF Kept
  <2> QED
    BY <2>2, <2>3, <2>4 DEF Kept
<1>7. CASE i = 0 /\ a = 0
  <2>1. v = w
    BY <1>7 DEF Views!Completed
  <2> QED
    BY <1>7, <2>1
<1> QED
  BY <1>3, <1>4, <1>5, <1>6, <1>7

\* The end of a turn in a view.
LEMMA EndedKept ==
    ASSUME NEW w \in Views!ViewStates, NEW ss, SessionsTyped(ss)
    PROVE  LET v == Views!Ended(w, ss) IN
           /\ Kept(w, v) /\ v.pending = 0
           /\ v.sending = Views!Streaming(ss, w.cur)
<1> DEFINE r == Views!Reset(w)
           v == Views!Ended(w, ss)
<1>1. Kept(w, r) /\ r.pending = 0
  BY ResetKept
<1>2. r \in Views!ViewStates /\ r.cur = w.cur
  BY <1>1 DEF Kept
<1>3. v = Views!Updated(r, ss)
  BY DEF Views!Ended
<1> HIDE DEF r, v
<1>4. Kept(r, v) /\ v.pending = 0 /\ v.sending = Views!Streaming(ss, w.cur)
  BY <1>1, <1>2, <1>3, UpdatedKept
<1>5. Kept(w, v)
  BY <1>1, <1>4, KeptTwice
<1> QED
  BY <1>4, <1>5 DEF v

LEMMA FailedKept ==
    ASSUME NEW w \in Views!ViewStates, NEW i, NEW s, NEW ss, SessionsTyped(ss)
    PROVE  LET v == Views!Failed(w, i, s, ss) IN
           /\ Kept(w, v)
           /\ IF s \in w.list THEN v.pending = 0 /\ v.sending = Views!Streaming(ss, w.cur)
              ELSE v = w
<1> DEFINE v == Views!Failed(w, i, s, ss)
           r == Views!Reset(w)
           x == Views!Added(r, <<-1>>)
           u == IF Views!Shows(w, i, s) THEN x ELSE w
<1>1. CASE s \notin w.list
  BY <1>1, KeptSame DEF Views!Failed
<1>2. CASE s \in w.list
  <2>1. Kept(w, r) /\ r \in Views!ViewStates
    BY ResetKept DEF Kept
  <2> HIDE DEF r
  <2>2. <<-1>> \in Seq(Int)
    OBVIOUS
  <2>3. Kept(r, x)
    BY <2>1, <2>2, AddedKept
  <2>4. Kept(w, u)
    BY <2>1, <2>3, KeptSame, KeptTwice
  <2>5. u \in Views!ViewStates /\ u.cur = w.cur
    BY <2>4 DEF Kept
  <2>6. v = Views!Ended(u, ss)
    BY <1>2 DEF Views!Failed, Views!Notice, r
  <2> HIDE DEF u, v
  <2>7. Kept(u, v) /\ v.pending = 0 /\ v.sending = Views!Streaming(ss, w.cur)
    BY <2>5, <2>6, EndedKept
  <2>8. Kept(w, v)
    BY <2>4, <2>7, KeptTwice
  <2> QED
    BY <1>2, <2>7, <2>8 DEF v
<1> QED
  BY <1>1, <1>2

LEMMA FinishedFacts ==
    ASSUME NEW w \in Views!ViewStates, NEW i, NEW s, NEW a \in Nat, NEW ss, SessionsTyped(ss),
           Views!Shows(w, i, s) => Views!RowSound(w)
    PROVE  LET v == Views!Finished(w, i, s, a, ss) IN
           /\ v \in Views!ViewStates /\ v.cur = w.cur /\ v.list = w.list /\ v.apart = w.apart
           /\ w.late \subseteq v.late
           /\ v.pending = w.pending \/ v.pending = 0
           /\ IF s \in w.list THEN v.pending = 0 /\ v.sending = Views!Streaming(ss, w.cur)
              ELSE v = w
           /\ ~w.apart =>
                 /\ \A m \in Int \ {0} : Views!Begins(m, w.bubbles) => Views!Begins(m, v.bubbles)
                 /\ a # 0 /\ Views!Shows(w, i, s) /\ s \in w.list => Views!Begins(a, v.bubbles)
<1> DEFINE v == Views!Finished(w, i, s, a, ss)
           c == Views!Completed(w, a)
           shows == Views!Shows(w, i, s)
           u == IF shows THEN c ELSE w
<1>1. CASE s \notin w.list
  BY <1>1 DEF Views!Finished
<1>2. CASE s \in w.list
  <2>1. /\ u \in Views!ViewStates /\ u.cur = w.cur /\ u.list = w.list /\ u.apart = w.apart /\ u.late = w.late
        /\ ~w.apart =>
              /\ \A m \in Int \ {0} : Views!Begins(m, w.bubbles) => Views!Begins(m, u.bubbles)
              /\ a # 0 /\ shows => Views!Begins(a, u.bubbles)
    <3>1. CASE shows
      <4>1. u = c
        BY <3>1
      <4>2. Views!RowSound(w)
        BY <3>1
      <4> QED
        BY <4>1, <4>2, CompletedFacts
    <3>2. CASE ~shows
      BY <3>2
    <3> QED
      BY <3>1, <3>2
  <2>2. v = Views!Ended(u, ss)
    BY <1>2 DEF Views!Finished
  <2> HIDE DEF u, v, shows
  <2>3. Kept(u, v) /\ v.pending = 0 /\ v.sending = Views!Streaming(ss, w.cur)
    BY <2>1, <2>2, EndedKept
  <2>4. \A m : Views!Begins(m, u.bubbles) => Views!Begins(m, v.bubbles)
    BY <2>3, GrownBegins DEF Kept
  <2>5. /\ v \in Views!ViewStates /\ v.cur = w.cur /\ v.list = w.list /\ v.apart = w.apart
        /\ w.late \subseteq v.late
    BY <2>1, <2>3 DEF Kept
  <2>6. ~w.apart =>
              /\ \A m \in Int \ {0} : Views!Begins(m, w.bubbles) => Views!Begins(m, v.bubbles)
              /\ a # 0 /\ shows => Views!Begins(a, v.bubbles)
    BY <2>1, <2>4
  <2> QED
    BY <1>2, <2>3, <2>5, <2>6 DEF v, shows
<1> QED
  BY <1>1, <1>2

\* A view of i that is sound among the sessions ss when the view of c is active.
ViewGood(w, i, ss, c) ==
    /\ w \in Views!ViewStates
    /\ Views!ViewSound(w, i, ss)
    /\ IF i = c THEN Views!RowSound(w) /\ Views!AllShown(w, ss) ELSE w.pending = 0

\* The session a view shows is one of its list.
Placed(w, i, ss) ==
    /\ \A s \in w.list : i \in Views!Participants(s)
    /\ w.cur # None =>
          /\ i \in Views!Participants(w.cur)
          /\ ss[w.cur].there => w.cur \in w.list
          /\ ss[w.cur].there \/ ss[w.cur].gone

LEMMA PlacedSound ==
    ASSUME NEW w, NEW i, NEW ss, Placed(w, i, ss),
           w.cur # None => (ss[w.cur].there /\ w.sending => ss[w.cur].turn)
    PROVE  Views!ViewSound(w, i, ss)
BY DEF Placed, Views!ViewSound

\* A view that is kept stays sound if the session it shows does and it is told of its
\* messages.
LEMMA ToldGood ==
    ASSUME NEW w, NEW v, NEW i, NEW ss, NEW tt, NEW c, ViewGood(w, i, ss, c), Kept(w, v),
           w.cur # None =>
              /\ tt[w.cur].there => ss[w.cur].there
              /\ tt[w.cur].there \/ tt[w.cur].gone
              /\ i = c /\ tt[w.cur].there => Told(ss[w.cur].msgs, tt[w.cur].msgs, v)
              /\ tt[w.cur].there /\ v.sending => tt[w.cur].turn
    PROVE  ViewGood(v, i, tt, c)
<1>1. Views!ViewSound(v, i, tt)
  BY DEF ViewGood, Kept, Views!ViewSound
<1>2. CASE i = c
  <2>1. Views!RowSound(v)
    BY <1>2, KeptRow DEF ViewGood
  <2>2. Views!AllShown(w, ss)
    BY <1>2 DEF ViewGood
  <2>3. Views!AllShown(v, tt)
    BY <1>2, <2>2, KeptTold
  <2> QED
    BY <1>1, <1>2, <2>1, <2>3 DEF ViewGood, Kept
<1>3. CASE i # c
  <2>1. v.pending = 0
    BY <1>3 DEF ViewGood, Kept
  <2> QED
    BY <1>1, <1>3, <2>1 DEF ViewGood, Kept
<1> QED
  BY <1>2, <1>3

LEMMA KeptGood ==
    ASSUME NEW w, NEW v, NEW i, NEW ss, NEW tt, NEW c, ViewGood(w, i, ss, c), Kept(w, v),
           w.cur # None =>
              /\ tt[w.cur].there => ss[w.cur].there
              /\ tt[w.cur].there \/ tt[w.cur].gone
              /\ i = c /\ tt[w.cur].there => tt[w.cur].msgs = ss[w.cur].msgs
              /\ tt[w.cur].there /\ v.sending => tt[w.cur].turn
    PROVE  ViewGood(v, i, tt, c)
<1>1. w.cur # None /\ i = c /\ tt[w.cur].there => Told(ss[w.cur].msgs, tt[w.cur].msgs, v)
  BY ToldSame
<1> QED
  BY <1>1, ToldGood

\* A view that shows another session than s is as sound when s changes.
LEMMA ElsewhereGood ==
    ASSUME NEW w, NEW i, NEW ss, NEW tt, NEW c, ViewGood(w, i, ss, c),
           w.cur # None => tt[w.cur] = ss[w.cur]
    PROVE  ViewGood(w, i, tt, c)
<1>1. Kept(w, w)
  BY KeptSame DEF ViewGood
<1>2. w.cur # None =>
              /\ tt[w.cur].there => ss[w.cur].there
              /\ tt[w.cur].there \/ tt[w.cur].gone
              /\ i = c /\ tt[w.cur].there => tt[w.cur].msgs = ss[w.cur].msgs
              /\ tt[w.cur].there /\ w.sending => tt[w.cur].turn
  BY DEF ViewGood, Views!ViewSound
<1> QED
  BY <1>1, <1>2, KeptGood

LEMMA ListedFacts ==
    ASSUME NEW w \in Views!ViewStates, NEW i, NEW ss,
           w.cur # None => i \in Views!Participants(w.cur) /\ (ss[w.cur].there \/ ss[w.cur].gone)
    PROVE  LET v == Views!Listed(w, i, ss) IN
           /\ v \in Views!ViewStates /\ v.cur = w.cur /\ v.bubbles = w.bubbles
           /\ v.sending = w.sending /\ v.pending = w.pending /\ v.apart = w.apart
           /\ v.late = w.late
           /\ v.list = {s \in ViewSessions : ss[s].there /\ i \in Views!Participants(s)}
           /\ Placed(v, i, ss)
<1> DEFINE v == Views!Listed(w, i, ss)
<1>1. /\ v \in Views!ViewStates /\ v.cur = w.cur /\ v.bubbles = w.bubbles /\ v.late = w.late
      /\ v.sending = w.sending /\ v.pending = w.pending /\ v.apart = w.apart
      /\ v.list = {s \in ViewSessions : ss[s].there /\ i \in Views!Participants(s)}
  BY DEF Views!Listed, Views!ViewStates
<1>2. w.cur # None => w.cur \in ViewSessions
  BY DEF Views!ViewStates
<1> HIDE DEF v
<1>3. Placed(v, i, ss)
  BY <1>1, <1>2 DEF Placed
<1> QED
  BY <1>1, <1>3 DEF v

\* The view after an identity has been chosen is good, whatever it was.
LEMMA ActivatedGood ==
    ASSUME NEW w \in Views!ViewStates, NEW i, NEW ss, SessionsTyped(ss), Placed(w, i, ss)
    PROVE  ViewGood(Views!Activated(w, i, ss), i, ss, i)
<1> DEFINE r == Views!Reset(w)
           listed == IF w.dirty THEN Views!Listed(r, i, ss) ELSE r
           there == w.cur # None /\ ss[w.cur].there
           shown == IF there THEN Views!Restored(listed, ss) ELSE listed
           runs == Views!Streaming(ss, w.cur)
           running == IF runs THEN Views!Sending(shown, TRUE) ELSE shown
           n == ss[w.cur].buffer
           more == runs /\ n > 0
           held == Views!Placeholder(running)
           filled == IF more THEN Views!Streamed(held, n) ELSE running
           Like(v) == /\ v \in Views!ViewStates /\ v.cur = w.cur /\ Placed(v, i, ss)
                      /\ Views!RowSound(v) /\ Views!AllShown(v, ss)
<1>0. ASSUME NEW u, NEW v, Like(u), Kept(u, v)
      PROVE  Like(v)
  BY <1>0, KeptRow, KeptShown DEF Kept, Placed
<1>1. /\ listed \in Views!ViewStates /\ listed.cur = w.cur /\ listed.pending = 0
      /\ Placed(listed, i, ss)
  <2>1. Kept(w, r) /\ r.pending = 0
    BY ResetKept
  <2>2. r \in Views!ViewStates /\ r.cur = w.cur /\ r.list = w.list
    BY <2>1 DEF Kept
  <2> HIDE DEF r
  <2>3. r.cur # None => i \in Views!Participants(r.cur) /\ (ss[r.cur].there \/ ss[r.cur].gone)
    BY <2>2 DEF Placed
  <2>4. CASE w.dirty
    BY <2>1, <2>2, <2>3, <2>4, ListedFacts
  <2>5. CASE ~w.dirty
    BY <2>1, <2>2, <2>5 DEF Placed
  <2> QED
    BY <2>4, <2>5
<1> HIDE DEF listed
<1>2. Like(shown)
  <2>1. CASE there
    <3>1. listed.cur \in ViewSessions
      BY <1>1, <2>1 DEF Views!ViewStates
    <3>2. /\ shown \in Views!ViewStates /\ shown.cur = listed.cur /\ shown.list = listed.list
          /\ Views!RowSound(shown) /\ Views!AllShown(shown, ss)
      BY <1>1, <2>1, <3>1, RestoredFacts
    <3> HIDE DEF shown
    <3> QED
      BY <1>1, <3>2 DEF Placed
  <2>2. CASE ~there
    <3>1. shown = listed
      BY <2>2
    <3> HIDE DEF shown
    <3>2. Views!RowSound(shown)
      BY <1>1, <3>1 DEF Views!RowSound
    <3>3. Views!AllShown(shown, ss)
      BY <1>1, <2>2, <3>1 DEF Views!AllShown
    <3> QED
      BY <1>1, <3>1, <3>2, <3>3
  <2> QED
    BY <2>1, <2>2
<1> HIDE DEF shown, Like
<1>3. \A v : Like(v) => v \in Views!ViewStates
  BY DEF Like
<1>4. Like(running)
  <2>1. Kept(shown, Views!Sending(shown, TRUE))
    BY <1>2, <1>3, SendingKept
  <2> QED
    BY <1>0, <1>2, <2>1
<1> HIDE DEF running
<1>5. Like(filled)
  <2>1. CASE more
    <3>1. /\ held \in Views!ViewStates /\ held.cur = running.cur /\ held.list = running.list
          /\ held.apart = running.apart /\ Grown(running.bubbles, held.bubbles)
          /\ Views!RowSound(held) /\ held.late = running.late
      BY <1>3, <1>4, PlaceholderFacts
    <3> HIDE DEF held
    <3>2. Views!AllShown(held, ss)
      <4>1. \A m : Views!Begins(m, running.bubbles) => Views!Begins(m, held.bubbles)
        BY <3>1, GrownBegins
      <4>2. Views!AllShown(running, ss)
        BY <1>4 DEF Like
      <4> QED
        BY <3>1, <4>1, <4>2, ToldSame, ShownTold
    <3>3. Like(held)
      BY <1>4, <3>1, <3>2 DEF Like, Placed
    <3>4. n \in Nat
      <4>1. w.cur \in ViewSessions
        BY <2>1 DEF Views!Streaming, Views!ViewStates
      <4> QED
        BY <4>1 DEF SessionsTyped, Views!SessionStates
    <3>5. Kept(held, Views!Streamed(held, n))
      BY <3>1, <3>4, StreamedKept
    <3> QED
      BY <1>0, <2>1, <3>3, <3>5
  <2>2. CASE ~more
    BY <1>4, <2>2
  <2> QED
    BY <2>1, <2>2
<1>6. Views!Activated(w, i, ss) = Views!Updated(filled, ss)
  BY DEF Views!Activated, running, shown, listed
<1> HIDE DEF filled
<1>7. /\ Kept(filled, Views!Updated(filled, ss))
      /\ Views!Updated(filled, ss).sending = Views!Streaming(ss, filled.cur)
  BY <1>3, <1>5, UpdatedKept
<1> DEFINE v == Views!Activated(w, i, ss)
<1>8. Like(v) /\ v.sending = Views!Streaming(ss, w.cur)
  BY <1>0, <1>5, <1>6, <1>7 DEF Like
<1> HIDE DEF v
<1>9. Views!ViewSound(v, i, ss)
  <2>1. Placed(v, i, ss) /\ v.cur = w.cur
    BY <1>8 DEF Like
  <2>2. v.cur # None => (ss[v.cur].there /\ v.sending => ss[v.cur].turn)
    BY <1>8, <2>1 DEF Views!Streaming
  <2> QED
    BY <2>1, <2>2, PlacedSound
<1> QED
  BY <1>8, <1>9 DEF ViewGood, Like, v

\* The view after one of its sessions has been chosen is good.
LEMMA SwitchedGood ==
    ASSUME NEW w \in Views!ViewStates, NEW i, NEW s \in ViewSessions, NEW ss,
           SessionsTyped(ss), s # None,
           ss[s].there, s \in w.list, \A r \in w.list : i \in Views!Participants(r)
    PROVE  ViewGood(Views!SwitchedTo(w, s, ss), i, ss, i)
<1> DEFINE x == [w EXCEPT !.cur = s]
           u == Views!Restored(x, ss)
           v == Views!SwitchedTo(w, s, ss)
<1>1. x \in Views!ViewStates /\ x.cur = s /\ x.list = w.list
  BY DEF Views!ViewStates
<1> HIDE DEF x
<1>2. /\ u \in Views!ViewStates /\ u.cur = s /\ u.list = w.list
      /\ Views!RowSound(u) /\ Views!AllShown(u, ss)
  BY <1>1, RestoredFacts
<1>3. v = Views!Updated(u, ss)
  BY DEF Views!SwitchedTo, x
<1> HIDE DEF u, v
<1>4. Kept(u, v) /\ v.sending = Views!Streaming(ss, s)
  BY <1>2, <1>3, UpdatedKept
<1>5. Views!RowSound(v) /\ Views!AllShown(v, ss)
  BY <1>2, <1>4, KeptRow, KeptShown
<1>6. v \in Views!ViewStates /\ v.cur = s /\ v.list = w.list
  BY <1>2, <1>4 DEF Kept
<1>7. Views!ViewSound(v, i, ss)
  BY <1>4, <1>6 DEF Views!ViewSound, Views!Streaming
<1> QED
  BY <1>5, <1>6, <1>7 DEF ViewGood, v

\* How a session may change: it does not come back, and says so when it is gone.
StatesOf(ss) == \A s \in ViewSessions : ss[s].turn => ss[s].there

\* The views of ChatViews are sound if each of them is.
LEMMA GoodViews ==
    Views!ViewsSound <=>
        /\ SessionsTyped(w1) /\ StatesOf(w1)
        /\ w2 \in [OpenedViews -> Views!ViewStates] /\ w3 \in OpenedViews /\ w4 \in Nat
        /\ \A i \in OpenedViews : ViewGood(w2[i], i, w1, w3)
BY DEF Views!ViewsSound, SessionsTyped, StatesOf, ViewGood

LEMMA GoodViewsNext ==
    ASSUME SessionsTyped(w1'), StatesOf(w1'), w3' \in OpenedViews, w4' \in Nat,
           NEW g, w2' = g, g = [i \in OpenedViews |-> g[i]],
           \A i \in OpenedViews : ViewGood(g[i], i, w1', w3')
    PROVE  Views!ViewsSound'
<1>1. \A i \in OpenedViews : g[i] \in Views!ViewStates
  BY DEF ViewGood
<1>2. w2' \in [OpenedViews -> Views!ViewStates]
  BY <1>1
<1>3. \A i \in OpenedViews : ViewGood(w2'[i], i, w1', w3')
  OBVIOUS
<1> QED
  BY <1>2, <1>3 DEF Views!ViewsSound, SessionsTyped, StatesOf, ViewGood

LEMMA StartGood ==
    ASSUME NEW i, NEW c, NEW ss
    PROVE  ViewGood(Views!ViewAtStart, i, ss, c)
<1>1. Views!ViewAtStart \in Views!ViewStates
  BY EmptySeq DEF Views!ViewAtStart, Views!ViewStates
<1> QED
  BY <1>1 DEF ViewGood, Views!ViewSound, Views!RowSound, Views!AllShown, Views!ViewAtStart

LEMMA ViewsInit ==
    ASSUME Views!Init, ViewsAssumption
    PROVE  Views!ViewsSound
<1> USE DEF ViewsAssumption
<1>1. Views!ViewAtStart \in Views!ViewStates
  BY StartGood DEF ViewGood
<1>2. Views!NewSession \in Views!SessionStates /\ ~Views!NewSession.turn
  BY EmptySeq DEF Views!NewSession, Views!SessionStates
<1>3. \A i, c : ViewGood(Views!ViewAtStart, i, w1, c)
  BY StartGood
<1>4. SessionsTyped(w1) /\ StatesOf(w1)
  BY <1>2 DEF Views!Init, SessionsTyped, StatesOf
<1>5. w2 \in [OpenedViews -> Views!ViewStates] /\ w3 \in OpenedViews /\ w4 \in Nat
  BY <1>1 DEF Views!Init
<1>6. \A i \in OpenedViews : ViewGood(w2[i], i, w1, w3)
  BY <1>3 DEF Views!Init
<1> QED
  BY <1>4, <1>5, <1>6, GoodViews

LEMMA ViewsSelect ==
    ASSUME Views!ViewsSound, ViewsAssumption, NEW s \in ViewSessions, Views!Select(s)
    PROVE  Views!ViewsSound'
<1> DEFINE v == Views!SwitchedTo(w2[w3], s, w1)
<1>1. /\ SessionsTyped(w1) /\ StatesOf(w1)
      /\ w2 \in [OpenedViews -> Views!ViewStates] /\ w3 \in OpenedViews /\ w4 \in Nat
      /\ \A i \in OpenedViews : ViewGood(w2[i], i, w1, w3)
  BY GoodViews
<1>2. /\ s \in w2[w3].list /\ w1[s].there
      /\ w2' = [w2 EXCEPT ![w3] = v] /\ w1' = w1 /\ w3' = w3 /\ w4' = w4
  BY DEF Views!Select
<1>3. s # None
  BY DEF ViewsAssumption
<1>4. \A r \in w2[w3].list : w3 \in Views!Participants(r)
  BY <1>1 DEF ViewGood, Views!ViewSound
<1>5. ViewGood(v, w3, w1, w3)
  BY <1>1, <1>2, <1>3, <1>4, SwitchedGood
<1> HIDE DEF v
<1>6. \A i \in OpenedViews : ViewGood(w2'[i], i, w1', w3')
  BY <1>1, <1>2, <1>5
<1>7. w2' = [i \in OpenedViews |-> w2'[i]]
  BY <1>1, <1>2
<1> QED
  BY <1>1, <1>2, <1>6, <1>7, GoodViewsNext

LEMMA NextTurnFacts ==
    ASSUME NEW x \in Views!SessionStates
    PROVE  LET y == Views!NextTurn(x) IN
           /\ y \in Views!SessionStates /\ y.there = x.there /\ y.gone = x.gone
           /\ y.msgs = x.msgs /\ (x.turn => y.turn)
<1>1. CASE ~x.turn /\ x.queued > 0
  <2>1. x.queued - 1 \in Nat
    BY <1>1 DEF Views!SessionStates
  <2> QED
    BY <1>1, <2>1 DEF Views!NextTurn, Views!SessionStates
<1>2. CASE ~(~x.turn /\ x.queued > 0)
  BY <1>2 DEF Views!NextTurn
<1> QED
  BY <1>1, <1>2

LEMMA OverFacts ==
    ASSUME NEW x \in Views!SessionStates
    PROVE  LET y == Views!Over(x) IN
           /\ y \in Views!SessionStates /\ y.there = x.there /\ y.gone = x.gone
           /\ y.msgs = x.msgs
<1> DEFINE z == [x EXCEPT !.turn = FALSE, !.buffer = 0]
<1>1. z \in Views!SessionStates /\ z.there = x.there /\ z.gone = x.gone /\ z.msgs = x.msgs
  BY DEF Views!SessionStates
<1> HIDE DEF z
<1> QED
  BY <1>1, NextTurnFacts DEF Views!Over, z

LEMMA PostsFacts ==
    ASSUME NEW x \in Views!SessionStates, NEW m \in Int \ {0}
    PROVE  LET y == Views!Posts(x, m) IN
           /\ y \in Views!SessionStates /\ y.there = x.there /\ y.gone = x.gone
           /\ y.turn = x.turn
           /\ x.msgs \in Messages /\ y.msgs = Append(x.msgs, m)
<1> DEFINE ns == Append(x.msgs, m)
           y == Views!Posts(x, m)
<1>1. x.msgs \in Messages
  BY DEF Views!SessionStates, Messages
<1>2. ns \in Seq(Int \ {0})
  BY <1>1, AppendProperties DEF Messages
<1>3. y = [x EXCEPT !.msgs = ns]
  BY DEF Views!Posts
<1> HIDE DEF ns, y
<1>4. y \in Views!SessionStates /\ y.there = x.there /\ y.gone = x.gone /\ y.turn = x.turn /\ y.msgs = ns
  BY <1>2, <1>3 DEF Views!SessionStates
<1> QED
  BY <1>1, <1>4 DEF y, ns

LEMMA TakenFacts ==
    ASSUME NEW x \in Views!SessionStates, NEW m \in Int \ {0}
    PROVE  LET y == Views!Taken(x, m) IN
           /\ y \in Views!SessionStates /\ y.there = x.there /\ y.gone = x.gone
           /\ x.turn => y.turn
           /\ x.msgs \in Messages /\ y.msgs = Append(x.msgs, m)
<1> DEFINE u == [x EXCEPT !.queued = @ + 1]
           p == Views!Posts(u, m)
<1>1. /\ u \in Views!SessionStates /\ u.there = x.there /\ u.gone = x.gone
      /\ u.msgs = x.msgs /\ u.turn = x.turn
  <2>1. x.queued + 1 \in Nat
    BY DEF Views!SessionStates
  <2> QED
    BY <2>1 DEF Views!SessionStates
<1> HIDE DEF u
<1>2. /\ p \in Views!SessionStates /\ p.there = u.there /\ p.gone = u.gone /\ p.turn = u.turn
      /\ u.msgs \in Messages /\ p.msgs = Append(u.msgs, m)
  BY <1>1, PostsFacts
<1>3. Views!Taken(x, m) = Views!NextTurn(p)
  BY DEF Views!Taken, u
<1> HIDE DEF p
<1> QED
  BY <1>1, <1>2, <1>3, NextTurnFacts

\* A message no view is told of: the view that shows its session is late.
LEMMA UnheardFacts ==
    ASSUME NEW w \in Views!ViewStates, NEW i, NEW s, NEW m \in Int
    PROVE  LET v == Views!Unheard(w, i, s, m) IN
           /\ Kept(w, v) /\ v.sending = w.sending
           /\ Views!Shows(w, i, s) /\ m > 0 => m \in v.late
<1> DEFINE v == Views!Unheard(w, i, s, m)
<1>1. CASE Views!Shows(w, i, s) /\ m > 0
  <2> DEFINE l == w.late \cup {m}
  <2>1. l \in SUBSET Int /\ w.late \subseteq l /\ m \in l
    BY DEF Views!ViewStates
  <2>2. v = [w EXCEPT !.late = l]
    BY <1>1 DEF Views!Unheard
  <2> HIDE DEF l, v
  <2>3. /\ v \in Views!ViewStates /\ v.pending = w.pending /\ v.cur = w.cur /\ v.list = w.list
        /\ v.apart = w.apart /\ v.bubbles = w.bubbles /\ v.sending = w.sending /\ v.late = l
    BY <2>1, <2>2 DEF Views!ViewStates
  <2>4. w.bubbles \in Bubbles
    BY DEF Views!ViewStates, Bubbles
  <2>5. Kept(w, v)
    BY <2>1, <2>3, <2>4, GrownSame DEF Kept
  <2> QED
    BY <2>1, <2>3, <2>5 DEF v
<1>2. CASE ~(Views!Shows(w, i, s) /\ m > 0)
  BY <1>2, KeptSame DEF Views!Unheard
<1> QED
  BY <1>1, <1>2

\* What every step finds.
LEMMA SoundNow ==
    ASSUME Views!ViewsSound
    PROVE  /\ SessionsTyped(w1) /\ StatesOf(w1)
           /\ w2 \in [OpenedViews -> Views!ViewStates] /\ w3 \in OpenedViews /\ w4 \in Nat
           /\ \A i \in OpenedViews : ViewGood(w2[i], i, w1, w3)
BY GoodViews

\* When one session changes, the views of the others see nothing of it.
LEMMA OneSession ==
    ASSUME Views!ViewsSound, NEW s \in ViewSessions, NEW x \in Views!SessionStates,
           x.turn => x.there, w1' = [w1 EXCEPT ![s] = x], w3' = w3, w4' \in Nat,
           NEW g, w2' = g, g = [i \in OpenedViews |-> g[i]],
           \A i \in OpenedViews :
              IF i \in Views!Participants(s) THEN ViewGood(g[i], i, w1', w3) ELSE g[i] = w2[i]
    PROVE  Views!ViewsSound'
<1>1. /\ SessionsTyped(w1) /\ StatesOf(w1) /\ w3 \in OpenedViews
      /\ \A i \in OpenedViews : ViewGood(w2[i], i, w1, w3)
  BY SoundNow
<1>2. SessionsTyped(w1') /\ StatesOf(w1')
  BY <1>1 DEF SessionsTyped, StatesOf
<1>3. ASSUME NEW i \in OpenedViews, i \notin Views!Participants(s)
      PROVE  ViewGood(g[i], i, w1', w3)
  <2>1. ViewGood(w2[i], i, w1, w3) /\ g[i] = w2[i]
    BY <1>1, <1>3
  <2>2. w2[i].cur # None => w2[i].cur \in ViewSessions /\ w2[i].cur # s
    BY <1>3, <2>1 DEF ViewGood, Views!ViewSound, Views!ViewStates
  <2>3. w2[i].cur # None => w1'[w2[i].cur] = w1[w2[i].cur]
    BY <1>1, <2>2 DEF SessionsTyped
  <2> QED
    BY <2>1, <2>3, ElsewhereGood
<1>4. \A i \in OpenedViews : ViewGood(g[i], i, w1', w3')
  BY <1>3
<1> QED
  BY <1>1, <1>2, <1>4, GoodViewsNext

\* The same when only the views change.
LEMMA NoSessionChanges ==
    ASSUME Views!ViewsSound, w1' = w1, w3' = w3, w4' = w4,
           NEW g, w2' = g, g = [i \in OpenedViews |-> g[i]],
           \A i \in OpenedViews : ViewGood(g[i], i, w1, w3)
    PROVE  Views!ViewsSound'
BY SoundNow, GoodViewsNext

LEMMA ViewsFlush ==
    ASSUME Views!ViewsSound, NEW i \in OpenedViews, Views!Flush(i)
    PROVE  Views!ViewsSound'
<1> DEFINE v == Views!Flushed(w2[i])
<1>1. /\ w2 \in [OpenedViews -> Views!ViewStates]
      /\ \A j \in OpenedViews : ViewGood(w2[j], j, w1, w3)
  BY SoundNow
<1>2. w2' = [w2 EXCEPT ![i] = v] /\ w1' = w1 /\ w3' = w3 /\ w4' = w4
  BY DEF Views!Flush
<1>3. Kept(w2[i], v) /\ v.sending = w2[i].sending
  BY <1>1, FlushedKept
<1> HIDE DEF v
<1>4. ViewGood(v, i, w1, w3)
  <2>1. w2[i].cur # None =>
              /\ w1[w2[i].cur].there \/ w1[w2[i].cur].gone
              /\ w1[w2[i].cur].there /\ v.sending => w1[w2[i].cur].turn
    BY <1>1, <1>3 DEF ViewGood, Views!ViewSound
  <2> QED
    BY <1>1, <1>3, <2>1, KeptGood
<1>5. \A j \in OpenedViews : ViewGood(w2'[j], j, w1, w3)
  BY <1>1, <1>2, <1>4
<1>6. w2' = [j \in OpenedViews |-> w2'[j]]
  BY <1>1, <1>2
<1> QED
  BY <1>2, <1>5, <1>6, NoSessionChanges

LEMMA ViewsToolCalls ==
    ASSUME Views!ViewsSound, NEW s \in ViewSessions, Views!ToolCalls(s)
    PROVE  Views!ViewsSound'
<1> DEFINE x == [w1[s] EXCEPT !.buffer = 0, !.calls = 1]
           Called(i) == IF s \notin w2[i].list THEN w2[i]
                        ELSE Views!Reset(w2[i])
<1>1. /\ SessionsTyped(w1) /\ StatesOf(w1)
      /\ w2 \in [OpenedViews -> Views!ViewStates] /\ w4 \in Nat
      /\ \A j \in OpenedViews : ViewGood(w2[j], j, w1, w3)
  BY SoundNow
<1>2. w1' = [w1 EXCEPT ![s] = x] /\ w3' = w3 /\ w4' = w4
  BY <1>1 DEF Views!ToolCalls, SessionsTyped
<1>3. /\ w2' = [i \in OpenedViews |-> w2'[i]]
      /\ \A i \in OpenedViews :
            w2'[i] = IF i \in Views!Participants(s) THEN Called(i) ELSE w2[i]
  BY DEF Views!ToolCalls, Views!ForViews, Views!ViewsOf
<1>4. /\ x \in Views!SessionStates /\ x.there = w1[s].there /\ x.gone = w1[s].gone
      /\ x.msgs = w1[s].msgs /\ x.turn = w1[s].turn
  BY <1>1 DEF SessionsTyped, Views!SessionStates
<1>5. x.turn => x.there
  BY <1>1, <1>4 DEF StatesOf
<1> HIDE DEF x
<1>6. ASSUME NEW i \in OpenedViews PROVE ViewGood(Called(i), i, w1', w3)
  <2> DEFINE w == w2[i]
             r == Views!Reset(w)
             v == Called(i)
  <2>1. w \in Views!ViewStates /\ ViewGood(w, i, w1, w3)
    BY <1>1
  <2>2. Kept(w, r) /\ r.sending = w.sending
    BY <2>1, ResetKept
  <2>3. Kept(w, v) /\ v.sending = w.sending
    <3>1. CASE s \notin w.list
      BY <2>1, <3>1, KeptSame
    <3>2. CASE s \in w.list
      <4>1. v = r
        BY <3>2
      <4> QED
        BY <2>2, <4>1
    <3> QED
      BY <3>1, <3>2
  <2> HIDE DEF v, r
  <2>4. w.cur # None =>
              /\ w1'[w.cur].there => w1[w.cur].there
              /\ w1'[w.cur].there \/ w1'[w.cur].gone
              /\ w1'[w.cur].there => w1'[w.cur].msgs = w1[w.cur].msgs
              /\ w1'[w.cur].there /\ v.sending => w1'[w.cur].turn
    <3> SUFFICES ASSUME w.cur # None
                 PROVE  /\ w1'[w.cur].there => w1[w.cur].there
                        /\ w1'[w.cur].there \/ w1'[w.cur].gone
                        /\ w1'[w.cur].there => w1'[w.cur].msgs = w1[w.cur].msgs
                        /\ w1'[w.cur].there /\ v.sending => w1'[w.cur].turn
      OBVIOUS
    <3>1. w.cur \in ViewSessions
      BY <2>1 DEF Views!ViewStates
    <3>2. /\ w1'[w.cur].there = w1[w.cur].there /\ w1'[w.cur].gone = w1[w.cur].gone
          /\ w1'[w.cur].msgs = w1[w.cur].msgs /\ w1'[w.cur].turn = w1[w.cur].turn
      BY <1>1, <1>2, <1>4, <3>1 DEF SessionsTyped
    <3> QED
      BY <2>1, <2>3, <3>2 DEF ViewGood, Views!ViewSound
  <2>5. ViewGood(v, i, w1', w3)
    BY <2>1, <2>3, <2>4, KeptGood
  <2> QED
    BY <2>5 DEF v
<1> HIDE DEF Called
<1>7. \A i \in OpenedViews :
         IF i \in Views!Participants(s) THEN ViewGood(w2'[i], i, w1', w3) ELSE w2'[i] = w2[i]
  BY <1>3, <1>6
<1>8. w2' = [i \in OpenedViews |-> w2'[i]]
  BY <1>3
<1> QED
  BY <1>1, <1>2, <1>4, <1>5, <1>7, <1>8, OneSession

\* A view that is kept when a session changes its turns, or has a message more that the
\* view does not show or is told of.
LEMMA KeptOne ==
    ASSUME SessionsTyped(w1), NEW s \in ViewSessions, NEW x, NEW tt, NEW w, NEW v, NEW i, NEW c,
           x.there = w1[s].there, x.gone = w1[s].gone, tt = [w1 EXCEPT ![s] = x],
           ViewGood(w, i, w1, c), Kept(w, v),
           i = c /\ w.cur = s => x.msgs = w1[s].msgs \/ Told(w1[s].msgs, x.msgs, v),
           \/ v.sending = Views!Streaming(tt, w.cur)
           \/ ~v.sending
           \/ v.sending = w.sending /\ (w.cur = s => (w1[s].turn => x.turn))
    PROVE  ViewGood(v, i, tt, c)
<1>1. ASSUME w.cur # None
      PROVE  /\ tt[w.cur].there => w1[w.cur].there
             /\ tt[w.cur].there \/ tt[w.cur].gone
             /\ i = c /\ tt[w.cur].there => Told(w1[w.cur].msgs, tt[w.cur].msgs, v)
             /\ tt[w.cur].there /\ v.sending => tt[w.cur].turn
  <2>1. w.cur \in ViewSessions
    BY <1>1 DEF ViewGood, Views!ViewStates
  <2>2. /\ w.cur = s => tt[w.cur] = x
        /\ w.cur # s => tt[w.cur] = w1[w.cur]
    BY <2>1 DEF SessionsTyped
  <2>3. /\ w1[w.cur].there \/ w1[w.cur].gone
        /\ w1[w.cur].there /\ w.sending => w1[w.cur].turn
    BY <1>1 DEF ViewGood, Views!ViewSound
  <2>4. tt[w.cur].there = w1[w.cur].there /\ tt[w.cur].gone = w1[w.cur].gone
    BY <2>2
  <2>5. tt[w.cur].there /\ v.sending => tt[w.cur].turn
    <3>1. CASE v.sending = Views!Streaming(tt, w.cur)
      BY <3>1 DEF Views!Streaming
    <3>2. CASE v.sending = w.sending /\ (w.cur = s => (w1[s].turn => x.turn))
      BY <2>2, <2>3, <2>4, <3>2
    <3>3. CASE ~v.sending
      BY <3>3
    <3> QED
      BY <3>1, <3>2, <3>3
  <2>6. i = c => Told(w1[w.cur].msgs, tt[w.cur].msgs, v)
    <3>1. CASE tt[w.cur].msgs = w1[w.cur].msgs
      BY <3>1, ToldSame
    <3>2. CASE tt[w.cur].msgs # w1[w.cur].msgs
      BY <2>2, <3>2
    <3> QED
      BY <3>1, <3>2
  <2> QED
    BY <2>3, <2>4, <2>5, <2>6
<1> QED
  BY <1>1, ToldGood

\* What the views hear of the turn that begins.
LEMMA HeardKept ==
    ASSUME NEW i \in OpenedViews, w2[i] \in Views!ViewStates, NEW s, NEW ss, SessionsTyped(ss)
    PROVE  LET h == Views!Heard(s, ss)[i] IN
           /\ Kept(w2[i], h) /\ h.pending = w2[i].pending
           /\ IF ss[s].turn THEN h.sending = Views!Streaming(ss, w2[i].cur) ELSE h = w2[i]
<1> DEFINE h == Views!Heard(s, ss)[i]
<1>1. h = IF ss[s].turn THEN Views!Updated(w2[i], ss) ELSE w2[i]
  BY DEF Views!Heard, Views!Started
<1> HIDE DEF h
<1>2. CASE ss[s].turn
  BY <1>1, <1>2, UpdatedKept DEF h
<1>3. CASE ~ss[s].turn
  BY <1>1, <1>3, KeptSame DEF h
<1> QED
  BY <1>2, <1>3

\* A view of a session that is there has it in its list.
LEMMA InList ==
    ASSUME NEW w, NEW i, NEW ss, NEW c, ViewGood(w, i, ss, c), NEW s, w.cur = s, s # None, ss[s].there
    PROVE  s \in w.list
BY DEF ViewGood, Views!ViewSound

\* After the end of a turn of s the views are kept, and unlocked.
LEMMA FailedHeard ==
    ASSUME Views!ViewsSound, ViewsAssumption, NEW s \in ViewSessions, NEW i \in OpenedViews,
           NEW ss, SessionsTyped(ss), w1[s].there
    PROVE  LET h == Views!Heard(s, ss)[i]
               v == Views!Failed(h, i, s, ss) IN
           /\ Kept(w2[i], h) /\ Kept(w2[i], v)
           /\ \/ v.sending = Views!Streaming(ss, w2[i].cur)
              \/ v.sending = w2[i].sending /\ w2[i].cur # s
<1> DEFINE w == w2[i]
           h == Views!Heard(s, ss)[i]
           v == Views!Failed(h, i, s, ss)
<1>1. w \in Views!ViewStates /\ ViewGood(w, i, w1, w3)
  BY SoundNow
<1>2. /\ Kept(w, h)
      /\ IF ss[s].turn THEN h.sending = Views!Streaming(ss, w.cur) ELSE h = w
  BY <1>1, HeardKept
<1>3. h \in Views!ViewStates /\ h.cur = w.cur /\ h.list = w.list
  BY <1>2 DEF Kept
<1> HIDE DEF h
<1>4. /\ Kept(h, v)
      /\ IF s \in h.list THEN v.pending = 0 /\ v.sending = Views!Streaming(ss, h.cur)
         ELSE v = h
  BY <1>3, FailedKept
<1>5. Kept(w, v)
  BY <1>2, <1>4, KeptTwice
<1>6. s # None
  BY DEF ViewsAssumption
<1>7. s \notin w.list => w.cur # s
  BY <1>1, <1>6, InList
<1> HIDE DEF v
<1>8. \/ v.sending = Views!Streaming(ss, w.cur)
      \/ v.sending = w.sending /\ w.cur # s
  BY <1>2, <1>3, <1>4, <1>7
<1> QED
  BY <1>2, <1>5, <1>8 DEF h, v

LEMMA ViewsFailed ==
    ASSUME Views!ViewsSound, ViewsAssumption, NEW s \in ViewSessions, Views!TurnFailed(s)
    PROVE  Views!ViewsSound'
<1> DEFINE x == Views!Over(w1[s])
           ss == [w1 EXCEPT ![s] = x]
           f(i) == Views!Failed(Views!Heard(s, ss)[i], i, s, ss)
<1>1. /\ SessionsTyped(w1) /\ StatesOf(w1) /\ w4 \in Nat
      /\ w2 \in [OpenedViews -> Views!ViewStates]
      /\ \A j \in OpenedViews : ViewGood(w2[j], j, w1, w3)
  BY SoundNow
<1>2. /\ w1' = ss /\ w3' = w3 /\ w4' = w4 /\ w1[s].turn
      /\ w2' = [i \in OpenedViews |-> w2'[i]]
      /\ \A i \in OpenedViews : w2'[i] = IF i \in Views!Participants(s) THEN f(i) ELSE w2[i]
  BY DEF Views!TurnFailed, Views!ForViews, Views!ViewsOf
<1>3. w1[s] \in Views!SessionStates /\ w1[s].there
  BY <1>1, <1>2 DEF SessionsTyped, StatesOf
<1>4. /\ x \in Views!SessionStates /\ x.there = w1[s].there /\ x.gone = w1[s].gone
      /\ x.msgs = w1[s].msgs
  BY <1>3, OverFacts
<1> HIDE DEF x
<1>5. SessionsTyped(ss)
  BY <1>1, <1>4 DEF SessionsTyped
<1>6. ASSUME NEW i \in OpenedViews PROVE ViewGood(f(i), i, ss, w3)
  <2>1. /\ Kept(w2[i], f(i))
        /\ \/ f(i).sending = Views!Streaming(ss, w2[i].cur)
           \/ f(i).sending = w2[i].sending /\ w2[i].cur # s
    BY <1>3, <1>5, FailedHeard
  <2> HIDE DEF f
  <2>2. ViewGood(w2[i], i, w1, w3)
    BY <1>1
  <2> QED
    BY <1>1, <1>4, <2>1, <2>2, KeptOne
<1> HIDE DEF f
<1>7. \A i \in OpenedViews :
         IF i \in Views!Participants(s) THEN ViewGood(w2'[i], i, w1', w3) ELSE w2'[i] = w2[i]
  BY <1>2, <1>6
<1>8. w2' = [i \in OpenedViews |-> w2'[i]] /\ w1' = [w1 EXCEPT ![s] = x] /\ w3' = w3 /\ w4' \in Nat
  BY <1>1, <1>2
<1> HIDE DEF ss
<1> QED
  BY <1>3, <1>4, <1>7, <1>8, OneSession

LEMMA ViewsRecovered ==
    ASSUME Views!ViewsSound, ViewsAssumption, NEW s \in ViewSessions, Views!TurnRecovered(s)
    PROVE  Views!ViewsSound'
<1> DEFINE m == w4 + 1
           y == Views!Over(w1[s])
           x == Views!Posts(y, m)
           ss == [w1 EXCEPT ![s] = x]
           g(i) == Views!Failed(Views!Heard(s, ss)[i], i, s, ss)
           f(i) == Views!Unheard(g(i), i, s, m)
<1>1. /\ SessionsTyped(w1) /\ StatesOf(w1) /\ w4 \in Nat
      /\ w2 \in [OpenedViews -> Views!ViewStates]
      /\ \A j \in OpenedViews : ViewGood(w2[j], j, w1, w3)
  BY SoundNow
<1>2. /\ w1' = ss /\ w3' = w3 /\ w4' = w4 + 1 /\ w1[s].turn
      /\ w2' = [i \in OpenedViews |-> w2'[i]]
      /\ \A i \in OpenedViews : w2'[i] = IF i \in Views!Participants(s) THEN f(i) ELSE w2[i]
  BY DEF Views!TurnRecovered, Views!ForViews, Views!ViewsOf
<1>3. w1[s] \in Views!SessionStates /\ w1[s].there /\ m \in Int \ {0} /\ m > 0
  BY <1>1, <1>2 DEF SessionsTyped, StatesOf
<1> HIDE DEF m
<1>4. /\ x \in Views!SessionStates /\ x.there = w1[s].there /\ x.gone = w1[s].gone
      /\ w1[s].msgs \in Messages /\ x.msgs = Append(w1[s].msgs, m)
  <2>1. /\ y \in Views!SessionStates /\ y.there = w1[s].there /\ y.gone = w1[s].gone
        /\ y.msgs = w1[s].msgs
    BY <1>3, OverFacts
  <2> HIDE DEF y
  <2> QED
    BY <1>3, <2>1, PostsFacts
<1> HIDE DEF x
<1>5. SessionsTyped(ss)
  BY <1>1, <1>4 DEF SessionsTyped
<1>6. ASSUME NEW i \in OpenedViews PROVE ViewGood(f(i), i, ss, w3)
  <2> DEFINE w == w2[i]
             u == g(i)
             v == f(i)
  <2>1. /\ Kept(w, u)
        /\ \/ u.sending = Views!Streaming(ss, w.cur)
           \/ u.sending = w.sending /\ w.cur # s
    BY <1>3, <1>5, FailedHeard
  <2>2. v = Views!Unheard(u, i, s, m)
    OBVIOUS
  <2>3. ViewGood(w, i, w1, w3)
    BY <1>1
  <2> HIDE DEF u, v, f, g
  <2>4. u \in Views!ViewStates /\ u.cur = w.cur
    BY <2>1 DEF Kept
  <2>5. /\ Kept(u, v) /\ v.sending = u.sending
        /\ Views!Shows(u, i, s) /\ m > 0 => m \in v.late
    BY <1>3, <2>2, <2>4, UnheardFacts
  <2>6. Kept(w, v)
    BY <2>1, <2>5, KeptTwice
  <2>7. i = w3 /\ w.cur = s => Told(w1[s].msgs, x.msgs, v)
    <3>1. i = w3 /\ w.cur = s => m \in v.late
      BY <1>3, <2>4, <2>5 DEF Views!Shows
    <3> QED
      BY <1>3, <1>4, <3>1, ToldAppend
  <2>8. ViewGood(v, i, ss, w3)
    BY <1>1, <1>4, <2>1, <2>3, <2>5, <2>6, <2>7, KeptOne
  <2> QED
    BY <2>8 DEF v
<1> HIDE DEF f
<1>7. \A i \in OpenedViews :
         IF i \in Views!Participants(s) THEN ViewGood(w2'[i], i, w1', w3) ELSE w2'[i] = w2[i]
  BY <1>2, <1>6
<1>8. w2' = [i \in OpenedViews |-> w2'[i]] /\ w1' = [w1 EXCEPT ![s] = x] /\ w3' = w3 /\ w4' \in Nat
  BY <1>1, <1>2
<1> HIDE DEF ss
<1> QED
  BY <1>3, <1>4, <1>7, <1>8, OneSession

\* A message that is posted without the views being told.
LEMMA ViewsQuiet ==
    ASSUME Views!ViewsSound, ViewsAssumption, NEW s \in ViewSessions,
           NEW m \in {w4 + 1, Views!Hidden, Views!Blank}, Views!Quiet(s, m)
    PROVE  Views!ViewsSound'
<1> DEFINE x == Views!Posts(w1[s], m)
           ss == [w1 EXCEPT ![s] = x]
           f(i) == Views!Unheard(w2[i], i, s, m)
<1>1. /\ SessionsTyped(w1) /\ StatesOf(w1) /\ w4 \in Nat
      /\ w2 \in [OpenedViews -> Views!ViewStates]
      /\ \A j \in OpenedViews : ViewGood(w2[j], j, w1, w3)
  BY SoundNow
<1>2. w1' = ss /\ w3' = w3 /\ w4' = w4 + 1
  BY <1>1 DEF Views!Quiet, SessionsTyped
<1>3. /\ w2' = [i \in OpenedViews |-> w2'[i]]
      /\ \A i \in OpenedViews : w2'[i] = IF i \in Views!Participants(s) THEN f(i) ELSE w2[i]
  BY DEF Views!Quiet, Views!ForViews, Views!ViewsOf
<1>4. m \in Int \ {0} /\ (m > 0 \/ m \in {Views!Hidden, Views!Blank})
  BY <1>1 DEF Views!Hidden, Views!Blank
<1>5. /\ x \in Views!SessionStates /\ x.there = w1[s].there /\ x.gone = w1[s].gone
      /\ x.turn = w1[s].turn
      /\ w1[s].msgs \in Messages /\ x.msgs = Append(w1[s].msgs, m)
  BY <1>1, <1>4, PostsFacts DEF SessionsTyped
<1> HIDE DEF x
<1>6. ASSUME NEW i \in OpenedViews PROVE ViewGood(f(i), i, ss, w3)
  <2> DEFINE w == w2[i]
             v == f(i)
  <2>1. w \in Views!ViewStates /\ ViewGood(w, i, w1, w3)
    BY <1>1
  <2>2. /\ Kept(w, v) /\ v.sending = w.sending
        /\ Views!Shows(w, i, s) /\ m > 0 => m \in v.late
    BY <1>4, <2>1, UnheardFacts
  <2> HIDE DEF v, f
  <2>3. i = w3 /\ w.cur = s => Told(w1[s].msgs, x.msgs, v)
    <3>1. i = w3 /\ w.cur = s => m \in v.late \/ m \in {Views!Hidden, Views!Blank}
      BY <1>4, <2>2 DEF Views!Shows
    <3> QED
      BY <1>4, <1>5, <3>1, ToldAppend
  <2>4. ViewGood(v, i, ss, w3)
    BY <1>1, <1>5, <2>1, <2>2, <2>3, KeptOne
  <2> QED
    BY <2>4 DEF v
<1> HIDE DEF f
<1>7. \A i \in OpenedViews :
         IF i \in Views!Participants(s) THEN ViewGood(w2'[i], i, w1', w3) ELSE w2'[i] = w2[i]
  BY <1>2, <1>3, <1>6
<1>8. w2' = [i \in OpenedViews |-> w2'[i]] /\ w1' = [w1 EXCEPT ![s] = x] /\ w3' = w3 /\ w4' \in Nat
  BY <1>1, <1>2, <1>3
<1>9. x.turn => x.there
  BY <1>1, <1>5 DEF StatesOf
<1> HIDE DEF ss
<1> QED
  BY <1>5, <1>7, <1>8, <1>9, OneSession

\* The same with a turn for it.
LEMMA ViewsQuietTurn ==
    ASSUME Views!ViewsSound, ViewsAssumption, NEW s \in ViewSessions, w1[s].there,
           NEW m \in {w4 + 1, Views!Hidden, Views!Blank}, Views!QuietTurn(s, m)
    PROVE  Views!ViewsSound'
<1> DEFINE x == Views!Taken(w1[s], m)
           ss == [w1 EXCEPT ![s] = x]
           g(i) == IF w1[s].turn THEN w2[i] ELSE Views!Started(w2[i], ss)
           f(i) == Views!Unheard(g(i), i, s, m)
<1>1. /\ SessionsTyped(w1) /\ StatesOf(w1) /\ w4 \in Nat
      /\ w2 \in [OpenedViews -> Views!ViewStates]
      /\ \A j \in OpenedViews : ViewGood(w2[j], j, w1, w3)
  BY SoundNow
<1>2. [w1 EXCEPT ![s] = Views!Taken(@, m)] = ss
  OBVIOUS
<1>3. /\ w1' = ss /\ w3' = w3 /\ w4' = w4 + 1
      /\ w2' = [i \in OpenedViews |-> w2'[i]]
      /\ \A i \in OpenedViews : w2'[i] = IF i \in Views!Participants(s) THEN f(i) ELSE w2[i]
  <2> DEFINE tt == [w1 EXCEPT ![s] = Views!Taken(@, m)]
  <2>1. /\ w1' = tt /\ w3' = w3 /\ w4' = w4 + 1
        /\ w2' = [i \in OpenedViews |->
                    IF i \in Views!Participants(s)
                    THEN Views!Unheard(IF w1[s].turn THEN w2[i] ELSE Views!Started(w2[i], tt), i, s, m)
                    ELSE w2[i]]
    BY DEF Views!QuietTurn, Views!ForViews, Views!ViewsOf
  <2>2. tt = ss
    OBVIOUS
  <2> HIDE DEF tt, ss
  <2> QED
    BY <2>1, <2>2
<1>4. m \in Int \ {0} /\ (m > 0 \/ m \in {Views!Hidden, Views!Blank})
  BY <1>1 DEF Views!Hidden, Views!Blank
<1>5. /\ x \in Views!SessionStates /\ x.there = w1[s].there /\ x.gone = w1[s].gone
      /\ w1[s].turn => x.turn
      /\ w1[s].msgs \in Messages /\ x.msgs = Append(w1[s].msgs, m)
  BY <1>1, <1>4, TakenFacts DEF SessionsTyped
<1> HIDE DEF x
<1>6. SessionsTyped(ss)
  BY <1>1, <1>5 DEF SessionsTyped
<1>7. ASSUME NEW i \in OpenedViews PROVE ViewGood(f(i), i, ss, w3)
  <2> DEFINE w == w2[i]
             u == g(i)
             v == f(i)
  <2>1. w \in Views!ViewStates /\ ViewGood(w, i, w1, w3)
    BY <1>1
  <2>2. /\ Kept(w, u)
        /\ u.sending = Views!Streaming(ss, w.cur) \/ u.sending = w.sending
    <3>1. CASE w1[s].turn
      BY <2>1, <3>1, KeptSame
    <3>2. CASE ~w1[s].turn
      <4>1. u = Views!Updated(w, ss)
        BY <3>2 DEF Views!Started
      <4> QED
        BY <1>6, <2>1, <4>1, UpdatedKept
    <3> QED
      BY <3>1, <3>2
  <2>3. v = Views!Unheard(u, i, s, m)
    OBVIOUS
  <2> HIDE DEF u, v, f, g
  <2>4. u \in Views!ViewStates /\ u.cur = w.cur
    BY <2>2 DEF Kept
  <2>5. /\ Kept(u, v) /\ v.sending = u.sending
        /\ Views!Shows(u, i, s) /\ m > 0 => m \in v.late
    BY <1>4, <2>3, <2>4, UnheardFacts
  <2>6. Kept(w, v)
    BY <2>2, <2>5, KeptTwice
  <2>7. i = w3 /\ w.cur = s => Told(w1[s].msgs, x.msgs, v)
    <3>1. i = w3 /\ w.cur = s => m \in v.late \/ m \in {Views!Hidden, Views!Blank}
      BY <1>4, <2>4, <2>5 DEF Views!Shows
    <3> QED
      BY <1>4, <1>5, <3>1, ToldAppend
  <2>8. ViewGood(v, i, ss, w3)
    BY <1>1, <1>5, <2>1, <2>2, <2>5, <2>6, <2>7, KeptOne
  <2> QED
    BY <2>8 DEF v
<1> HIDE DEF f, g
<1>8. \A i \in OpenedViews :
         IF i \in Views!Participants(s) THEN ViewGood(w2'[i], i, w1', w3) ELSE w2'[i] = w2[i]
  BY <1>3, <1>7
<1>9. w2' = [i \in OpenedViews |-> w2'[i]] /\ w1' = [w1 EXCEPT ![s] = x] /\ w3' = w3 /\ w4' \in Nat
  BY <1>1, <1>3
<1>10. x.turn => x.there
  BY <1>5
<1> HIDE DEF ss
<1> QED
  BY <1>5, <1>8, <1>9, <1>10, OneSession

\* A view that is kept while no session changes.
LEMMA KeptHere ==
    ASSUME NEW w, NEW v, NEW i, NEW c, ViewGood(w, i, w1, c), Kept(w, v),
           v.sending = Views!Streaming(w1, w.cur) \/ v.sending = w.sending
    PROVE  ViewGood(v, i, w1, c)
<1>1. w.cur # None =>
         /\ w1[w.cur].there \/ w1[w.cur].gone
         /\ w1[w.cur].there /\ v.sending => w1[w.cur].turn
  BY DEF ViewGood, Views!ViewSound, Views!Streaming
<1> QED
  BY <1>1, KeptGood

LEMMA ViewsReminder ==
    ASSUME Views!ViewsSound, ViewsAssumption, NEW s \in ViewSessions, Views!Reminder(s)
    PROVE  Views!ViewsSound'
<1>1. w1[s].there
  BY DEF Views!Reminder
<1>2. CASE Views!QuietTurn(s, Views!Hidden)
  BY <1>1, <1>2, ViewsQuietTurn
<1>3. CASE /\ Views!ForViews(s, [i \in OpenedViews |-> Views!Failed(w2[i], i, s, w1)])
           /\ UNCHANGED <<w1, w3, w4>>
  <2> DEFINE f(i) == Views!Failed(w2[i], i, s, w1)
  <2>1. /\ SessionsTyped(w1) /\ w2 \in [OpenedViews -> Views!ViewStates]
        /\ \A j \in OpenedViews : ViewGood(w2[j], j, w1, w3)
    BY SoundNow
  <2>2. /\ w2' = [i \in OpenedViews |-> w2'[i]] /\ w1' = w1 /\ w3' = w3 /\ w4' = w4
        /\ \A i \in OpenedViews : w2'[i] = IF i \in Views!Participants(s) THEN f(i) ELSE w2[i]
    BY <1>3 DEF Views!ForViews, Views!ViewsOf
  <2>3. ASSUME NEW i \in OpenedViews PROVE ViewGood(f(i), i, w1, w3)
    <3>1. w2[i] \in Views!ViewStates /\ ViewGood(w2[i], i, w1, w3)
      BY <2>1
    <3>2. /\ Kept(w2[i], f(i))
          /\ f(i).sending = Views!Streaming(w1, w2[i].cur) \/ f(i).sending = w2[i].sending
      BY <2>1, <3>1, FailedKept
    <3> HIDE DEF f
    <3> QED
      BY <3>1, <3>2, KeptHere
  <2> HIDE DEF f
  <2>4. \A i \in OpenedViews : ViewGood(w2'[i], i, w1, w3)
    BY <2>1, <2>2, <2>3
  <2>5. w2' = [i \in OpenedViews |-> w2'[i]]
    BY <2>2
  <2> QED
    BY <2>2, <2>4, <2>5, NoSessionChanges
<1> QED
  BY <1>2, <1>3 DEF Views!Reminder

LEMMA ViewsReplied ==
    ASSUME Views!ViewsSound, ViewsAssumption, NEW s \in ViewSessions, NEW empty \in BOOLEAN,
           Views!TeammateReplied(s, empty)
    PROVE  Views!ViewsSound'
<1>1. w1[s].there /\ (Views!Quiet(s, Views!Blank) \/ Views!QuietTurn(s, w4 + 1))
  BY DEF Views!TeammateReplied
<1> QED
  BY <1>1, ViewsQuiet, ViewsQuietTurn

LEMMA ViewsSettled ==
    ASSUME Views!ViewsSound, ViewsAssumption, NEW s \in ViewSessions,
           Views!DelegateSettled(s) \/ Views!ToolEvent(s)
    PROVE  Views!ViewsSound'
<1>1. Views!Quiet(s, w4 + 1) \/ Views!Quiet(s, Views!Blank)
  BY DEF Views!DelegateSettled, Views!ToolEvent
<1> QED
  BY <1>1, ViewsQuiet

LEMMA ViewsFileSent ==
    ASSUME Views!ViewsSound, ViewsAssumption, NEW s \in ViewSessions, Views!FileSent(s)
    PROVE  Views!ViewsSound'
<1> DEFINE m == w4 + 2
           y == Views!Posts(w1[s], Views!Blank)
           x == Views!Posts(y, m)
           ss == [w1 EXCEPT ![s] = x]
           f(i) == IF Views!Shows(w2[i], i, s) /\ s \in w2[i].list
                   THEN Views!Added(w2[i], <<m>>) ELSE w2[i]
<1>1. /\ SessionsTyped(w1) /\ StatesOf(w1) /\ w4 \in Nat
      /\ w2 \in [OpenedViews -> Views!ViewStates]
      /\ \A j \in OpenedViews : ViewGood(w2[j], j, w1, w3)
  BY SoundNow
<1>2. w1' = ss /\ w3' = w3 /\ w4' = w4 + 2 /\ w1[s].turn
  BY <1>1 DEF Views!FileSent, SessionsTyped
<1>3. /\ w2' = [i \in OpenedViews |-> w2'[i]]
      /\ \A i \in OpenedViews : w2'[i] = IF i \in Views!Participants(s) THEN f(i) ELSE w2[i]
  BY DEF Views!FileSent, Views!ForViews, Views!ViewsOf
<1>4. /\ m \in Int \ {0} /\ <<m>> \in Seq(Int) /\ Views!Blank \in Int \ {0}
      /\ w1[s] \in Views!SessionStates /\ w1[s].there
  BY <1>1, <1>2 DEF Views!Blank, SessionsTyped, StatesOf
<1> HIDE DEF m
<1>5. /\ y \in Views!SessionStates /\ y.there = w1[s].there /\ y.gone = w1[s].gone
      /\ y.turn = w1[s].turn
      /\ w1[s].msgs \in Messages /\ y.msgs = Append(w1[s].msgs, Views!Blank)
  BY <1>4, PostsFacts
<1> HIDE DEF y
<1>6. /\ x \in Views!SessionStates /\ x.there = w1[s].there /\ x.gone = w1[s].gone
      /\ x.turn = w1[s].turn
      /\ y.msgs \in Messages /\ x.msgs = Append(y.msgs, m)
  BY <1>4, <1>5, PostsFacts
<1> HIDE DEF x
<1>7. ASSUME NEW i \in OpenedViews PROVE ViewGood(f(i), i, ss, w3)
  <2> DEFINE w == w2[i]
             v == f(i)
  <2>1. w \in Views!ViewStates /\ ViewGood(w, i, w1, w3) /\ s # None
    BY <1>1 DEF ViewsAssumption
  <2>2. /\ Kept(w, v) /\ v.sending = w.sending
        /\ i = w3 /\ w.cur = s => Views!Begins(m, v.bubbles)
    <3>1. CASE Views!Shows(w, i, s) /\ s \in w.list
      <4>1. v = Views!Added(w, <<m>>)
        BY <3>1
      <4>2. Kept(w, v) /\ v.sending = w.sending /\ v.bubbles = Append(w.bubbles, <<m>>)
        BY <1>4, <2>1, <4>1, AddedKept
      <4>3. w.bubbles \in Bubbles
        BY <2>1 DEF Views!ViewStates, Bubbles
      <4> QED
        BY <1>4, <4>2, <4>3, BeginsAppend
    <3>2. CASE ~(Views!Shows(w, i, s) /\ s \in w.list)
      <4>1. v = w
        BY <3>2
      <4>2. ~(i = w3 /\ w.cur = s)
        BY <1>4, <2>1, <3>2, InList DEF Views!Shows
      <4> QED
        BY <2>1, <4>1, <4>2, KeptSame
    <3> QED
      BY <3>1, <3>2
  <2> HIDE DEF v, f
  <2>3. i = w3 /\ w.cur = s => Told(w1[s].msgs, x.msgs, v)
    <3>1. Told(w1[s].msgs, y.msgs, v)
      BY <1>4, <1>5, ToldAppend
    <3>2. i = w3 /\ w.cur = s => Told(y.msgs, x.msgs, v)
      BY <1>4, <1>6, <2>2, ToldAppend
    <3> QED
      BY <3>1, <3>2, ToldTwice
  <2>4. ViewGood(v, i, ss, w3)
    BY <1>1, <1>6, <2>1, <2>2, <2>3, KeptOne
  <2> QED
    BY <2>4 DEF v
<1> HIDE DEF f
<1>8. \A i \in OpenedViews :
         IF i \in Views!Participants(s) THEN ViewGood(w2'[i], i, w1', w3) ELSE w2'[i] = w2[i]
  BY <1>2, <1>3, <1>7
<1>9. w2' = [i \in OpenedViews |-> w2'[i]] /\ w1' = [w1 EXCEPT ![s] = x] /\ w3' = w3 /\ w4' \in Nat
  BY <1>1, <1>2, <1>3
<1>10. x.turn => x.there
  BY <1>4, <1>6
<1> HIDE DEF ss
<1> QED
  BY <1>6, <1>8, <1>9, <1>10, OneSession

LEMMA ViewsFinished ==
    ASSUME Views!ViewsSound, ViewsAssumption, NEW s \in ViewSessions, NEW empty \in BOOLEAN,
           Views!TurnFinished(s, empty)
    PROVE  Views!ViewsSound'
<1> DEFINE y == Views!Over(w1[s])
           x == IF empty THEN y ELSE Views!Posts(y, w4 + 1)
           ss == [w1 EXCEPT ![s] = x]
           a == IF empty THEN 0 ELSE w4 + 1
           f(i) == Views!Finished(Views!Heard(s, ss)[i], i, s, a, ss)
<1>1. /\ SessionsTyped(w1) /\ StatesOf(w1) /\ w4 \in Nat
      /\ w2 \in [OpenedViews -> Views!ViewStates]
      /\ \A j \in OpenedViews : ViewGood(w2[j], j, w1, w3)
  BY SoundNow
<1>2. /\ w1' = ss /\ w3' = w3 /\ w4' = (IF empty THEN w4 ELSE w4 + 1) /\ w1[s].turn
      /\ w2' = [i \in OpenedViews |-> w2'[i]]
      /\ \A i \in OpenedViews : w2'[i] = IF i \in Views!Participants(s) THEN f(i) ELSE w2[i]
  BY DEF Views!TurnFinished, Views!ForViews, Views!ViewsOf
<1>3. w1[s] \in Views!SessionStates /\ w1[s].there
  BY <1>1, <1>2 DEF SessionsTyped, StatesOf
<1>4. /\ x \in Views!SessionStates /\ x.there = w1[s].there /\ x.gone = w1[s].gone
      /\ \/ x.msgs = w1[s].msgs
         \/ /\ a \in Int \ {0} /\ w1[s].msgs \in Messages
            /\ x.msgs = Append(w1[s].msgs, a)
  <2>1. /\ y \in Views!SessionStates /\ y.there = w1[s].there /\ y.gone = w1[s].gone
        /\ y.msgs = w1[s].msgs
    BY <1>3, OverFacts
  <2> HIDE DEF y
  <2>2. CASE empty
    BY <2>1, <2>2
  <2>3. CASE ~empty
    <3>1. x = Views!Posts(y, a) /\ a \in Int \ {0}
      BY <1>1, <2>3
    <3> HIDE DEF x, a
    <3> QED
      BY <2>1, <3>1, PostsFacts
  <2> QED
    BY <2>2, <2>3
<1>5. SessionsTyped(ss) /\ a \in Nat /\ w4' \in Nat
  <2>1. SessionsTyped(ss)
    BY <1>1, <1>4 DEF SessionsTyped
  <2> QED
    BY <1>1, <1>2, <2>1
<1> HIDE DEF x, a
<1>6. ASSUME NEW i \in OpenedViews PROVE ViewGood(f(i), i, ss, w3)
  <2> DEFINE w == w2[i]
             h == Views!Heard(s, ss)[i]
             v == f(i)
  <2>1. w \in Views!ViewStates /\ ViewGood(w, i, w1, w3) /\ s # None
    BY <1>1 DEF ViewsAssumption
  <2>2. /\ Kept(w, h)
        /\ IF ss[s].turn THEN h.sending = Views!Streaming(ss, w.cur) ELSE h = w
    BY <1>5, <2>1, HeardKept
  <2>3. h \in Views!ViewStates /\ h.cur = w.cur /\ h.list = w.list /\ h.apart = w.apart
    BY <2>2 DEF Kept
  <2> HIDE DEF h
  <2>4. Views!Shows(h, i, s) <=> i = w3 /\ w.cur = s
    BY <2>3 DEF Views!Shows
  <2>5. i = w3 => Views!RowSound(h)
    BY <2>1, <2>2, KeptRow DEF ViewGood
  <2>6. /\ v \in Views!ViewStates /\ v.cur = h.cur /\ v.list = h.list /\ v.apart = h.apart
        /\ h.late \subseteq v.late
        /\ v.pending = h.pending \/ v.pending = 0
        /\ IF s \in h.list THEN v.pending = 0 /\ v.sending = Views!Streaming(ss, h.cur)
           ELSE v = h
        /\ ~h.apart =>
              /\ \A m \in Int \ {0} : Views!Begins(m, h.bubbles) => Views!Begins(m, v.bubbles)
              /\ a # 0 /\ Views!Shows(h, i, s) /\ s \in h.list => Views!Begins(a, v.bubbles)
    BY <1>5, <2>3, <2>4, <2>5, FinishedFacts DEF h
  <2> HIDE DEF v, f
  <2>7. s \notin w.list => w.cur # s
    BY <1>3, <2>1, InList
  <2>8. w.cur # None =>
           /\ w.cur \in ViewSessions
           /\ w.cur = s => ss[w.cur] = x
           /\ w.cur # s => ss[w.cur] = w1[w.cur]
           /\ w1[w.cur].there \/ w1[w.cur].gone
           /\ i \in Views!Participants(w.cur)
           /\ w1[w.cur].there => w.cur \in w.list /\ (w.sending => w1[w.cur].turn)
    BY <1>1, <2>1 DEF SessionsTyped, Views!ViewStates, ViewGood, Views!ViewSound
  <2>9. Views!ViewSound(v, i, ss)
    <3>1. \A r \in v.list : i \in Views!Participants(r)
      BY <2>1, <2>3, <2>6 DEF ViewGood, Views!ViewSound
    <3>2. v.cur = w.cur /\ v.list = w.list
      BY <2>3, <2>6
    <3>3. ASSUME w.cur # None
          PROVE  /\ ss[w.cur].there = w1[w.cur].there /\ ss[w.cur].gone = w1[w.cur].gone
                 /\ ss[w.cur].there /\ v.sending => ss[w.cur].turn
      <4>1. ss[w.cur].there = w1[w.cur].there /\ ss[w.cur].gone = w1[w.cur].gone
        BY <1>4, <2>8, <3>3
      <4>2. CASE v.sending = Views!Streaming(ss, w.cur)
        BY <4>1, <4>2 DEF Views!Streaming
      <4>3. CASE s \notin w.list /\ v.sending = w.sending
        BY <2>7, <2>8, <3>3, <4>1, <4>3
      <4>4. v.sending = Views!Streaming(ss, w.cur) \/ (s \notin w.list /\ v.sending = w.sending)
        BY <2>2, <2>3, <2>6
      <4> QED
        BY <4>1, <4>2, <4>3, <4>4
    <3>4. w.cur # None =>
          /\ i \in Views!Participants(w.cur)
          /\ ss[w.cur].there => w.cur \in w.list
          /\ ss[w.cur].there \/ ss[w.cur].gone
      BY <2>8, <3>3
    <3>5. Placed(v, i, ss)
      BY <3>1, <3>2, <3>4 DEF Placed
    <3> QED
      BY <3>2, <3>3, <3>5, PlacedSound
  <2>10. CASE i # w3
    <3>1. w.pending = 0
      BY <2>1, <2>10 DEF ViewGood
    <3>2. v.pending = 0
      BY <2>2, <2>6, <3>1 DEF Kept
    <3> QED
      BY <2>6, <2>9, <2>10, <3>2 DEF ViewGood, v
  <2>11. CASE i = w3
    <3>1. Views!RowSound(v)
      <4>1. CASE s \in w.list
        BY <2>3, <2>6, <4>1 DEF Views!RowSound
      <4>2. CASE s \notin w.list
        BY <2>3, <2>5, <2>6, <2>11, <4>2
      <4> QED
        BY <4>1, <4>2
    <3>2. Views!AllShown(v, ss)
      <4>1. Views!AllShown(h, w1)
        BY <2>1, <2>2, <2>11, KeptShown DEF ViewGood
      <4> SUFFICES ASSUME w.cur # None, ~w.apart, ss[w.cur].there
                   PROVE  /\ w1[w.cur].there
                          /\ Told(w1[w.cur].msgs, ss[w.cur].msgs, v)
                          /\ \A k \in DOMAIN w1[w.cur].msgs :
                                Views!Begins(w1[w.cur].msgs[k], h.bubbles)
                                   => Views!Begins(w1[w.cur].msgs[k], v.bubbles)
                          /\ Views!Begins(Views!Earlier, h.bubbles) => Views!Begins(Views!Earlier, v.bubbles)
        BY <2>3, <2>6, <4>1, ShownTold
      <4>2. w1[w.cur].there
        BY <1>4, <2>8
      <4>3. Told(w1[w.cur].msgs, ss[w.cur].msgs, v)
        <5>1. CASE ss[w.cur].msgs = w1[w.cur].msgs
          BY <5>1, ToldSame
        <5>2. CASE ss[w.cur].msgs # w1[w.cur].msgs
          <6>1. w.cur = s /\ x.msgs # w1[s].msgs
            BY <2>8, <5>2
          <6>2. s \in w.list
            BY <2>7, <6>1
          <6>3. /\ a \in Int \ {0} /\ w1[s].msgs \in Messages
                /\ ss[w.cur].msgs = Append(w1[s].msgs, a)
            BY <1>4, <2>8, <6>1
          <6>4. Views!Begins(a, v.bubbles)
            BY <2>3, <2>4, <2>6, <2>11, <6>1, <6>2, <6>3
          <6> QED
            BY <6>1, <6>3, <6>4, ToldAppend
        <5> QED
          BY <5>1, <5>2
      <4>4. ASSUME NEW k \in DOMAIN w1[w.cur].msgs PROVE w1[w.cur].msgs[k] \in Int \ {0}
        <5>1. w1[w.cur].msgs \in Seq(Int \ {0})
          BY <1>1, <2>8 DEF SessionsTyped, Views!SessionStates
        <5> QED
          BY <5>1, LenProperties, ElementOfSeq
      <4>5. Views!Earlier \in Int \ {0}
        BY DEF Views!Earlier
      <4> QED
        BY <2>3, <2>6, <4>2, <4>3, <4>4, <4>5
    <3> QED
      BY <2>6, <2>9, <2>11, <3>1, <3>2 DEF ViewGood, v
  <2> QED
    BY <2>10, <2>11 DEF v
<1> HIDE DEF f
<1>7. \A i \in OpenedViews :
         IF i \in Views!Participants(s) THEN ViewGood(w2'[i], i, w1', w3) ELSE w2'[i] = w2[i]
  BY <1>2, <1>6
<1>8. w2' = [i \in OpenedViews |-> w2'[i]] /\ w1' = [w1 EXCEPT ![s] = x] /\ w3' = w3 /\ w4' \in Nat
  BY <1>2, <1>5
<1> HIDE DEF ss
<1> QED
  BY <1>3, <1>4, <1>7, <1>8, OneSession

LEMMA ViewsDelta ==
    ASSUME Views!ViewsSound, ViewsAssumption, NEW s \in ViewSessions, Views!StreamDelta(s)
    PROVE  Views!ViewsSound'
<1> DEFINE x == [w1[s] EXCEPT !.buffer = @ + 1]
           ss == [w1 EXCEPT ![s] = x]
           on(i) == Views!Sending(w2[i], TRUE)
           held(i) == IF w2[i].pending = 0 THEN Views!Placeholder(on(i)) ELSE on(i)
           f(i) == IF ~Views!Shows(w2[i], i, s) \/ s \notin w2[i].list THEN w2[i]
                   ELSE Views!Streamed(held(i), 1)
<1>1. /\ SessionsTyped(w1) /\ StatesOf(w1) /\ w4 \in Nat
      /\ w2 \in [OpenedViews -> Views!ViewStates]
      /\ \A j \in OpenedViews : ViewGood(w2[j], j, w1, w3)
  BY SoundNow
<1>2. w1' = ss /\ w3' = w3 /\ w4' = w4 /\ w1[s].turn
  BY <1>1 DEF Views!StreamDelta, SessionsTyped
<1>3. /\ w2' = [i \in OpenedViews |-> w2'[i]]
      /\ \A i \in OpenedViews : w2'[i] = IF i \in Views!Participants(s) THEN f(i) ELSE w2[i]
  BY DEF Views!StreamDelta, Views!ForViews, Views!ViewsOf
<1>4. w1[s] \in Views!SessionStates /\ w1[s].there
  BY <1>1, <1>2 DEF SessionsTyped, StatesOf
<1>5. /\ x \in Views!SessionStates /\ x.there = w1[s].there /\ x.gone = w1[s].gone
      /\ x.msgs = w1[s].msgs /\ x.turn = w1[s].turn
  <2>1. w1[s].buffer + 1 \in Nat
    BY <1>4 DEF Views!SessionStates
  <2> QED
    BY <1>4, <2>1 DEF Views!SessionStates
<1> HIDE DEF x
<1>6. ASSUME NEW i \in OpenedViews PROVE ViewGood(f(i), i, ss, w3)
  <2> DEFINE w == w2[i]
  <2>1. w \in Views!ViewStates /\ ViewGood(w, i, w1, w3) /\ s # None
    BY <1>1 DEF ViewsAssumption
  <2>2. ViewGood(w, i, ss, w3)
    <3>1. Kept(w, w)
      BY <2>1, KeptSame
    <3> QED
      BY <1>1, <1>5, <2>1, <3>1, KeptOne
  <2>3. CASE ~Views!Shows(w, i, s) \/ s \notin w.list
    BY <2>2, <2>3
  <2>4. CASE Views!Shows(w, i, s) /\ s \in w.list
    <3> DEFINE o == on(i)
               u == held(i)
               v == f(i)
    <3>1. i = w3 /\ w.cur = s
      BY <2>4 DEF Views!Shows
    <3>2. Kept(w, o) /\ o.pending = w.pending
      BY <2>1, SendingKept
    <3>3. v = Views!Streamed(u, 1)
      BY <2>4
    <3>4. u = IF w.pending = 0 THEN Views!Placeholder(o) ELSE o
      OBVIOUS
    <3> HIDE DEF o, u, v, on, held, f
    <3>5. /\ u \in Views!ViewStates /\ u.cur = s /\ u.list = w.list
          /\ Views!RowSound(u) /\ Views!AllShown(u, ss)
      <4>1. Views!RowSound(o) /\ Views!AllShown(o, ss)
        BY <2>2, <3>1, <3>2, KeptRow, KeptShown DEF ViewGood
      <4>2. o \in Views!ViewStates /\ o.cur = s /\ o.list = w.list
        BY <3>1, <3>2 DEF Kept
      <4>3. CASE w.pending # 0
        BY <3>4, <4>1, <4>2, <4>3
      <4>4. CASE w.pending = 0
        <5>1. u = Views!Placeholder(o)
          BY <3>4, <4>4
        <5>2. /\ u \in Views!ViewStates /\ u.cur = o.cur /\ u.list = o.list /\ u.apart = o.apart
              /\ u.late = o.late
              /\ Grown(o.bubbles, u.bubbles) /\ Views!RowSound(u)
          BY <4>2, <5>1, PlaceholderFacts
        <5>3. \A m : Views!Begins(m, o.bubbles) => Views!Begins(m, u.bubbles)
          BY <5>2, GrownBegins
        <5>4. Views!AllShown(u, ss)
          BY <4>1, <5>2, <5>3, ToldSame, ShownTold
        <5> QED
          BY <4>2, <5>2, <5>4
      <4> QED
        BY <4>3, <4>4
    <3>6. Kept(u, v)
      BY <3>3, <3>5, StreamedKept
    <3>7. Views!RowSound(v) /\ Views!AllShown(v, ss)
      BY <3>5, <3>6, KeptRow, KeptShown
    <3>8. v \in Views!ViewStates /\ v.cur = w.cur /\ v.list = w.list
      BY <3>1, <3>5, <3>6 DEF Kept
    <3>9. Views!ViewSound(v, i, ss)
      <4>1. ss[s].turn
        BY <1>1, <1>2, <1>5 DEF SessionsTyped
      <4> QED
        BY <2>2, <3>1, <3>8, <4>1 DEF ViewGood, Views!ViewSound
    <3> QED
      BY <3>1, <3>7, <3>8, <3>9 DEF ViewGood, v
  <2> QED
    BY <2>3, <2>4
<1> HIDE DEF f, on, held
<1>7. \A i \in OpenedViews :
         IF i \in Views!Participants(s) THEN ViewGood(w2'[i], i, w1', w3) ELSE w2'[i] = w2[i]
  BY <1>2, <1>3, <1>6
<1>8. w2' = [i \in OpenedViews |-> w2'[i]] /\ w1' = [w1 EXCEPT ![s] = x] /\ w3' = w3 /\ w4' \in Nat
  BY <1>1, <1>2, <1>3
<1>9. x.turn => x.there
  BY <1>4, <1>5
<1> HIDE DEF ss
<1> QED
  BY <1>5, <1>7, <1>8, <1>9, OneSession

\* A view that is filled anew is good.
LEMMA RestoredGood ==
    ASSUME NEW w, NEW i, NEW ss, NEW s \in ViewSessions, SessionsTyped(ss), s # None,
           w \in Views!ViewStates, Views!ViewSound(w, i, ss), w.cur = s
    PROVE  ViewGood(Views!Restored(w, ss), i, ss, i)
<1> DEFINE v == Views!Restored(w, ss)
<1>1. /\ v \in Views!ViewStates /\ v.cur = w.cur /\ v.list = w.list /\ v.sending = w.sending
      /\ Views!RowSound(v) /\ Views!AllShown(v, ss)
  BY RestoredFacts
<1> HIDE DEF v
<1>2. Views!ViewSound(v, i, ss)
  BY <1>1 DEF Views!ViewSound
<1> QED
  BY <1>1, <1>2 DEF ViewGood, v

LEMMA ViewsInject ==
    ASSUME Views!ViewsSound, ViewsAssumption, NEW s \in ViewSessions,
           NEW m \in {w4 + 1, Views!Hidden, Views!Blank}, Views!Inject(s, m)
    PROVE  Views!ViewsSound'
<1> DEFINE x == Views!Posts(w1[s], m)
           ss == [w1 EXCEPT ![s] = x]
           f(i) == IF Views!Shows(w2[i], i, s) /\ s \in w2[i].list
                   THEN Views!Restored(w2[i], ss) ELSE w2[i]
<1>1. /\ SessionsTyped(w1) /\ StatesOf(w1) /\ w4 \in Nat
      /\ w2 \in [OpenedViews -> Views!ViewStates]
      /\ \A j \in OpenedViews : ViewGood(w2[j], j, w1, w3)
  BY SoundNow
<1>2. w1' = ss /\ w3' = w3 /\ w4' = w4 + 1 /\ w1[s].there
  BY DEF Views!Inject
<1>3. /\ w2' = [i \in OpenedViews |-> w2'[i]]
      /\ \A i \in OpenedViews : w2'[i] = IF i \in Views!Participants(s) THEN f(i) ELSE w2[i]
  BY DEF Views!Inject, Views!ForViews, Views!ViewsOf
<1>4. w1[s] \in Views!SessionStates /\ m \in Int \ {0}
  BY <1>1 DEF SessionsTyped, Views!Hidden, Views!Blank
<1>5. /\ x \in Views!SessionStates /\ x.there = w1[s].there /\ x.gone = w1[s].gone
      /\ x.turn = w1[s].turn
  BY <1>4, PostsFacts
<1> HIDE DEF x
<1>6. ASSUME NEW i \in OpenedViews PROVE ViewGood(f(i), i, ss, w3)
  <2> DEFINE w == w2[i]
  <2>1. w \in Views!ViewStates /\ ViewGood(w, i, w1, w3) /\ s # None
    BY <1>1 DEF ViewsAssumption
  <2>2. CASE ~(Views!Shows(w, i, s) /\ s \in w.list)
    <3>1. ~(i = w3 /\ w.cur = s)
      BY <1>2, <2>1, <2>2, InList DEF Views!Shows
    <3>2. Kept(w, w)
      BY <2>1, KeptSame
    <3>3. ViewGood(w, i, ss, w3)
      BY <1>1, <1>5, <2>1, <3>1, <3>2, KeptOne
    <3> QED
      BY <2>2, <3>3
  <2>3. CASE Views!Shows(w, i, s) /\ s \in w.list
    <3>1. i = w3 /\ w.cur = s
      BY <2>3 DEF Views!Shows
    <3>2. SessionsTyped(ss) /\ ss[s] = x
      BY <1>1, <1>5 DEF SessionsTyped
    <3>3. Views!ViewSound(w, i, ss)
      BY <1>5, <2>1, <3>1, <3>2 DEF ViewGood, Views!ViewSound
    <3>4. ViewGood(Views!Restored(w, ss), i, ss, i)
      BY <2>1, <3>1, <3>2, <3>3, RestoredGood
    <3> QED
      BY <2>3, <3>1, <3>4
  <2> QED
    BY <2>2, <2>3
<1> HIDE DEF f
<1>7. \A i \in OpenedViews :
         IF i \in Views!Participants(s) THEN ViewGood(w2'[i], i, w1', w3) ELSE w2'[i] = w2[i]
  BY <1>2, <1>3, <1>6
<1>8. w2' = [i \in OpenedViews |-> w2'[i]] /\ w1' = [w1 EXCEPT ![s] = x] /\ w3' = w3 /\ w4' \in Nat
  BY <1>1, <1>2, <1>3
<1>9. x.turn => x.there
  BY <1>2, <1>5
<1> HIDE DEF ss
<1> QED
  BY <1>5, <1>7, <1>8, <1>9, OneSession

LEMMA ViewsMemoryNotice ==
    ASSUME Views!ViewsSound, ViewsAssumption, NEW s \in ViewSessions, NEW error \in BOOLEAN,
           Views!MemoryNotice(s, error)
    PROVE  Views!ViewsSound'
<1> DEFINE f(i) == IF error THEN Views!Failed(w2[i], i, s, w1) ELSE w2[i]
           e(i) == IF Views!Shows(w2[i], i, s) /\ s \in w2[i].list
                   THEN Views!Restored(f(i), w1) ELSE f(i)
<1>1. /\ SessionsTyped(w1) /\ StatesOf(w1) /\ w4 \in Nat
      /\ w2 \in [OpenedViews -> Views!ViewStates]
      /\ \A j \in OpenedViews : ViewGood(w2[j], j, w1, w3)
  BY SoundNow
<1>2. w1' = w1 /\ w3' = w3 /\ w4' = w4
  BY DEF Views!MemoryNotice
<1>3. /\ w2' = [i \in OpenedViews |-> w2'[i]]
      /\ \A i \in OpenedViews : w2'[i] = IF i \in Views!Participants(s) THEN e(i) ELSE w2[i]
  BY DEF Views!MemoryNotice, Views!ForViews, Views!ViewsOf
<1>4. ASSUME NEW i \in OpenedViews PROVE ViewGood(e(i), i, w1, w3)
  <2> DEFINE w == w2[i]
             v == f(i)
  <2>1. w \in Views!ViewStates /\ ViewGood(w, i, w1, w3) /\ s # None
    BY <1>1 DEF ViewsAssumption
  <2>2. /\ Kept(w, v)
        /\ v.sending = Views!Streaming(w1, w.cur) \/ v.sending = w.sending
    BY <1>1, <2>1, FailedKept, KeptSame
  <2> HIDE DEF f
  <2>3. ViewGood(v, i, w1, w3)
    BY <2>1, <2>2, KeptHere
  <2>4. CASE ~(Views!Shows(w, i, s) /\ s \in w.list)
    BY <2>3, <2>4
  <2>5. CASE Views!Shows(w, i, s) /\ s \in w.list
    <3>1. i = w3 /\ v.cur = s /\ v \in Views!ViewStates
      BY <2>2, <2>5 DEF Views!Shows, Kept
    <3>2. Views!ViewSound(v, i, w1)
      BY <2>3 DEF ViewGood
    <3>3. ViewGood(Views!Restored(v, w1), i, w1, i)
      BY <1>1, <2>1, <3>1, <3>2, RestoredGood
    <3> QED
      BY <2>5, <3>1, <3>3
  <2> QED
    BY <2>4, <2>5
<1> HIDE DEF e, f
<1>5. ASSUME NEW i \in OpenedViews PROVE ViewGood(w2'[i], i, w1, w3)
  BY <1>1, <1>3, <1>4
<1>6. w2' = [i \in OpenedViews |-> w2'[i]]
  BY <1>3
<1> QED
  BY <1>2, <1>5, <1>6, NoSessionChanges

LEMMA DirtyKept ==
    ASSUME NEW w \in Views!ViewStates
    PROVE  LET v == [w EXCEPT !.dirty = TRUE] IN
           Kept(w, v) /\ v.sending = w.sending
<1> DEFINE v == [w EXCEPT !.dirty = TRUE]
<1>1. /\ v \in Views!ViewStates /\ v.pending = w.pending /\ v.cur = w.cur /\ v.list = w.list
      /\ v.apart = w.apart /\ v.late = w.late /\ v.bubbles = w.bubbles /\ v.sending = w.sending
  BY DEF Views!ViewStates
<1>2. w.bubbles \in Bubbles
  BY DEF Views!ViewStates, Bubbles
<1> QED
  BY <1>1, <1>2, GrownSame DEF Kept

\* A view that is only kept, with another view active.
LEMMA OtherActive ==
    ASSUME NEW w, NEW i, NEW ss, NEW c, NEW d, ViewGood(w, i, ss, c), i # d, w.pending = 0
    PROVE  ViewGood(w, i, ss, d)
BY DEF ViewGood

LEMMA GoodPlaced ==
    ASSUME NEW w, NEW i, NEW ss, NEW c, ViewGood(w, i, ss, c)
    PROVE  w \in Views!ViewStates /\ Placed(w, i, ss)
BY DEF ViewGood, Views!ViewSound, Placed

LEMMA ViewsIdentity ==
    ASSUME Views!ViewsSound, NEW i \in OpenedViews, Views!SwitchIdentity(i)
    PROVE  Views!ViewsSound'
<1> DEFINE r(j) == IF j = w3 THEN Views!Reset(w2[j]) ELSE w2[j]
           f(j) == IF j = i THEN Views!Activated(r(j), j, w1) ELSE r(j)
<1>1. /\ SessionsTyped(w1) /\ StatesOf(w1) /\ w4 \in Nat
      /\ w2 \in [OpenedViews -> Views!ViewStates]
      /\ \A j \in OpenedViews : ViewGood(w2[j], j, w1, w3)
  BY SoundNow
<1>2. w1' = w1 /\ w3' = i /\ w4' = w4
  BY DEF Views!SwitchIdentity
<1>3. /\ w2' = [j \in OpenedViews |-> w2'[j]]
      /\ \A j \in OpenedViews : w2'[j] = f(j)
  BY DEF Views!SwitchIdentity
<1>4. ASSUME NEW j \in OpenedViews
      PROVE  ViewGood(r(j), j, w1, w3) /\ r(j).pending = 0
  <2>1. ViewGood(w2[j], j, w1, w3) /\ w2[j] \in Views!ViewStates
    BY <1>1
  <2>2. CASE j = w3
    <3> DEFINE v == Views!Reset(w2[j])
    <3>1. Kept(w2[j], v) /\ v.pending = 0 /\ v.sending = w2[j].sending
      BY <2>1, ResetKept
    <3> HIDE DEF v
    <3>2. w2[j].cur # None =>
             /\ w1[w2[j].cur].there \/ w1[w2[j].cur].gone
             /\ w1[w2[j].cur].there /\ v.sending => w1[w2[j].cur].turn
      BY <2>1, <3>1 DEF ViewGood, Views!ViewSound
    <3>3. ViewGood(v, j, w1, w3)
      BY <2>1, <3>1, <3>2, KeptGood
    <3> QED
      BY <2>2, <3>1, <3>3 DEF v
  <2>3. CASE j # w3
    BY <2>1, <2>3 DEF ViewGood
  <2> QED
    BY <2>2, <2>3
<1>5. ASSUME NEW j \in OpenedViews PROVE ViewGood(f(j), j, w1, i)
  <2> HIDE DEF r
  <2>1. CASE j = i
    <3>1. r(j) \in Views!ViewStates /\ Placed(r(j), j, w1)
      BY <1>4, GoodPlaced
    <3>2. ViewGood(Views!Activated(r(j), j, w1), j, w1, j)
      BY <1>1, <3>1, ActivatedGood
    <3> QED
      BY <2>1, <3>2
  <2>2. CASE j # i
    <3>1. ViewGood(r(j), j, w1, i)
      BY <1>4, <2>2, OtherActive
    <3> QED
      BY <2>2, <3>1
  <2> QED
    BY <2>1, <2>2
<1> HIDE DEF f
<1>6. \A j \in OpenedViews : ViewGood(w2'[j], j, w1', w3')
  BY <1>2, <1>3, <1>5
<1>7. SessionsTyped(w1') /\ StatesOf(w1') /\ w3' \in OpenedViews /\ w4' \in Nat
  BY <1>1, <1>2
<1>8. w2' = [j \in OpenedViews |-> w2'[j]]
  BY <1>3
<1> QED
  BY <1>6, <1>7, <1>8, GoodViewsNext

LEMMA ViewsCreate ==
    ASSUME Views!ViewsSound, ViewsAssumption, NEW s \in ViewSessions, Views!CreateSession(s)
    PROVE  Views!ViewsSound'
<1> DEFINE ss == [w1 EXCEPT ![s].there = TRUE]
           l == Views!Listed(w2[user], user, ss)
           v == Views!SwitchedTo(l, s, ss)
           d(i) == [w2[i] EXCEPT !.dirty = TRUE]
<1>1. /\ SessionsTyped(w1) /\ StatesOf(w1) /\ w4 \in Nat
      /\ w2 \in [OpenedViews -> Views!ViewStates]
      /\ \A j \in OpenedViews : ViewGood(w2[j], j, w1, w3)
      /\ user \in OpenedViews /\ s # None
  BY SoundNow DEF ViewsAssumption
<1>2. w1' = ss /\ w3' = w3 /\ w4' = w4 /\ w3 = user /\ w1[s] = Views!NewSession
  BY DEF Views!CreateSession
<1>3. /\ w2' = [i \in OpenedViews |-> w2'[i]]
      /\ w2'[user] = v
      /\ \A i \in OpenedViews \ {user} : w2'[i] = d(i) \/ w2'[i] = w2[i]
  <2> DEFINE h(i) == Views!SwitchedTo(Views!Listed(w2[i], i, ss), s, ss)
  <2>1. w2' = [i \in OpenedViews |->
                 CASE i = user -> h(i)
                   [] i = SessionAgent[s] -> d(i)
                   [] OTHER -> w2[i]]
    BY DEF Views!CreateSession
  <2>2. \A i \in OpenedViews \ {user} : w2'[i] = d(i) \/ w2'[i] = w2[i]
    BY <2>1
  <2>4. v = h(user)
    OBVIOUS
  <2>5. user \in OpenedViews
    BY <1>1
  <2> HIDE DEF h, v, d
  <2>8. user # SessionAgent[s]
    BY DEF ViewsAssumption
  <2>6. \A i \in OpenedViews : i = user => w2'[i] = h(i)
    BY <2>1, <2>8
  <2>3. w2'[user] = v
    BY <2>4, <2>5, <2>6
  <2> QED
    BY <2>1, <2>2, <2>3
<1>4. /\ ss[s].there /\ SessionsTyped(ss) /\ StatesOf(ss)
      /\ \A r \in ViewSessions \ {s} : ss[r] = w1[r]
  BY <1>1 DEF SessionsTyped, StatesOf, Views!SessionStates
<1> HIDE DEF ss
<1>5. ASSUME NEW i \in OpenedViews, w2[i].cur # None
      PROVE  ss[w2[i].cur] = w1[w2[i].cur] /\ w2[i].cur \in ViewSessions
  <2>1. w2[i].cur \in ViewSessions
    BY <1>1, <1>5 DEF Views!ViewStates
  <2>2. w1[w2[i].cur].there \/ w1[w2[i].cur].gone
    BY <1>1, <1>5 DEF ViewGood, Views!ViewSound
  <2>3. w2[i].cur # s
    BY <1>2, <2>2 DEF Views!NewSession
  <2> QED
    BY <1>4, <2>1, <2>3
<1>6. ViewGood(v, user, ss, w3)
  <2>1. w2[user] \in Views!ViewStates /\ ViewGood(w2[user], user, w1, w3)
    BY <1>1
  <2>2. w2[user].cur # None =>
           user \in Views!Participants(w2[user].cur) /\ (ss[w2[user].cur].there \/ ss[w2[user].cur].gone)
    BY <1>1, <1>5, <2>1 DEF ViewGood, Views!ViewSound
  <2>3. /\ l \in Views!ViewStates
        /\ l.list = {r \in ViewSessions : ss[r].there /\ user \in Views!Participants(r)}
    BY <2>1, <2>2, ListedFacts
  <2> HIDE DEF l
  <2>4. s \in l.list /\ \A r \in l.list : user \in Views!Participants(r)
    BY <1>4, <2>3 DEF Views!Participants
  <2> QED
    BY <1>1, <1>2, <1>4, <2>3, <2>4, SwitchedGood
<1> HIDE DEF v
<1>7. ASSUME NEW i \in OpenedViews \ {user} PROVE ViewGood(w2'[i], i, ss, w3)
  <2>1. ViewGood(w2[i], i, w1, w3) /\ w2[i] \in Views!ViewStates
    BY <1>1
  <2> DEFINE u == w2'[i]
  <2>2. Kept(w2[i], u) /\ u.sending = w2[i].sending
    BY <1>3, <2>1, KeptSame, DirtyKept
  <2> HIDE DEF u
  <2>3. w2[i].cur # None =>
             /\ w1[w2[i].cur].there \/ w1[w2[i].cur].gone
             /\ w1[w2[i].cur].there /\ u.sending => w1[w2[i].cur].turn
    BY <2>1, <2>2 DEF ViewGood, Views!ViewSound
  <2>4. ViewGood(u, i, ss, w3)
    BY <1>5, <2>1, <2>2, <2>3, KeptGood
  <2> QED
    BY <2>4 DEF u
<1>8. \A i \in OpenedViews : ViewGood(w2'[i], i, w1', w3')
  BY <1>2, <1>3, <1>6, <1>7
<1>9. SessionsTyped(w1') /\ StatesOf(w1') /\ w3' \in OpenedViews /\ w4' \in Nat
  BY <1>1, <1>2, <1>4
<1>10. w2' = [i \in OpenedViews |-> w2'[i]]
  BY <1>3
<1> QED
  BY <1>8, <1>9, <1>10, GoodViewsNext

\* Sessions that are removed.
Shrunk(ss) ==
    /\ SessionsTyped(ss) /\ StatesOf(ss)
    /\ \A s \in ViewSessions : ss[s] = w1[s] \/ (~ss[s].there /\ ss[s].gone)

LEMMA RemovedFacts ==
    LET y == Views!Removed IN
    y \in Views!SessionStates /\ ~y.there /\ y.gone /\ ~y.turn
BY EmptySeq DEF Views!Removed, Views!NewSession, Views!SessionStates

LEMMA KeptShrunk ==
    ASSUME NEW w, NEW v, NEW i, NEW ss, NEW c, ViewGood(w, i, w1, c), Kept(w, v),
           v.sending = w.sending, Shrunk(ss)
    PROVE  ViewGood(v, i, ss, c)
<1>1. ASSUME w.cur # None
      PROVE  /\ ss[w.cur].there => w1[w.cur].there
             /\ ss[w.cur].there \/ ss[w.cur].gone
             /\ i = c /\ ss[w.cur].there => ss[w.cur].msgs = w1[w.cur].msgs
             /\ ss[w.cur].there /\ v.sending => ss[w.cur].turn
  <2>1. w.cur \in ViewSessions
    BY <1>1 DEF ViewGood, Views!ViewStates
  <2>2. ss[w.cur] = w1[w.cur] \/ (~ss[w.cur].there /\ ss[w.cur].gone)
    BY <2>1 DEF Shrunk
  <2>3. /\ w1[w.cur].there \/ w1[w.cur].gone
        /\ w1[w.cur].there /\ w.sending => w1[w.cur].turn
    BY <1>1 DEF ViewGood, Views!ViewSound
  <2> QED
    BY <2>2, <2>3
<1> QED
  BY <1>1, KeptGood

\* The list of a view after sessions have been removed.
LEMMA ListedShrunk ==
    ASSUME NEW w, NEW i, NEW ss, ViewGood(w, i, w1, i), Shrunk(ss)
    PROVE  LET v == Views!Listed(w, i, ss) IN
           ViewGood(v, i, ss, i) /\ v.pending = w.pending
<1> DEFINE v == Views!Listed(w, i, ss)
<1>1. Kept(w, w)
  BY KeptSame DEF ViewGood
<1>2. ViewGood(w, i, ss, i)
  BY <1>1, KeptShrunk
<1>3. /\ v \in Views!ViewStates /\ v.cur = w.cur /\ v.bubbles = w.bubbles
      /\ v.sending = w.sending /\ v.pending = w.pending /\ v.apart = w.apart
      /\ v.late = w.late /\ Placed(v, i, ss)
  <2>1. w \in Views!ViewStates
    BY DEF ViewGood
  <2>2. w.cur # None => i \in Views!Participants(w.cur) /\ (ss[w.cur].there \/ ss[w.cur].gone)
    BY <1>2 DEF ViewGood, Views!ViewSound
  <2> QED
    BY <2>1, <2>2, ListedFacts
<1> HIDE DEF v
<1>4. Views!ViewSound(v, i, ss)
  <2>1. v.cur # None => (ss[v.cur].there /\ v.sending => ss[v.cur].turn)
    BY <1>2, <1>3 DEF ViewGood, Views!ViewSound
  <2> QED
    BY <1>3, <2>1, PlacedSound
<1>5. Views!RowSound(v) /\ Views!AllShown(v, ss)
  BY <1>2, <1>3 DEF ViewGood, Views!RowSound, Views!AllShown, Views!Accounted
<1> QED
  BY <1>3, <1>4, <1>5 DEF ViewGood, v

LEMMA ViewsRemove ==
    ASSUME Views!ViewsSound, ViewsAssumption, NEW s \in ViewSessions, Views!RemoveSession(s)
    PROVE  Views!ViewsSound'
<1> DEFINE ss == [w1 EXCEPT ![s] = Views!Removed]
           d(i) == [w2[i] EXCEPT !.dirty = TRUE]
<1>1. /\ SessionsTyped(w1) /\ StatesOf(w1) /\ w4 \in Nat /\ w3 \in OpenedViews
      /\ w2 \in [OpenedViews -> Views!ViewStates]
      /\ \A j \in OpenedViews : ViewGood(w2[j], j, w1, w3)
  BY SoundNow
<1>2. w1' = ss /\ w3' = w3 /\ w4' = w4
  BY DEF Views!RemoveSession
<1>3. /\ w2' = [i \in OpenedViews |-> w2'[i]]
      /\ w2'[w3] = Views!Listed(w2[w3], w3, ss)
      /\ \A i \in OpenedViews \ {w3} : w2'[i] = d(i)
  BY <1>1 DEF Views!RemoveSession
<1>4. Shrunk(ss)
  <2>1. LET y == Views!Removed IN
           y \in Views!SessionStates /\ ~y.there /\ y.gone /\ ~y.turn
    BY <1>1, RemovedFacts DEF SessionsTyped
  <2> QED
    BY <1>1, <2>1 DEF Shrunk, SessionsTyped, StatesOf
<1> HIDE DEF ss
<1>5. ViewGood(w2'[w3], w3, ss, w3)
  BY <1>1, <1>3, <1>4, ListedShrunk
<1>6. ASSUME NEW i \in OpenedViews \ {w3} PROVE ViewGood(w2'[i], i, ss, w3)
  <2>1. w2[i] \in Views!ViewStates
    BY <1>1
  <2>2. Kept(w2[i], d(i)) /\ d(i).sending = w2[i].sending
    BY <2>1, DirtyKept
  <2> HIDE DEF d
  <2>3. ViewGood(d(i), i, ss, w3)
    BY <1>1, <1>4, <2>2, KeptShrunk
  <2> QED
    BY <1>3, <2>3
<1>7. \A i \in OpenedViews : ViewGood(w2'[i], i, w1', w3')
  BY <1>2, <1>5, <1>6
<1>8. SessionsTyped(w1') /\ StatesOf(w1') /\ w3' \in OpenedViews /\ w4' \in Nat
  BY <1>1, <1>2, <1>4 DEF Shrunk
<1>9. w2' = [i \in OpenedViews |-> w2'[i]]
  BY <1>3
<1> QED
  BY <1>7, <1>8, <1>9, GoodViewsNext

LEMMA ViewsDelete ==
    ASSUME Views!ViewsSound, ViewsAssumption, NEW a \in ViewAgents, Views!DeleteAgent(a)
    PROVE  Views!ViewsSound'
<1> DEFINE ss == [s \in ViewSessions |->
                    IF SessionAgent[s] = a THEN Views!Removed ELSE w1[s]]
           next == IF w3 = a THEN user ELSE w3
           r(i) == Views!Reset(w2[i])
           l(i) == Views!Listed(r(i), i, ss)
           d(i) == [w2[i] EXCEPT !.dirty = TRUE]
<1>1. /\ SessionsTyped(w1) /\ StatesOf(w1) /\ w4 \in Nat /\ w3 \in OpenedViews
      /\ w2 \in [OpenedViews -> Views!ViewStates]
      /\ \A j \in OpenedViews : ViewGood(w2[j], j, w1, w3)
      /\ user \in OpenedViews /\ user # a
  BY SoundNow DEF ViewsAssumption
<1>2. w1' = ss /\ w3' = next /\ w4' = w4 /\ next # a /\ next \in OpenedViews
  BY <1>1 DEF Views!DeleteAgent
<1>3. /\ w2' = [i \in OpenedViews |-> w2'[i]]
      /\ \A i \in OpenedViews :
            /\ i = a => w2'[i] = Views!ViewAtStart
            /\ i = next => w2'[i] = Views!Activated(l(i), i, ss)
            /\ i # a /\ i # next => w2'[i] = d(i)
  BY <1>1 DEF Views!DeleteAgent
<1>4. Shrunk(ss)
  <2>1. \A s \in ViewSessions :
           LET y == Views!Removed IN
           y \in Views!SessionStates /\ ~y.there /\ y.gone /\ ~y.turn
    BY <1>1, RemovedFacts DEF SessionsTyped
  <2> QED
    BY <1>1, <2>1 DEF Shrunk, SessionsTyped, StatesOf
<1> HIDE DEF ss
<1>5. ViewGood(w2'[next], next, ss, next)
  <2> DEFINE w == w2[next]
             u == r(next)
             v == l(next)
  <2>1. w \in Views!ViewStates /\ ViewGood(w, next, w1, w3)
    BY <1>1, <1>2
  <2>2. Kept(w, u) /\ u.pending = 0 /\ u.sending = w.sending
    BY <2>1, ResetKept
  <2>3. v = Views!Listed(u, next, ss)
    OBVIOUS
  <2> HIDE DEF u, v, r, l, next
  <2>4. ViewGood(u, next, ss, w3)
    BY <1>4, <2>1, <2>2, KeptShrunk
  <2>5. u \in Views!ViewStates
        /\ (u.cur # None => next \in Views!Participants(u.cur) /\ (ss[u.cur].there \/ ss[u.cur].gone))
    BY <2>4 DEF ViewGood, Views!ViewSound
  <2>6. v \in Views!ViewStates /\ Placed(v, next, ss)
    BY <2>3, <2>5, ListedFacts
  <2>7. ViewGood(Views!Activated(v, next, ss), next, ss, next)
    BY <1>4, <2>6, ActivatedGood DEF Shrunk
  <2> QED
    BY <1>2, <1>3, <2>7 DEF v
<1>6. ASSUME NEW i \in OpenedViews, i # a, i # next PROVE ViewGood(w2'[i], i, ss, next)
  <2>1. w2[i] \in Views!ViewStates /\ ViewGood(w2[i], i, w1, w3) /\ i # w3
    BY <1>1, <1>6
  <2>2. Kept(w2[i], d(i)) /\ d(i).sending = w2[i].sending
    BY <2>1, DirtyKept
  <2> HIDE DEF d, next
  <2>3. ViewGood(d(i), i, ss, w3) /\ d(i).pending = 0
    BY <1>4, <2>1, <2>2, KeptShrunk DEF ViewGood
  <2>4. ViewGood(d(i), i, ss, next)
    BY <1>6, <2>3, OtherActive
  <2> QED
    BY <1>3, <1>6, <2>4
<1> HIDE DEF next, l, d
<1>7. \A i \in OpenedViews : ViewGood(w2'[i], i, w1', w3')
  BY <1>2, <1>3, <1>5, <1>6, StartGood
<1>8. SessionsTyped(w1') /\ StatesOf(w1') /\ w3' \in OpenedViews /\ w4' \in Nat
  BY <1>1, <1>2, <1>4 DEF Shrunk
<1>9. w2' = [i \in OpenedViews |-> w2'[i]]
  BY <1>3
<1> QED
  BY <1>7, <1>8, <1>9, GoodViewsNext

\* What the user types is shown.
LEMMA TypedFacts ==
    ASSUME NEW w \in Views!ViewStates, NEW m \in Int
    PROVE  LET v == Views!Sending(Views!Added([w EXCEPT !.sending = TRUE], <<m>>), FALSE) IN
           Kept(w, v) /\ ~v.sending /\ Views!Begins(m, v.bubbles)
<1> DEFINE x == [w EXCEPT !.sending = TRUE]
           u == Views!Added(x, <<m>>)
           v == Views!Sending(u, FALSE)
<1>1. /\ x \in Views!ViewStates /\ x.pending = w.pending /\ x.cur = w.cur /\ x.list = w.list
      /\ x.apart = w.apart /\ x.late = w.late /\ x.bubbles = w.bubbles
  BY DEF Views!ViewStates
<1>2. w.bubbles \in Bubbles /\ <<m>> \in Seq(Int)
  BY DEF Views!ViewStates, Bubbles
<1>3. Kept(w, x)
  BY <1>1, <1>2, GrownSame DEF Kept
<1> HIDE DEF x
<1>4. Kept(x, u) /\ u.bubbles = Append(w.bubbles, <<m>>)
  BY <1>1, <1>2, AddedKept
<1> HIDE DEF u
<1>5. u \in Views!ViewStates /\ Views!Begins(m, u.bubbles)
  BY <1>2, <1>4, BeginsAppend DEF Kept
<1>6. Kept(u, v) /\ ~v.sending
  BY <1>5, SendingKept
<1>7. Views!Begins(m, v.bubbles)
  BY <1>5, <1>6, GrownBegins DEF Kept
<1>8. Kept(w, v)
  BY <1>3, <1>4, <1>6, KeptTwice
<1> QED
  BY <1>6, <1>7, <1>8 DEF x, u

LEMMA ViewsSend ==
    ASSUME Views!ViewsSound, ViewsAssumption, NEW s \in ViewSessions, NEW merged \in BOOLEAN,
           Views!Send(s, merged)
    PROVE  Views!ViewsSound'
<1> DEFINE m == w4 + 1
           typed == Views!Sending(Views!Added([w2[user] EXCEPT !.sending = TRUE], <<m>>), FALSE)
           full == ~merged /\ w1[s].queued >= MaxQueued
           begun == ~merged /\ ~w1[s].turn
           x == CASE full   -> w1[s]
                  [] merged -> Views!Posts(w1[s], m)
                  [] OTHER  -> Views!Taken(w1[s], m)
           ss == [w1 EXCEPT ![s] = x]
           t(i) == IF i = user THEN typed ELSE w2[i]
           f(i) == IF full THEN Views!Failed(t(i), i, s, ss)
                   ELSE IF begun THEN Views!Started(t(i), ss) ELSE t(i)
<1>1. /\ SessionsTyped(w1) /\ StatesOf(w1) /\ w4 \in Nat
      /\ w2 \in [OpenedViews -> Views!ViewStates]
      /\ \A j \in OpenedViews : ViewGood(w2[j], j, w1, w3)
      /\ user \in OpenedViews /\ s # None
  BY SoundNow DEF ViewsAssumption
<1>2. /\ w3' = w3 /\ w4' = w4 + 1 /\ w3 = user /\ w2[user].cur = s /\ w1[s].there
      /\ w1' = ss
      /\ w2' = [i \in OpenedViews |->
                  IF i \notin Views!Participants(s) THEN t(i) ELSE f(i)]
  BY DEF Views!Send, Views!ViewsOf
<1>3. m \in Int \ {0} /\ m \in Int /\ w1[s] \in Views!SessionStates
  BY <1>1 DEF SessionsTyped
<1> HIDE DEF m
<1>4. /\ x \in Views!SessionStates /\ x.there = w1[s].there /\ x.gone = w1[s].gone
      /\ w1[s].turn => x.turn
      /\ \/ x.msgs = w1[s].msgs
         \/ w1[s].msgs \in Messages /\ x.msgs = Append(w1[s].msgs, m)
  <2>1. CASE full
    <3>1. x = w1[s]
      BY <2>1
    <3> QED
      BY <1>3, <3>1
  <2>2. CASE ~full /\ merged
    <3>1. x = Views!Posts(w1[s], m)
      BY <2>2
    <3> HIDE DEF x
    <3> QED
      BY <1>3, <3>1, PostsFacts
  <2>3. CASE ~full /\ ~merged
    <3>1. x = Views!Taken(w1[s], m)
      BY <2>3
    <3> HIDE DEF x
    <3> QED
      BY <1>3, <3>1, TakenFacts
  <2> QED
    BY <2>1, <2>2, <2>3
<1> HIDE DEF x
<1>5. SessionsTyped(ss)
  BY <1>1, <1>4 DEF SessionsTyped
<1>6. ASSUME NEW i \in OpenedViews PROVE ViewGood(f(i), i, ss, w3)
  <2> DEFINE w == w2[i]
             u == t(i)
             v == f(i)
  <2>1. w \in Views!ViewStates /\ ViewGood(w, i, w1, w3)
    BY <1>1
  <2>2. /\ Kept(w, u)
        /\ i = user => ~u.sending /\ Views!Begins(m, u.bubbles)
        /\ i # user => u = w
    <3>1. CASE i = user
      <4>1. u = typed
        BY <3>1
      <4> QED
        BY <1>3, <2>1, <3>1, <4>1, TypedFacts
    <3>2. CASE i # user
      BY <2>1, <3>2, KeptSame
    <3> QED
      BY <3>1, <3>2
  <2>3. u \in Views!ViewStates /\ u.cur = w.cur
    BY <2>2 DEF Kept
  <2>4. v = IF full THEN Views!Failed(u, i, s, ss)
            ELSE IF begun THEN Views!Started(u, ss) ELSE u
    OBVIOUS
  <2> HIDE DEF u, t, typed, v, f, full, begun
  <2>5. /\ Kept(u, v)
        /\ v.sending = Views!Streaming(ss, w.cur) \/ v.sending = u.sending
    <3>1. CASE full
      <4>1. v = Views!Failed(u, i, s, ss)
        BY <2>4, <3>1
      <4> HIDE DEF ss
      <4> QED
        BY <1>5, <2>3, <4>1, FailedKept
    <3>2. CASE ~full /\ begun
      <4>1. v = Views!Updated(u, ss)
        BY <2>4, <3>2 DEF Views!Started
      <4> HIDE DEF ss
      <4> QED
        BY <1>5, <2>3, <4>1, UpdatedKept
    <3>3. CASE ~full /\ ~begun
      <4>1. v = u
        BY <2>4, <3>3
      <4> QED
        BY <2>3, <4>1, KeptSame
    <3> QED
      BY <3>1, <3>2, <3>3
  <2>6. Kept(w, v)
    BY <2>2, <2>5, KeptTwice
  <2>7. \/ v.sending = Views!Streaming(ss, w.cur)
        \/ ~v.sending
        \/ v.sending = w.sending /\ (w.cur = s => (w1[s].turn => x.turn))
    BY <1>4, <2>2, <2>5
  <2>8. i = w3 /\ w.cur = s => x.msgs = w1[s].msgs \/ Told(w1[s].msgs, x.msgs, v)
    <3>1. i = w3 => Views!Begins(m, v.bubbles)
      BY <1>2, <2>2, <2>5, GrownBegins DEF Kept
    <3> QED
      BY <1>3, <1>4, <3>1, ToldAppend
  <2>9. ViewGood(v, i, ss, w3)
    BY <1>1, <1>4, <2>1, <2>6, <2>7, <2>8, KeptOne
  <2> QED
    BY <2>9 DEF v
<1>7. ASSUME NEW i \in OpenedViews
      PROVE  w2'[i] = IF i \in Views!Participants(s) THEN f(i) ELSE w2[i]
  <2>1. user \in Views!Participants(s)
    BY DEF Views!Participants
  <2> HIDE DEF f, typed
  <2> QED
    BY <1>2, <2>1
<1> HIDE DEF f, t
<1>8. \A i \in OpenedViews :
         IF i \in Views!Participants(s) THEN ViewGood(w2'[i], i, w1', w3) ELSE w2'[i] = w2[i]
  BY <1>2, <1>6, <1>7
<1>9. /\ w2' = [i \in OpenedViews |-> w2'[i]] /\ w1' = [w1 EXCEPT ![s] = x]
      /\ w3' = w3 /\ w4' \in Nat
  BY <1>1, <1>2
<1>10. x.turn => x.there
  BY <1>2, <1>4
<1> HIDE DEF ss
<1> QED
  BY <1>4, <1>8, <1>9, <1>10, OneSession

LEMMA ViewsAbort ==
    ASSUME Views!ViewsSound, ViewsAssumption, Views!Abort
    PROVE  Views!ViewsSound'
<1> DEFINE s == w2[user].cur
           o == [w1[s] EXCEPT !.turn = FALSE, !.buffer = 0]
           cleared == [w1 EXCEPT ![s] = o]
           x == Views!NextTurn(o)
           ss == [w1 EXCEPT ![s] = x]
           c(i) == Views!Finished(w2[i], i, s, 0, cleared)
           after(i) == IF ss[s].turn THEN Views!Started(c(i), ss) ELSE c(i)
           last == Views!Updated(Views!Added(after(user), <<-1>>), ss)
<1>1. /\ SessionsTyped(w1) /\ StatesOf(w1) /\ w4 \in Nat
      /\ w2 \in [OpenedViews -> Views!ViewStates]
      /\ \A j \in OpenedViews : ViewGood(w2[j], j, w1, w3)
      /\ user \in OpenedViews /\ user \notin ViewAgents
  BY SoundNow DEF ViewsAssumption
<1>2. /\ w3' = w3 /\ w4' = w4 /\ w3 = user /\ s # None /\ w1[s].there /\ w1[s].turn
  BY DEF Views!Abort, Views!Streaming
<1>3. s \in ViewSessions
  BY <1>1, <1>2 DEF Views!ViewStates
<1>4. /\ o \in Views!SessionStates /\ o.there = w1[s].there /\ o.gone = w1[s].gone
      /\ o.msgs = w1[s].msgs /\ ~o.turn
  BY <1>1, <1>3 DEF SessionsTyped, Views!SessionStates
<1>5. /\ x \in Views!SessionStates /\ x.there = w1[s].there /\ x.gone = w1[s].gone
      /\ x.msgs = w1[s].msgs
  <2> HIDE DEF o
  <2> QED
    BY <1>4, NextTurnFacts
<1>6. /\ cleared[s] = o /\ [cleared EXCEPT ![s] = Views!NextTurn(@)] = ss
      /\ SessionsTyped(cleared) /\ SessionsTyped(ss) /\ ss[s] = x
      /\ \A r \in ViewSessions \ {s} : ss[r] = w1[r] /\ cleared[r] = w1[r]
  <2> HIDE DEF o
  <2>1. cleared[s] = o /\ \A r \in ViewSessions \ {s} : cleared[r] = w1[r]
    BY <1>1, <1>3 DEF SessionsTyped
  <2>2. [cleared EXCEPT ![s] = Views!NextTurn(@)] = ss
    <3>1. [cleared EXCEPT ![s] = Views!NextTurn(@)] = [cleared EXCEPT ![s] = x]
      BY <2>1
    <3> HIDE DEF x
    <3> QED
      BY <1>1, <1>3, <3>1 DEF SessionsTyped
  <2> HIDE DEF x
  <2>3. SessionsTyped(cleared) /\ SessionsTyped(ss) /\ ss[s] = x /\ \A r \in ViewSessions \ {s} : ss[r] = w1[r]
    BY <1>1, <1>3, <1>4, <1>5 DEF SessionsTyped
  <2> QED
    BY <2>1, <2>2, <2>3
<1>7. /\ w1' = ss
      /\ w2' = [i \in OpenedViews |-> w2'[i]]
      /\ w2'[user] = last
      /\ \A i \in OpenedViews \ {user} :
            w2'[i] = IF i = SessionAgent[s] THEN after(i) ELSE w2[i]
  <2> DEFINE tt == [cleared EXCEPT ![s] = Views!NextTurn(@)]
             then(i) == IF tt[s].turn THEN Views!Started(c(i), tt) ELSE c(i)
             end(i) == Views!Updated(Views!Added(then(i), <<-1>>), tt)
  <2>1. /\ w1' = tt
        /\ w2' = [i \in OpenedViews |->
                 CASE i = user -> end(i)
                   [] i = SessionAgent[s] -> then(i)
                   [] OTHER -> w2[i]]
    BY DEF Views!Abort, Views!Notice
  <2>2. tt = ss
    BY <1>6
  <2> HIDE DEF tt, ss, c
  <2>3. last = end(user) /\ \A i : after(i) = then(i)
    BY <2>2
  <2> HIDE DEF end, then, last, after
  <2>6. user \in OpenedViews
    BY <1>1
  <2>8. user # SessionAgent[s]
    BY <1>3 DEF ViewsAssumption
  <2>7. \A i \in OpenedViews : i = user => w2'[i] = end(i)
    BY <2>1, <2>8
  <2>4. w2'[user] = end(user)
    BY <2>6, <2>7
  <2>5. \A i \in OpenedViews \ {user} :
            w2'[i] = IF i = SessionAgent[s] THEN then(i) ELSE w2[i]
    BY <2>1
  <2> QED
    BY <2>1, <2>2, <2>3, <2>4, <2>5
<1> HIDE DEF x, o, cleared, ss
<1>8. ASSUME NEW i \in OpenedViews
      PROVE  /\ after(i) \in Views!ViewStates /\ after(i).cur = w2[i].cur /\ after(i).list = w2[i].list
             /\ after(i).apart = w2[i].apart
             /\ i # user => after(i).pending = 0
             /\ \/ after(i).sending = Views!Streaming(ss, w2[i].cur)
                \/ after(i).sending = w2[i].sending /\ w2[i].cur # s
             /\ i = user => Views!RowSound(after(i)) /\ Views!AllShown(after(i), ss)
  <2> DEFINE w == w2[i]
             d == c(i)
             v == after(i)
  <2>1. w \in Views!ViewStates /\ ViewGood(w, i, w1, w3)
    BY <1>1
  <2>2. Views!Shows(w, i, s) => Views!RowSound(w)
    BY <2>1 DEF Views!Shows, ViewGood
  <2>3. /\ d \in Views!ViewStates /\ d.cur = w.cur /\ d.list = w.list /\ d.apart = w.apart
        /\ w.late \subseteq d.late
        /\ d.pending = w.pending \/ d.pending = 0
        /\ IF s \in w.list THEN d.pending = 0 /\ d.sending = Views!Streaming(cleared, w.cur)
           ELSE d = w
        /\ ~w.apart => \A m \in Int \ {0} : Views!Begins(m, w.bubbles) => Views!Begins(m, d.bubbles)
    BY <1>6, <2>1, <2>2, FinishedFacts
  <2>4. v = IF ss[s].turn THEN Views!Updated(d, ss) ELSE d
    BY DEF Views!Started
  <2> HIDE DEF d, v, c, after
  <2>5. /\ Kept(d, v)
        /\ IF ss[s].turn THEN v.sending = Views!Streaming(ss, w.cur) ELSE v = d
    <3>1. CASE ss[s].turn
      BY <1>6, <2>3, <2>4, <3>1, UpdatedKept
    <3>2. CASE ~ss[s].turn
      BY <2>3, <2>4, <3>2, KeptSame
    <3> QED
      BY <3>1, <3>2
  <2>6. v \in Views!ViewStates /\ v.cur = w.cur /\ v.list = w.list /\ v.apart = w.apart
    BY <2>3, <2>5 DEF Kept
  <2>7. i # user => v.pending = 0
    BY <1>2, <2>1, <2>3, <2>5 DEF Kept, ViewGood
  <2>8. s \notin w.list => w.cur # s
    BY <1>2, <2>1, InList
  <2>9. \/ v.sending = Views!Streaming(ss, w.cur)
        \/ v.sending = w.sending /\ w.cur # s
    <3>1. CASE ss[s].turn
      BY <2>5, <3>1
    <3>2. CASE ~ss[s].turn /\ s \notin w.list
      BY <2>3, <2>5, <2>8, <3>2
    <3>3. CASE ~ss[s].turn /\ s \in w.list
      <4>1. v.sending = Views!Streaming(cleared, w.cur)
        BY <2>3, <2>5, <3>3
      <4>2. Views!Streaming(cleared, w.cur) = Views!Streaming(ss, w.cur)
        <5>1. CASE w.cur = None
          BY <5>1 DEF Views!Streaming
        <5>2. CASE w.cur = s
          BY <1>4, <1>6, <3>3, <5>2 DEF Views!Streaming
        <5>3. CASE w.cur # None /\ w.cur # s
          <6>1. w.cur \in ViewSessions \ {s}
            BY <2>1, <5>3 DEF Views!ViewStates
          <6> QED
            BY <1>6, <6>1 DEF Views!Streaming
        <5> QED
          BY <5>1, <5>2, <5>3
      <4> QED
        BY <4>1, <4>2
    <3> QED
      BY <3>1, <3>2, <3>3
  <2>10. ASSUME i = user PROVE Views!RowSound(v) /\ Views!AllShown(v, ss)
    <3>1. w.cur = s /\ s \in w.list /\ d.pending = 0
      BY <2>3, <2>8, <2>10
    <3>2. Views!RowSound(v)
      BY <2>5, <3>1 DEF Kept, Views!RowSound
    <3>3. Views!AllShown(d, ss)
      <4>1. Views!AllShown(w, w1)
        BY <1>2, <2>1, <2>10 DEF ViewGood
      <4>2. ss[w.cur].msgs = w1[w.cur].msgs /\ w1[w.cur].there
        BY <1>2, <1>5, <1>6, <3>1
      <4>3. ASSUME NEW k \in DOMAIN w1[w.cur].msgs PROVE w1[w.cur].msgs[k] \in Int \ {0}
        <5>1. x.msgs \in Seq(Int \ {0}) /\ w1[w.cur].msgs = x.msgs
          BY <1>5, <3>1 DEF Views!SessionStates
        <5> QED
          BY <5>1, LenProperties, ElementOfSeq
      <4>4. Views!Earlier \in Int \ {0}
        BY DEF Views!Earlier
      <4> QED
        BY <2>3, <4>1, <4>2, <4>3, <4>4, ToldSame, ShownTold
    <3> QED
      BY <2>5, <3>2, <3>3, KeptShown
  <2> QED
    BY <2>6, <2>7, <2>9, <2>10 DEF v
<1> HIDE DEF after, c
<1>9. ASSUME NEW i \in OpenedViews, NEW u \in Views!ViewStates, u.cur = w2[i].cur, u.list = w2[i].list,
             \/ u.sending = Views!Streaming(ss, w2[i].cur)
             \/ u.sending = w2[i].sending /\ w2[i].cur # s
      PROVE  Views!ViewSound(u, i, ss)
  <2> DEFINE w == w2[i]
  <2>1. w \in Views!ViewStates /\ ViewGood(w, i, w1, w3)
    BY <1>1
  <2>2. ASSUME w.cur # None
        PROVE  /\ ss[w.cur].there = w1[w.cur].there /\ ss[w.cur].gone = w1[w.cur].gone
               /\ w.cur # s => ss[w.cur].turn = w1[w.cur].turn
    <3>1. w.cur \in ViewSessions
      BY <2>1, <2>2 DEF Views!ViewStates
    <3> QED
      BY <1>5, <1>6, <3>1
  <2>3. Placed(u, i, ss)
    BY <1>9, <2>1, <2>2 DEF Placed, ViewGood, Views!ViewSound
  <2>4. u.cur # None => (ss[u.cur].there /\ u.sending => ss[u.cur].turn)
    <3>1. CASE u.sending = Views!Streaming(ss, w.cur)
      BY <1>9, <3>1 DEF Views!Streaming
    <3>2. CASE u.sending = w.sending /\ w.cur # s
      BY <1>9, <2>1, <2>2, <3>2 DEF ViewGood, Views!ViewSound
    <3> QED
      BY <1>9, <3>1, <3>2
  <2> QED
    BY <2>3, <2>4, PlacedSound
<1>10. ViewGood(last, user, ss, w3)
  <2> DEFINE a == after(user)
             b == Views!Added(a, <<-1>>)
  <2>1. /\ a \in Views!ViewStates /\ a.cur = s /\ a.list = w2[user].list
        /\ Views!RowSound(a) /\ Views!AllShown(a, ss)
    BY <1>1, <1>8
  <2>2. last = Views!Updated(b, ss)
    OBVIOUS
  <2> HIDE DEF a, last
  <2>12. <<-1>> \in Seq(Int)
    OBVIOUS
  <2>13. a \in Views!ViewStates
    BY <2>1
  <2>3. Kept(a, b)
    BY <2>12, <2>13, AddedKept
  <2>4. b \in Views!ViewStates /\ b.cur = s
    BY <2>1, <2>3 DEF Kept
  <2> HIDE DEF b
  <2>5. Kept(b, last) /\ last.sending = Views!Streaming(ss, s)
    BY <1>6, <2>2, <2>4, UpdatedKept
  <2>8. Kept(a, last)
    BY <2>3, <2>5, KeptTwice
  <2>9. Views!RowSound(last) /\ Views!AllShown(last, ss)
    BY <2>1, <2>8, KeptRow, KeptShown
  <2>10. last \in Views!ViewStates /\ last.cur = s /\ last.list = w2[user].list
    BY <2>1, <2>8 DEF Kept
  <2>11. Views!ViewSound(last, user, ss)
    BY <1>1, <1>9, <2>5, <2>10
  <2> QED
    BY <1>2, <2>9, <2>10, <2>11 DEF ViewGood
<1>11. ASSUME NEW i \in OpenedViews \ {user}
       PROVE  IF i \in Views!Participants(s) THEN ViewGood(w2'[i], i, ss, w3) ELSE w2'[i] = w2[i]
  <2>1. CASE i = SessionAgent[s]
    <3>1. w2'[i] = after(i)
      BY <1>7, <2>1
    <3>2. Views!ViewSound(after(i), i, ss)
      BY <1>8, <1>9
    <3>3. ViewGood(after(i), i, ss, w3)
      BY <1>2, <1>8, <3>2 DEF ViewGood
    <3> QED
      BY <2>1, <3>1, <3>3 DEF Views!Participants
  <2>2. CASE i # SessionAgent[s]
    BY <1>7, <2>2 DEF Views!Participants
  <2> QED
    BY <2>1, <2>2
<1> HIDE DEF last
<1>12. \A i \in OpenedViews :
         IF i \in Views!Participants(s) THEN ViewGood(w2'[i], i, w1', w3) ELSE w2'[i] = w2[i]
  <2>1. user \in Views!Participants(s)
    BY DEF Views!Participants
  <2> QED
    BY <1>7, <1>10, <1>11, <2>1
<1>13. /\ w2' = [i \in OpenedViews |-> w2'[i]] /\ w1' = [w1 EXCEPT ![s] = x]
       /\ w3' = w3 /\ w4' \in Nat
  BY <1>1, <1>2, <1>7 DEF ss
<1>14. x.turn => x.there
  BY <1>2, <1>5
<1> HIDE DEF s
<1> QED
  BY <1>3, <1>5, <1>12, <1>13, <1>14, OneSession

LEMMA ViewsStep ==
    ASSUME Views!ViewsSound, ViewsAssumption, Views!Next
    PROVE  Views!ViewsSound'
<1>1. ASSUME NEW s \in ViewSessions,
             \/ Views!Select(s) \/ Views!CreateSession(s) \/ Views!RemoveSession(s)
             \/ Views!StreamDelta(s) \/ Views!ToolCalls(s) \/ Views!TurnFailed(s)
             \/ Views!TurnRecovered(s) \/ Views!Reminder(s) \/ Views!DelegateSettled(s)
             \/ Views!ToolEvent(s) \/ Views!FileSent(s)
      PROVE  Views!ViewsSound'
  BY <1>1, ViewsSelect, ViewsCreate, ViewsRemove, ViewsDelta, ViewsToolCalls, ViewsFailed,
     ViewsRecovered, ViewsReminder, ViewsSettled, ViewsFileSent
<1>2. ASSUME NEW s \in ViewSessions, NEW b \in BOOLEAN,
             \/ Views!Send(s, b) \/ Views!TurnFinished(s, b)
             \/ Views!TeammateReplied(s, b) \/ Views!MemoryNotice(s, b)
      PROVE  Views!ViewsSound'
  BY <1>2, ViewsSend, ViewsFinished, ViewsReplied, ViewsMemoryNotice
<1>6. ASSUME NEW s \in ViewSessions, NEW m \in {w4 + 1, Views!Hidden, Views!Blank},
             Views!Inject(s, m)
      PROVE  Views!ViewsSound'
  BY <1>6, ViewsInject
<1>3. ASSUME NEW i \in OpenedViews, Views!SwitchIdentity(i) \/ Views!Flush(i)
      PROVE  Views!ViewsSound'
  BY <1>3, ViewsIdentity, ViewsFlush
<1>4. CASE Views!Abort
  BY <1>4, ViewsAbort
<1>5. ASSUME NEW a \in ViewAgents, Views!DeleteAgent(a) PROVE Views!ViewsSound'
  BY <1>5, ViewsDelete
<1> QED
  BY <1>1, <1>2, <1>3, <1>4, <1>5, <1>6 DEF Views!Next

LEMMA ViewsFacts ==
    ASSUME Views!ViewsSound
    PROVE  Views!TypeOK /\ Views!NoStuckSending /\ Views!MessagesShown
<1>1. Views!TypeOK
  BY DEF Views!ViewsSound, Views!TypeOK, Views!ViewStates
<1>2. Views!NoStuckSending
  BY DEF Views!ViewsSound, Views!NoStuckSending, Views!Selected, Views!ViewSound
<1>3. Views!MessagesShown
  BY DEF Views!ViewsSound, Views!MessagesShown, Views!Selected, Views!AllShown
<1> QED
  BY <1>1, <1>2, <1>3

LEMMA ViewsStopped ==
    ASSUME Views!ViewsSound, UNCHANGED <<w1, w2, w3, w4>>
    PROVE  Views!ViewsSound'
BY DEF Views!ViewsSound, Views!RowSound, Views!AllShown

\* For every set of sessions, agents and opened views and every limit on what a view is
\* filled with, whatever the turns of the sessions do and whoever ends them: no view waits
\* for a reply that no turn will bring, and the active view accounts for every message of
\* its session (a bubble shows it, or it is not for the chat or has nothing to show, or it
\* is older than the last ones and a notice says so, or it was posted without the view being
\* told), unless the view was filled anew while a reply was streamed into it.
THEOREM RecordsViews ==
    RecordsSpec => []ViewsTrue
<1> DEFINE Inv == part = "views" => Views!ViewsSound
<1>1. (part \in RecordNames => RecordsInit) => Inv
  <2> SUFFICES ASSUME part \in RecordNames => RecordsInit PROVE Inv
    OBVIOUS
  <2>1. part = "views" => Views!Init
    BY DEF RecordsInit, RecordNames
  <2> QED
    BY <2>1, RecordsAssumption, ViewsInit
<1>2. Inv /\ [Step]_parts => Inv'
  <2> SUFFICES ASSUME Inv, [Step]_parts PROVE Inv'
    OBVIOUS
  <2>1. CASE Step
    <3>1. part' = part /\ (part = "views" => Views!Next)
      BY <2>1 DEF Step, RecordsNext, RecordNames
    <3> QED
      BY <3>1, RecordsAssumption, ViewsStep
  <2>2. CASE UNCHANGED parts
    <3>1. part' = part /\ UNCHANGED <<w1, w2, w3, w4>>
      BY <2>2 DEF parts
    <3> QED
      BY <3>1, ViewsStopped
  <2> QED
    BY <2>1, <2>2
<1>3. Inv => ViewsTrue
  BY ViewsFacts DEF ViewsTrue
<1> QED
  BY <1>1, <1>2, <1>3, PTL DEF RecordsSpec, Step

-----------------------------------------------------------------------------
(* What a session remembers of its task (SessionContext).  Here row, file, *)
(* cache, loaded and told are w1 to w5, queue, active and turns w6 to w8,  *)
(* snapshot w10, given w13, done w14, stale w15, removed w17, ending w18.  *)

\* A patch that leaves a sound state: one that tells the end of a task removes what the
\* task waited for, and its error.
GoodPatch(P) ==
    /\ DOMAIN P \subseteq Context!Keys /\ "state" \in DOMAIN P
    /\ P["state"] \in Context!States
    /\ "summary" \in DOMAIN P => P["summary"] \in Context!Summaries
    /\ P["state"] = "done" =>
          /\ "waiting" \in DOMAIN P /\ P["waiting"] = None
          /\ "error" \in DOMAIN P /\ P["error"] = None

LEMMA NoStateSound ==
    Context!TaskSound(Context!NoState) /\ DOMAIN Context!NoState = {}
<1>1. DOMAIN Context!NoState = {}
  BY DEF Context!NoState
<1> QED
  BY <1>1 DEF Context!TaskSound, Context!IsTask

LEMMA MergedSound ==
    ASSUME NEW s, NEW P, Context!TaskSound(s), GoodPatch(P), ContextAssumption
    PROVE  Context!TaskSound(Context!Merged(s, P)) /\ Context!Merged(s, P) # Context!NoState
<1> DEFINE gone == {k \in DOMAIN P : P[k] = None}
           D == (DOMAIN s \cup DOMAIN P) \ gone
           m == [k \in D |-> IF k \in DOMAIN P THEN P[k] ELSE s[k]]
<1>1. Context!Merged(s, P) = m
  BY DEF Context!Merged
<1>2. DOMAIN m = D /\ \A k \in D : m[k] = IF k \in DOMAIN P THEN P[k] ELSE s[k]
  OBVIOUS
<1>3. "state" \in D /\ P["state"] \in Context!States
  BY DEF GoodPatch, ContextAssumption
<1>4. D \subseteq Context!Keys
  BY DEF GoodPatch, Context!TaskSound, Context!IsTask
<1>5. "summary" \in D => m["summary"] \in Context!Summaries
  BY <1>2 DEF GoodPatch, Context!TaskSound
<1>6. m["state"] = P["state"]
  BY <1>2, <1>3 DEF GoodPatch
<1>7. P["state"] = "done" => {"waiting", "error"} \cap D = {}
  BY DEF GoodPatch
<1> HIDE DEF m, D
<1>8. m # Context!NoState
  BY <1>2, <1>3, NoStateSound
<1> QED
  BY <1>1, <1>2, <1>3, <1>4, <1>5, <1>6, <1>7, <1>8 DEF Context!TaskSound, Context!IsTask

LEMMA PlainPatch ==
    ASSUME NEW state \in Context!States \ {"done"}, NEW t, NEW x \in Context!Summaries
    PROVE  GoodPatch(Context!Patch(state, t, x))
BY DEF GoodPatch, Context!Patch, Context!Keys

LEMMA WithFacts ==
    ASSUME NEW f, NEW g
    PROVE  LET w == Context!With(f, g) IN
           /\ DOMAIN w = DOMAIN f \cup DOMAIN g
           /\ \A k \in DOMAIN f : w[k] = f[k]
           /\ \A k \in DOMAIN g \ DOMAIN f : w[k] = g[k]
BY DEF Context!With

LEMMA EndPatch ==
    ASSUME NEW state \in Context!States, NEW t, NEW x \in Context!Summaries
    PROVE  GoodPatch(Context!With(Context!Patch(state, t, x), Context!Ended))
<1> DEFINE f == Context!Patch(state, t, x)
           g == Context!Ended
           w == Context!With(f, g)
<1>1. /\ DOMAIN f = {"state", "turn", "summary"} /\ f["state"] = state /\ f["summary"] = x
      /\ DOMAIN g = {"waiting", "error"} /\ g["waiting"] = None /\ g["error"] = None
  BY DEF Context!Patch, Context!Ended
<1> HIDE DEF f, g
<1>2. /\ DOMAIN w = DOMAIN f \cup DOMAIN g /\ \A k \in DOMAIN f : w[k] = f[k]
      /\ \A k \in DOMAIN g \ DOMAIN f : w[k] = g[k]
  BY WithFacts
<1> HIDE DEF w
<1> QED
  BY <1>1, <1>2 DEF GoodPatch, Context!Keys, f, w, g

LEMMA OtherPatch ==
    ASSUME NEW state \in Context!States \ {"done"}, NEW t, NEW x \in Context!Summaries, NEW g,
           DOMAIN g \subseteq {"waiting", "error"}
    PROVE  GoodPatch(Context!With(Context!Patch(state, t, x), g))
<1> DEFINE f == Context!Patch(state, t, x)
           w == Context!With(f, g)
<1>1. DOMAIN f = {"state", "turn", "summary"} /\ f["state"] = state /\ f["summary"] = x
  BY DEF Context!Patch
<1> HIDE DEF f
<1>2. DOMAIN w = DOMAIN f \cup DOMAIN g /\ \A k \in DOMAIN f : w[k] = f[k]
  BY WithFacts
<1> HIDE DEF w
<1> QED
  BY <1>1, <1>2 DEF GoodPatch, Context!Keys, f, w

LEMMA SettledPatch ==
    ASSUME NEW b \in BOOLEAN, NEW x \in Context!Summaries
    PROVE  GoodPatch([state |-> IF b THEN "done" ELSE "failed", summary |-> x, waiting |-> None,
                      error |-> IF b THEN None ELSE "failed"])
BY DEF GoodPatch, Context!Keys, Context!States

\* What a process loads is what was told, and storing it changes nothing.
LEMMA LoadFacts ==
    ASSUME Context!TasksSound, ContextAssumption, ~w17, NEW p \in Writers, NEW F, "read" \notin F
    PROVE  LET r == Context!RowAfterLoad(p, F) IN
           /\ Context!Load(p, F) = w5
           /\ Context!TaskSound(r)
           /\ (IF r # Context!NoState THEN r ELSE Context!FromFile(w2)) = w5
<1> DEFINE f == Context!FromFile(w2)
<1>1. /\ Context!TaskSound(w1) /\ Context!TaskSound(w5)
      /\ w4[p] \in BOOLEAN /\ (w4[p] => w3[p] = w5)
      /\ (IF w1 # Context!NoState THEN w1 ELSE f) = w5
  BY DEF Context!TasksSound, Context!TaskKept, Context!Stored
<1>2. Context!TaskSound(f)
  <2>1. CASE w2 \in {Absent, Bad}
    BY <2>1, NoStateSound DEF Context!FromFile
  <2>2. CASE w2 \notin {Absent, Bad}
    BY <2>2 DEF Context!FromFile, Context!TasksSound, ContextAssumption
  <2> QED
    BY <2>1, <2>2
<1>3. Context!Load(p, F) = IF w4[p] THEN w3[p] ELSE IF w1 # Context!NoState THEN w1 ELSE f
  BY <1>1 DEF Context!Load
<1>4. Context!RowAfterLoad(p, F) =
        IF w4[p] \/ w1 # Context!NoState \/ "write" \in F \/ f = Context!NoState THEN w1 ELSE f
  BY DEF Context!RowAfterLoad
<1> HIDE DEF f
<1> QED
  BY <1>1, <1>2, <1>3, <1>4 DEF f

\* The states that are kept when process p has told the states x of the row and s.
LEMMA TasksKept ==
    ASSUME Context!TasksSound, NEW p, Writers = {p}, NEW x, NEW s,
           Context!TaskSound(x), Context!TaskSound(s),
           w1' = x, w2' = w2, w3' = [w3 EXCEPT ![p] = s], w4' = [w4 EXCEPT ![p] = TRUE], w5' = s,
           (IF x # Context!NoState THEN x ELSE Context!FromFile(w2)) = s
    PROVE  Context!TasksSound'
<1>1. /\ w3' = [q \in Writers |-> w3'[q]] /\ w3'[p] = s
      /\ w4' \in [Writers -> BOOLEAN] /\ w4'[p]
  BY DEF Context!TasksSound
<1>2. Context!TaskKept'
  BY <1>1 DEF Context!TaskKept, Context!Stored, Context!FromFile
<1>3. Context!TaskSound(w1') /\ Context!TaskSound(w5') /\ Context!TaskSound(w3'[p])
  BY <1>1
<1>4. w2' \in ({Absent, Bad} \cup FormerTasks) \cup {Absent}
  BY DEF Context!TasksSound
<1> QED
  BY <1>1, <1>2, <1>3, <1>4 DEF Context!TasksSound, Context!TaskSound, Context!IsTask, Context!Summaries

LEMMA UpdateSound ==
    ASSUME Context!TasksSound, ContextAssumption, ~w17, NEW p, Writers = {p}, NEW F, "read" \notin F,
           NEW P, GoodPatch(P), Context!Update(p, P, F)
    PROVE  Context!TasksSound'
<1> DEFINE l == Context!Load(p, F)
           r == Context!RowAfterLoad(p, F)
           m == Context!Merged(l, P)
           n == Context!Merged(w5, P)
<1>1. /\ l = w5 /\ Context!TaskSound(r) /\ Context!TaskSound(w5)
      /\ (IF r # Context!NoState THEN r ELSE Context!FromFile(w2)) = w5
  BY LoadFacts DEF Context!TasksSound
<1>2. m = n /\ Context!TaskSound(n) /\ n # Context!NoState
  BY <1>1, MergedSound
<1>3. /\ w1' = IF "write" \notin F THEN m ELSE r
      /\ w3' = [w3 EXCEPT ![p] = IF "write" \notin F THEN m ELSE l]
      /\ w4' = [w4 EXCEPT ![p] = TRUE]
      /\ w5' = IF "write" \notin F THEN n ELSE w5
      /\ w2' = w2
  BY DEF Context!Update
<1> HIDE DEF l, r, m, n
<1>4. CASE "write" \notin F
  BY <1>2, <1>3, <1>4, TasksKept
<1>5. CASE "write" \in F
  BY <1>1, <1>3, <1>5, TasksKept
<1> QED
  BY <1>4, <1>5

LEMMA LookSound ==
    ASSUME Context!TasksSound, ContextAssumption, ~w17, NEW p, Writers = {p}, NEW F, "read" \notin F,
           Context!Look(p, F)
    PROVE  Context!TasksSound'
<1> DEFINE l == Context!Load(p, F)
           r == Context!RowAfterLoad(p, F)
<1>1. /\ l = w5 /\ Context!TaskSound(r) /\ Context!TaskSound(w5)
      /\ (IF r # Context!NoState THEN r ELSE Context!FromFile(w2)) = w5
  BY LoadFacts DEF Context!TasksSound
<1>2. /\ w1' = r /\ w3' = [w3 EXCEPT ![p] = l] /\ w4' = [w4 EXCEPT ![p] = TRUE]
      /\ w5' = w5 /\ w2' = w2
  BY DEF Context!Look
<1> HIDE DEF l, r
<1> QED
  BY <1>1, <1>2, TasksKept

\* The turns of a process: a runs, q wait, e are the ends on its stack, d is the turn of
\* the session that finished last, and T turns were accepted.
Ends(T) == [turn : 1 .. T, how : Context!Ways, mayStart : BOOLEAN]
Bottom(e, d) == IF e # <<>> /\ e[1].how = "finished" THEN e[1].turn ELSE d
Ordered(a, q, e, d, T) ==
    /\ T \in Nat /\ d \in 0 .. T /\ a \in 0 .. T /\ q \in Seq(1 .. T) /\ e \in Seq(Ends(T))
    /\ Bottom(e, d) >= d
    /\ a # 0 => a > Bottom(e, d)
    /\ \A k \in 1 .. Len(q) :
          /\ q[k] > Bottom(e, d) /\ q[k] > a
          /\ \A l \in 1 .. k - 1 : q[l] < q[k]
    /\ \A k \in 2 .. Len(e) : e[k].how # "finished"

LEMMA OrderedTurns ==
    ASSUME NEW p, Writers = {p}, MaxTasks \in Nat, Context!TurnsSound
    PROVE  /\ Ordered(w7[p], w6[p], w18[p], w14, w8) /\ w8 <= MaxTasks
           /\ w7 = [x \in {p} |-> w7[x]] /\ w6 = [x \in {p} |-> w6[x]]
           /\ w18 = [x \in {p} |-> w18[x]]
<1>1. /\ w7 \in [{p} -> 0 .. w8] /\ w6 \in [{p} -> Seq(1 .. w8)] /\ w18 \in [{p} -> Seq(Ends(w8))]
      /\ w8 \in 0 .. MaxTasks /\ w14 \in 0 .. w8
  BY DEF Context!TurnsSound, Ends
<1>2. Bottom(w18[p], w14) = Context!Bottom(p)
  BY DEF Bottom, Context!Bottom
<1>3. Ordered(w7[p], w6[p], w18[p], w14, w8)
  BY <1>1, <1>2 DEF Context!TurnsSound, Ordered
<1> QED
  BY <1>1, <1>3

LEMMA TurnsOrdered ==
    ASSUME NEW p, Writers = {p}, NEW a, NEW q, NEW e, MaxTasks \in Nat,
           Ordered(a, q, e, w14', w8'), w8' <= MaxTasks,
           w7' = [x \in {p} |-> a], w6' = [x \in {p} |-> q], w18' = [x \in {p} |-> e]
    PROVE  Context!TurnsSound'
<1>1. /\ w7' \in [{p} -> 0 .. w8'] /\ w6' \in [{p} -> Seq(1 .. w8')] /\ w18' \in [{p} -> Seq(Ends(w8'))]
      /\ w8' \in 0 .. MaxTasks /\ w14' \in 0 .. w8'
  BY DEF Ordered
<1>2. w7'[p] = a /\ w6'[p] = q /\ w18'[p] = e
  OBVIOUS
<1>3. Context!Bottom(p)' = Bottom(e, w14')
  BY <1>2 DEF Bottom, Context!Bottom
<1>4. /\ Context!Bottom(p)' >= w14'
      /\ w7'[p] # 0 => w7'[p] > Context!Bottom(p)'
      /\ \A k \in 1 .. Len(w6'[p]) :
            /\ w6'[p][k] > Context!Bottom(p)' /\ w6'[p][k] > w7'[p]
            /\ \A l \in 1 .. k - 1 : w6'[p][l] < w6'[p][k]
      /\ \A k \in 2 .. Len(w18'[p]) : w18'[p][k].how # "finished"
  BY <1>2, <1>3 DEF Ordered
<1> QED
  BY <1>1, <1>4 DEF Context!TurnsSound, Ends

LEMMA BottomTyped ==
    ASSUME NEW T \in Nat, NEW e \in Seq(Ends(T)), NEW d \in 0 .. T
    PROVE  Bottom(e, d) \in 0 .. T /\ (e # <<>> => e[1] \in Ends(T))
<1>1. e # <<>> => e[1] \in Ends(T)
  BY EmptySeq
<1>2. \A x \in Ends(T) : x.turn \in 1 .. T
  BY DEF Ends
<1> QED
  BY <1>1, <1>2 DEF Bottom

LEMMA OrderedEnqueue ==
    ASSUME NEW a, NEW q, NEW e, NEW d, NEW T, Ordered(a, q, e, d, T)
    PROVE  Ordered(a, Append(q, T + 1), e, d, T + 1)
<1> DEFINE n == Append(q, T + 1)
<1>1. T \in Nat /\ d \in 0 .. T /\ a \in 0 .. T /\ q \in Seq(1 .. T) /\ e \in Seq(Ends(T)) /\ Len(q) \in Nat
  BY LenProperties DEF Ordered
<1>2. q \in Seq(1 .. (T + 1)) /\ T + 1 \in 1 .. (T + 1)
  <2>1. 1 .. T \subseteq 1 .. (T + 1)
    BY <1>1
  <2> QED
    BY <1>1, <2>1, SeqMonotonic
<1>3. n \in Seq(1 .. (T + 1)) /\ Len(n) = Len(q) + 1
      /\ \A k \in 1 .. Len(q) + 1 : n[k] = IF k <= Len(q) THEN q[k] ELSE T + 1
  BY <1>1, <1>2
<1>4. e \in Seq(Ends(T + 1))
  <2>1. Ends(T) \subseteq Ends(T + 1)
    BY <1>1 DEF Ends
  <2> QED
    BY <1>1, <2>1, SeqMonotonic
<1>5. Bottom(e, d) \in 0 .. T
  BY <1>1, BottomTyped
<1>6. /\ \A k \in 1 .. Len(q) : q[k] \in 1 .. T
      /\ \A k \in 1 .. Len(q) : q[k] > Bottom(e, d) /\ q[k] > a /\ \A l \in 1 .. k - 1 : q[l] < q[k]
      /\ T \in Nat /\ a \in 0 .. T /\ Len(q) \in Nat
  <2>1. \A k \in 1 .. Len(q) : q[k] \in 1 .. T
    BY <1>1, ElementOfSeq
  <2> QED
    BY <1>1, <2>1 DEF Ordered
<1>8. Len(n) = Len(q) + 1 /\ \A k \in 1 .. Len(q) + 1 : n[k] = IF k <= Len(q) THEN q[k] ELSE T + 1
  BY <1>3
<1> HIDE DEF n
<1>7. ASSUME NEW k \in 1 .. Len(n)
      PROVE  /\ n[k] > Bottom(e, d) /\ n[k] > a
             /\ \A l \in 1 .. k - 1 : n[l] < n[k]
  <2>1. CASE k <= Len(q)
    <3>1. k \in 1 .. Len(q) /\ n[k] = q[k]
      BY <1>6, <1>8, <2>1
    <3>2. \A l \in 1 .. k - 1 : n[l] = q[l]
      BY <1>6, <1>8, <3>1
    <3> QED
      BY <1>6, <3>1, <3>2
  <2>2. CASE k = Len(q) + 1
    <3>1. n[k] = T + 1 /\ \A l \in 1 .. k - 1 : n[l] = q[l] /\ l \in 1 .. Len(q)
      BY <1>6, <1>8, <2>2
    <3> QED
      BY <1>5, <1>6, <3>1
  <2>3. k <= Len(q) \/ k = Len(q) + 1
    BY <1>6, <1>8
  <2> QED
    BY <2>1, <2>2, <2>3
<1>9. T + 1 \in Nat /\ d \in 0 .. (T + 1) /\ a \in 0 .. (T + 1)
  BY <1>1
<1>10. /\ Bottom(e, d) >= d /\ (a # 0 => a > Bottom(e, d))
       /\ \A k \in 2 .. Len(e) : e[k].how # "finished"
  BY DEF Ordered
<1>11. n \in Seq(1 .. (T + 1))
  BY <1>3
<1> HIDE DEF Bottom
<1> QED
  BY <1>4, <1>7, <1>9, <1>10, <1>11 DEF Ordered, n

LEMMA OrderedStart ==
    ASSUME NEW q, NEW e, NEW d, NEW T, NEW f, Ordered(0, q, e, d, T), q # <<>>,
           f \in Seq(Ends(T)), Len(f) = Len(e),
           \A k \in 1 .. Len(e) : f[k].turn = e[k].turn /\ f[k].how = e[k].how
    PROVE  Ordered(Head(q), Tail(q), f, d, T)
<1> DEFINE t == Tail(q)
<1>1. /\ T \in Nat /\ d \in 0 .. T /\ q \in Seq(1 .. T) /\ e \in Seq(Ends(T))
      /\ Len(q) \in Nat /\ Len(e) \in Nat
  BY LenProperties DEF Ordered
<1>2. /\ Len(q) >= 1 /\ Head(q) = q[1] /\ q[1] \in 1 .. T
      /\ t \in Seq(1 .. T) /\ Len(t) = Len(q) - 1 /\ \A k \in 1 .. Len(t) : t[k] = q[k + 1]
  BY <1>1, EmptySeq
<1>3. Bottom(f, d) = Bottom(e, d)
  <2>1. f = <<>> <=> e = <<>>
    BY <1>1, EmptySeq
  <2>2. e # <<>> => 1 \in 1 .. Len(e)
    BY <1>1, EmptySeq
  <2> QED
    BY <2>1, <2>2 DEF Bottom
<1>4. \A k \in 2 .. Len(f) : f[k].how # "finished"
  BY <1>1 DEF Ordered
<1>5. q[1] > Bottom(f, d)
  BY <1>1, <1>2, <1>3 DEF Ordered
<1>7. Len(q) \in Nat /\ Len(t) = Len(q) - 1 /\ \A k \in 1 .. Len(t) : t[k] = q[k + 1]
  BY <1>1, <1>2
<1>8. \A k \in 1 .. Len(q) : q[k] \in Nat
  <2>1. \A k \in 1 .. Len(q) : q[k] \in 1 .. T
    BY <1>1, ElementOfSeq
  <2> QED
    BY <2>1
<1> HIDE DEF t
<1>6. ASSUME NEW k \in 1 .. Len(t)
      PROVE  /\ t[k] > Bottom(f, d) /\ t[k] > q[1]
             /\ \A l \in 1 .. k - 1 : t[l] < t[k]
  <2>1. k + 1 \in 1 .. Len(q) /\ 1 \in 1 .. (k + 1) - 1 /\ t[k] = q[k + 1]
    BY <1>7
  <2>2. q[k + 1] > Bottom(f, d) /\ q[1] < q[k + 1]
    BY <1>3, <2>1 DEF Ordered
  <2>3. ASSUME NEW l \in 1 .. k - 1 PROVE t[l] < t[k]
    <3>1. l + 1 \in 1 .. (k + 1) - 1 /\ l \in 1 .. Len(t)
      BY <1>7
    <3>2. q[l + 1] < q[k + 1]
      BY <2>1, <3>1 DEF Ordered
    <3> QED
      BY <1>7, <2>1, <3>1, <3>2
  <2>4. q[k + 1] \in Nat /\ q[1] \in Nat
    BY <1>8, <2>1, <1>2
  <2> QED
    BY <2>1, <2>2, <2>3, <2>4
<1> QED
  BY <1>1, <1>2, <1>3, <1>4, <1>5, <1>6 DEF Ordered, t

LEMMA OrderedEnd ==
    ASSUME NEW a, NEW q, NEW e, NEW d, NEW T, NEW how \in Context!Ways, Ordered(a, q, e, d, T), a # 0,
           e = <<>> \/ how # "finished"
    PROVE  Ordered(0, q, Append(e, [turn |-> a, how |-> how, mayStart |-> TRUE]), d, T)
<1> DEFINE x == [turn |-> a, how |-> how, mayStart |-> TRUE]
           f == Append(e, x)
<1>1. T \in Nat /\ d \in 0 .. T /\ a \in 1 .. T /\ q \in Seq(1 .. T) /\ e \in Seq(Ends(T)) /\ Len(e) \in Nat
  BY LenProperties DEF Ordered
<1>2. x \in Ends(T) /\ x.how = how /\ x.turn = a
  BY <1>1 DEF Ends
<1> HIDE DEF x
<1>3. /\ f \in Seq(Ends(T)) /\ Len(f) = Len(e) + 1
      /\ \A k \in 1 .. Len(e) + 1 : f[k] = IF k <= Len(e) THEN e[k] ELSE x
  BY <1>1, <1>2
<1>4. e = <<>> => Len(e) = 0
  BY EmptySeq
<1>5. e # <<>> => Len(e) >= 1
  BY <1>1, EmptySeq
<1> HIDE DEF f
<1>6. f # <<>> /\ f[1] = IF e = <<>> THEN x ELSE e[1]
  <2>1. f # <<>>
    BY <1>1, <1>3, EmptySeq
  <2>2. 1 \in 1 .. Len(e) + 1 /\ (1 <= Len(e) <=> e # <<>>)
    BY <1>1, <1>4, <1>5
  <2> QED
    BY <1>3, <2>1, <2>2
<1>7. Bottom(f, d) = IF e = <<>> /\ how = "finished" THEN a ELSE Bottom(e, d)
  BY <1>2, <1>6 DEF Bottom
<1>8. \A k \in 2 .. Len(f) : f[k].how # "finished"
  <2> SUFFICES ASSUME NEW k \in 2 .. Len(f) PROVE f[k].how # "finished"
    OBVIOUS
  <2>1. CASE k <= Len(e)
    <3>1. k \in 2 .. Len(e) /\ f[k] = e[k]
      BY <1>1, <1>3, <2>1
    <3> QED
      BY <3>1 DEF Ordered
  <2>2. CASE k = Len(e) + 1
    <3>1. f[k] = x /\ Len(e) # 0
      BY <1>1, <1>3, <2>2
    <3> QED
      BY <1>2, <1>4, <3>1
  <2> QED
    BY <1>1, <1>3, <2>1, <2>2
<1>9. Bottom(e, d) \in 0 .. T /\ \A k \in 1 .. Len(q) : q[k] \in 1 .. T
  BY <1>1, BottomTyped, ElementOfSeq
<1>10. /\ Bottom(e, d) >= d /\ a > Bottom(e, d)
       /\ \A k \in 1 .. Len(q) : q[k] > Bottom(e, d) /\ q[k] > a /\ \A l \in 1 .. k - 1 : q[l] < q[k]
  BY <1>1 DEF Ordered
<1> HIDE DEF Bottom
<1>11. /\ Bottom(f, d) >= d
       /\ \A k \in 1 .. Len(q) : q[k] > Bottom(f, d) /\ q[k] > 0 /\ \A l \in 1 .. k - 1 : q[l] < q[k]
  BY <1>1, <1>7, <1>9, <1>10
<1>12. 0 \in 0 .. T
  BY <1>1
<1> QED
  BY <1>1, <1>3, <1>8, <1>11, <1>12 DEF Ordered, f, x

LEMMA OrderedStop ==
    ASSUME NEW a, NEW q, NEW e, NEW d, NEW T, Ordered(a, q, e, d, T)
    PROVE  /\ Ordered(0, q, e, d, T) /\ Ordered(0, <<>>, e, d, T)
           /\ Ordered(0, q, <<>>, d, T) /\ Ordered(0, <<>>, <<>>, d, T)
<1>1. T \in Nat /\ d \in 0 .. T /\ a \in 0 .. T /\ q \in Seq(1 .. T) /\ e \in Seq(Ends(T)) /\ 0 \in 0 .. T
  BY DEF Ordered
<1>2. Bottom(e, d) \in 0 .. T /\ \A k \in 1 .. Len(q) : q[k] \in 1 .. T
  BY <1>1, BottomTyped, ElementOfSeq
<1>3. Bottom(<<>>, d) = d
  BY DEF Bottom
<1>4. /\ Bottom(e, d) >= d
      /\ \A k \in 1 .. Len(q) : q[k] > Bottom(e, d) /\ \A l \in 1 .. k - 1 : q[l] < q[k]
      /\ \A k \in 2 .. Len(e) : e[k].how # "finished"
  BY DEF Ordered
<1>5. <<>> \in Seq(1 .. T) /\ <<>> \in Seq(Ends(T)) /\ Len(<<>>) = 0
  BY EmptySeq
<1> HIDE DEF Bottom
<1>6. \A k \in 1 .. Len(q) : q[k] > 0 /\ q[k] > d
  BY <1>1, <1>2, <1>4
<1>7. d >= d
  BY <1>1
<1> QED
  BY <1>1, <1>3, <1>4, <1>5, <1>6, <1>7 DEF Ordered

\* The rest of a handler that ends.
LEMMA FrontFacts ==
    ASSUME NEW T \in Nat, NEW e \in Seq(Ends(T)), e # <<>>
    PROVE  /\ Context!Last(e) \in Ends(T) /\ Context!Last(e) = e[Len(e)] /\ Len(e) \in Nat \ {0}
           /\ Context!Front(e) \in Seq(Ends(T)) /\ Len(Context!Front(e)) = Len(e) - 1
           /\ \A k \in 1 .. Len(e) - 1 : Context!Front(e)[k] = e[k]
<1>1. Len(e) \in Nat \ {0}
  BY EmptySeq
<1>2. \A k \in 1 .. Len(e) : e[k] \in Ends(T)
  BY ElementOfSeq
<1>3. 1 \in Int /\ Len(e) - 1 \in Int /\ \A k \in 1 .. Len(e) - 1 : e[k] \in Ends(T)
  BY <1>1, <1>2
<1>4. /\ SubSeq(e, 1, Len(e) - 1) \in Seq(Ends(T))
      /\ Len(SubSeq(e, 1, Len(e) - 1)) = IF 1 <= Len(e) - 1 THEN (Len(e) - 1) - 1 + 1 ELSE 0
      /\ \A i \in 1 .. (Len(e) - 1) - 1 + 1 : SubSeq(e, 1, Len(e) - 1)[i] = e[1 + i - 1]
  BY <1>3, SubSeqProperties
<1>5. Context!Front(e) = SubSeq(e, 1, Len(e) - 1) /\ Context!Last(e) = e[Len(e)]
  BY DEF Context!Front, Context!Last
<1>6. Len(Context!Front(e)) = Len(e) - 1 /\ \A k \in 1 .. Len(e) - 1 : Context!Front(e)[k] = e[k]
  <2>1. /\ (IF 1 <= Len(e) - 1 THEN (Len(e) - 1) - 1 + 1 ELSE 0) = Len(e) - 1
        /\ \A k \in 1 .. Len(e) - 1 : k \in 1 .. (Len(e) - 1) - 1 + 1 /\ 1 + k - 1 = k
    <3> DEFINE n == Len(e)
    <3>1. n \in Nat /\ n >= 1
      BY <1>1
    <3> HIDE DEF n
    <3>2. /\ (IF 1 <= n - 1 THEN (n - 1) - 1 + 1 ELSE 0) = n - 1
          /\ \A k \in 1 .. n - 1 : k \in 1 .. (n - 1) - 1 + 1 /\ 1 + k - 1 = k
      BY <3>1
    <3> QED
      BY <3>2 DEF n
  <2> QED
    BY <1>4, <1>5, <2>1
<1> QED
  BY <1>1, <1>2, <1>4, <1>5, <1>6

LEMMA OrderedPop ==
    ASSUME NEW a, NEW q, NEW e, NEW d, NEW T, Ordered(a, q, e, d, T), e # <<>>
    PROVE  LET l == Context!Last(e)
               f == Context!Front(e)
           IN  /\ l \in Ends(T)
               /\ l.how # "finished" => Ordered(a, q, f, d, T)
               /\ l.how = "finished" => l.turn >= d /\ Ordered(a, q, f, l.turn, T)
<1> DEFINE l == Context!Last(e)
           f == Context!Front(e)
<1>1. T \in Nat /\ d \in 0 .. T /\ a \in 0 .. T /\ q \in Seq(1 .. T) /\ e \in Seq(Ends(T)) /\ Len(e) \in Nat
  BY LenProperties DEF Ordered
<1>2. /\ l \in Ends(T) /\ l = e[Len(e)] /\ Len(e) \in Nat \ {0}
      /\ f \in Seq(Ends(T)) /\ Len(f) = Len(e) - 1
      /\ \A k \in 1 .. Len(e) - 1 : f[k] = e[k]
  BY <1>1, FrontFacts
<1> HIDE DEF l, f
<1>3. \A k \in 2 .. Len(f) : f[k].how # "finished"
  <2>1. \A k \in 2 .. Len(f) : k \in 2 .. Len(e) /\ f[k] = e[k]
    BY <1>2
  <2> QED
    BY <2>1 DEF Ordered
<1>4. f = <<>> <=> Len(e) = 1
  BY <1>2, EmptySeq
<1>5. ASSUME l.how # "finished" PROVE Ordered(a, q, f, d, T)
  <2>1. Bottom(f, d) = Bottom(e, d)
    <3>1. CASE Len(e) = 1
      BY <1>2, <1>4, <1>5, <3>1 DEF Bottom
    <3>2. CASE Len(e) # 1
      <4>1. f # <<>> /\ f[1] = e[1]
        BY <1>2, <1>4, <3>2
      <4> QED
        BY <4>1 DEF Bottom
    <3> QED
      BY <3>1, <3>2
  <2> HIDE DEF Bottom
  <2> QED
    BY <1>2, <1>3, <2>1 DEF Ordered
<1>6. ASSUME l.how = "finished" PROVE l.turn >= d /\ Ordered(a, q, f, l.turn, T)
  <2>1. Len(e) = 1
    <3>1. Len(e) \notin 2 .. Len(e)
      BY <1>2, <1>6 DEF Ordered
    <3> QED
      BY <1>2, <3>1
  <2>2. l = e[1] /\ f = <<>>
    BY <1>2, <1>4, <2>1
  <2>3. Bottom(e, d) = l.turn /\ Bottom(f, l.turn) = l.turn /\ l.turn \in 1 .. T
    BY <1>2, <1>6, <2>2 DEF Bottom, Ends
  <2> HIDE DEF Bottom
  <2>4. l.turn \in 0 .. T /\ l.turn >= l.turn
    BY <1>1, <2>3
  <2> QED
    BY <1>2, <1>3, <2>3, <2>4 DEF Ordered
<1> QED
  BY <1>2, <1>5, <1>6 DEF l, f

LEMMA SummaryTexts ==
    /\ \A t \in 1 .. MaxTasks :
          /\ Context!Text("prompt", t) \in Context!Summaries
          /\ Context!Text("accepted", t) \in Context!Summaries
          /\ Context!Text("reply", t) \in Context!Summaries
          /\ Context!Text("recovered", t) \in Context!Summaries
    /\ \A j \in Delegated : Context!Text("result", j) \in Context!Summaries
BY DEF Context!Summaries

LEMMA OneEntry ==
    ASSUME NEW p, NEW f, f = [x \in {p} |-> f[x]], NEW v
    PROVE  [f EXCEPT ![p] = v] = [x \in {p} |-> v] /\ f = [x \in {p} |-> f[p]]
OBVIOUS

\* A snapshot of a turn that finished, d being the last.
FromTurn(s, d) == s \in Context!Snapshots /\ s.turn <= d /\ s.reply.turn = s.turn

LEMMA SnapshotsKept ==
    ASSUME Context!SnapshotsSound, w14' = w14, w10' = w10, w15' = w15,
           w13' = w13 \/ w13' = (IF w10 = Bad THEN Absent ELSE w10)
    PROVE  Context!SnapshotsSound'
<1>1. /\ w10 \in {Absent, Bad} \/ FromTurn(w10, w14)
      /\ w13 = Absent \/ FromTurn(w13, w14)
  BY DEF Context!SnapshotsSound, Context!SnapshotSound, FromTurn
<1>2. /\ w10' \in {Absent, Bad} \/ FromTurn(w10', w14')
      /\ w13' = Absent \/ FromTurn(w13', w14')
  BY <1>1
<1>3. /\ w10' \in {Absent, Bad} \/ Context!SnapshotSound(w10)'
      /\ w13' = Absent \/ Context!SnapshotSound(w13)'
  BY <1>2 DEF Context!SnapshotSound, FromTurn, Context!Snapshots, Context!Summaries
<1>5. Context!SnapshotOfLast'
  BY DEF Context!SnapshotsSound, Context!SnapshotOfLast
<1> QED
  BY <1>3, <1>5 DEF Context!SnapshotsSound

LEMMA FailingSound ==
    ASSUME MaxMishaps \in Nat, w16 \in 0 .. MaxMishaps, NEW F, Context!Failing(F)
    PROVE  w16' \in 0 .. MaxMishaps
BY DEF Context!Failing

\* The end at the top of the stack, once the next turn was started within it.
LEMMA MarkedFacts ==
    ASSUME NEW T \in Nat, NEW e \in Seq(Ends(T)), e # <<>>
    PROVE  LET f == Append(Context!Front(e), [Context!Last(e) EXCEPT !.mayStart = FALSE]) IN
           /\ f \in Seq(Ends(T)) /\ Len(f) = Len(e)
           /\ \A k \in 1 .. Len(e) : f[k].turn = e[k].turn /\ f[k].how = e[k].how
<1> DEFINE l == Context!Last(e)
           h == Context!Front(e)
           x == [l EXCEPT !.mayStart = FALSE]
           f == Append(h, x)
<1>1. /\ l \in Ends(T) /\ l = e[Len(e)] /\ Len(e) \in Nat \ {0}
      /\ h \in Seq(Ends(T)) /\ Len(h) = Len(e) - 1
      /\ \A k \in 1 .. Len(e) - 1 : h[k] = e[k]
  BY FrontFacts
<1> HIDE DEF l, h
<1>2. x \in Ends(T) /\ x.turn = l.turn /\ x.how = l.how
  BY <1>1 DEF Ends
<1> HIDE DEF x
<1>3. /\ f \in Seq(Ends(T)) /\ Len(f) = Len(h) + 1
      /\ \A k \in 1 .. Len(h) + 1 : f[k] = IF k <= Len(h) THEN h[k] ELSE x
  BY <1>1, <1>2
<1> HIDE DEF f
<1>4. Len(f) = Len(e)
  BY <1>1, <1>3
<1>5. ASSUME NEW k \in 1 .. Len(e) PROVE f[k].turn = e[k].turn /\ f[k].how = e[k].how
  <2>1. CASE k = Len(e)
    <3>1. f[k] = x
      BY <1>1, <1>3, <2>1
    <3> QED
      BY <1>1, <1>2, <2>1, <3>1
  <2>2. CASE k # Len(e)
    <3>1. k \in 1 .. Len(e) - 1 /\ f[k] = h[k]
      BY <1>1, <1>3, <2>2
    <3> QED
      BY <1>1, <3>1
  <2> QED
    BY <2>1, <2>2
<1> QED
  BY <1>3, <1>4, <1>5 DEF f, x, h, l

\* The turns of a step that neither accepts, starts nor ends one.
LEMMA TurnsKept ==
    ASSUME Context!TurnsSound, w6' = w6, w7' = w7, w8' = w8, w14' = w14, w18' = w18
    PROVE  Context!TurnsSound'
BY DEF Context!TurnsSound, Context!Bottom

LEMMA ContextEnqueue ==
    ASSUME Context!ContextSound, ContextAssumption, NEW p, Writers = {p}, NEW F, "read" \notin F,
           Context!Enqueue(p, F)
    PROVE  Context!ContextSound'
<1>1. /\ Context!TasksSound /\ Context!TurnsSound /\ Context!SnapshotsSound
      /\ w9 \subseteq Delegated /\ w16 \in 0 .. MaxMishaps /\ w15 \in BOOLEAN /\ w17 \in BOOLEAN
      /\ MaxTasks \in Nat /\ MaxMishaps \in Nat
  BY DEF Context!ContextSound, ContextAssumption
<1>2. /\ ~w17 /\ w8 < MaxTasks /\ Context!Failing(F) /\ w8' = w8 + 1
      /\ w6' = [w6 EXCEPT ![p] = Append(@, w8 + 1)]
      /\ Context!Update(p, Context!Patch("queued", w8 + 1, Context!Text("prompt", w8 + 1)), F)
      /\ UNCHANGED <<w7, w18, w9, w10, w11, w12, w13, w14, w15, w17>>
  BY DEF Context!Enqueue, Context!Live, Context!contextVars
<1>3. /\ Ordered(w7[p], w6[p], w18[p], w14, w8) /\ w8 <= MaxTasks
      /\ w7 = [x \in {p} |-> w7[x]] /\ w6 = [x \in {p} |-> w6[x]]
      /\ w18 = [x \in {p} |-> w18[x]]
  BY <1>1, OrderedTurns
<1>4. w8 \in Nat /\ w8 + 1 \in 1 .. MaxTasks
  BY <1>1, <1>2, <1>3 DEF Ordered
<1>5. Context!TasksSound'
  <2>1. GoodPatch(Context!Patch("queued", w8 + 1, Context!Text("prompt", w8 + 1)))
    BY <1>4, PlainPatch, SummaryTexts DEF Context!States
  <2> QED
    BY <1>1, <1>2, <2>1, UpdateSound
<1>6. Context!TurnsSound'
  <2>1. Ordered(w7[p], Append(w6[p], w8 + 1), w18[p], w14', w8')
    BY <1>2, <1>3, OrderedEnqueue
  <2>2. w6' = [x \in {p} |-> Append(w6[p], w8 + 1)]
    BY <1>2, <1>3, OneEntry
  <2>3. w7' = [x \in {p} |-> w7[p]] /\ w18' = [x \in {p} |-> w18[p]]
    BY <1>2, <1>3, OneEntry
  <2>4. w8' <= MaxTasks
    BY <1>1, <1>2, <1>4
  <2> QED
    BY <1>1, <2>1, <2>2, <2>3, <2>4, TurnsOrdered
<1>7. Context!SnapshotsSound'
  BY <1>1, <1>2, SnapshotsKept
<1>8. w16' \in 0 .. MaxMishaps
  BY <1>1, <1>2, FailingSound
<1> QED
  BY <1>1, <1>2, <1>5, <1>6, <1>7, <1>8 DEF Context!ContextSound

LEMMA ContextStart ==
    ASSUME Context!ContextSound, ContextAssumption, NEW p, Writers = {p}, NEW F, "read" \notin F,
           Context!Start(p, F)
    PROVE  Context!ContextSound'
<1> DEFINE t == Head(w6[p])
           P == Context!With(Context!Patch("running", t, Context!Text("prompt", t)), Context!Ended)
           e == w18[p]
           f == IF Context!Quiet(p) THEN e
                ELSE Append(Context!Front(e), [Context!Last(e) EXCEPT !.mayStart = FALSE])
<1>1. /\ Context!TasksSound /\ Context!TurnsSound /\ Context!SnapshotsSound
      /\ w9 \subseteq Delegated /\ w16 \in 0 .. MaxMishaps /\ w15 \in BOOLEAN /\ w17 \in BOOLEAN
      /\ MaxTasks \in Nat /\ MaxMishaps \in Nat
  BY DEF Context!ContextSound, ContextAssumption
<1>2. /\ ~w17 /\ w7[p] = 0 /\ w6[p] # <<>> /\ Context!Failing(F)
      /\ w7' = [w7 EXCEPT ![p] = t] /\ w6' = [w6 EXCEPT ![p] = Tail(@)]
      /\ w18' = [w18 EXCEPT ![p] = f]
      /\ w13' = (IF w10 = Bad THEN Absent ELSE w10)
      /\ Context!Update(p, P, F)
      /\ UNCHANGED <<w8, w9, w10, w11, w12, w14, w15, w17>>
  BY DEF Context!Start, Context!Live
<1>3. /\ Ordered(w7[p], w6[p], e, w14, w8) /\ w8 <= MaxTasks
      /\ w7 = [x \in {p} |-> w7[x]] /\ w6 = [x \in {p} |-> w6[x]]
      /\ w18 = [x \in {p} |-> w18[x]]
  BY <1>1, OrderedTurns
<1>4. w8 \in Nat /\ w6[p] \in Seq(1 .. w8) /\ e \in Seq(Ends(w8))
  BY <1>3 DEF Ordered
<1>5. t \in 1 .. MaxTasks
  <2>1. t \in 1 .. w8
    BY <1>2, <1>4, HeadTailProperties
  <2> QED
    BY <1>1, <1>3, <1>4, <2>1
<1>6. /\ f \in Seq(Ends(w8)) /\ Len(f) = Len(e)
      /\ \A k \in 1 .. Len(e) : f[k].turn = e[k].turn /\ f[k].how = e[k].how
  <2>1. CASE Context!Quiet(p)
    BY <1>4, <2>1
  <2>2. CASE ~Context!Quiet(p)
    <3>1. e # <<>>
      BY <2>2 DEF Context!Quiet
    <3> QED
      BY <1>4, <2>2, <3>1, MarkedFacts
  <2> QED
    BY <2>1, <2>2
<1> HIDE DEF f
<1>7. Context!TasksSound'
  <2>1. GoodPatch(P)
    BY <1>5, EndPatch, SummaryTexts DEF Context!States
  <2> HIDE DEF P
  <2> QED
    BY <1>1, <1>2, <2>1, UpdateSound
<1>8. Context!TurnsSound'
  <2>1. Ordered(t, Tail(w6[p]), f, w14, w8)
    BY <1>2, <1>3, <1>6, OrderedStart
  <2>2. w7' = [x \in {p} |-> t] /\ w6' = [x \in {p} |-> Tail(w6[p])] /\ w18' = [x \in {p} |-> f]
    BY <1>2, <1>3, OneEntry
  <2>3. Ordered(t, Tail(w6[p]), f, w14', w8') /\ w8' <= MaxTasks
    BY <1>2, <1>3, <2>1
  <2> HIDE DEF t
  <2> QED
    BY <1>1, <2>2, <2>3, TurnsOrdered
<1>9. Context!SnapshotsSound'
  BY <1>1, <1>2, SnapshotsKept
<1>10. w16' \in 0 .. MaxMishaps
  BY <1>1, <1>2, FailingSound
<1> QED
  BY <1>1, <1>2, <1>7, <1>8, <1>9, <1>10 DEF Context!ContextSound

LEMMA ContextAccept ==
    ASSUME Context!ContextSound, ContextAssumption, NEW p, Writers = {p}, NEW F, "read" \notin F,
           NEW j \in Delegated, Context!Accept(p, j, F)
    PROVE  Context!ContextSound'
<1> DEFINE P == Context!With(Context!Patch("blocked", w7[p], Context!Text("accepted", w7[p])),
                             [waiting |-> j, error |-> None])
<1>1. /\ Context!TasksSound /\ Context!TurnsSound /\ Context!SnapshotsSound
      /\ w9 \subseteq Delegated /\ w16 \in 0 .. MaxMishaps /\ w15 \in BOOLEAN /\ w17 \in BOOLEAN
      /\ MaxTasks \in Nat /\ MaxMishaps \in Nat
  BY DEF Context!ContextSound, ContextAssumption
<1>2. /\ ~w17 /\ w7[p] # 0 /\ Context!Failing(F) /\ w9' = w9 \cup {j}
      /\ Context!Look(p, F) \/ Context!Update(p, P, F)
      /\ UNCHANGED <<w6, w7, w18, w8, w10, w11, w12, w13, w14, w15, w17>>
  BY DEF Context!Accept, Context!Live, Context!contextVars
<1>3. /\ Ordered(w7[p], w6[p], w18[p], w14, w8) /\ w8 <= MaxTasks
  BY <1>1, OrderedTurns
<1>4. w7[p] \in 1 .. MaxTasks
  BY <1>1, <1>2, <1>3 DEF Ordered
<1>5. Context!TasksSound'
  <2>1. GoodPatch(P)
    BY <1>4, OtherPatch, SummaryTexts DEF Context!States
  <2> HIDE DEF P
  <2> QED
    BY <1>1, <1>2, <2>1, UpdateSound, LookSound
<1>6. Context!TurnsSound'
  BY <1>1, <1>2, TurnsKept
<1>7. Context!SnapshotsSound'
  BY <1>1, <1>2, SnapshotsKept
<1>8. w16' \in 0 .. MaxMishaps
  BY <1>1, <1>2, FailingSound
<1> QED
  BY <1>1, <1>2, <1>5, <1>6, <1>7, <1>8 DEF Context!ContextSound

LEMMA ContextSettle ==
    ASSUME Context!ContextSound, ContextAssumption, NEW p, Writers = {p}, NEW F, "read" \notin F,
           NEW j \in Delegated, NEW b \in BOOLEAN, Context!Settle(p, j, b, F)
    PROVE  Context!ContextSound'
<1> DEFINE P == [state |-> IF b THEN "done" ELSE "failed", summary |-> Context!Text("result", j),
                 waiting |-> None, error |-> IF b THEN None ELSE "failed"]
<1>1. /\ Context!TasksSound /\ Context!TurnsSound /\ Context!SnapshotsSound
      /\ w9 \subseteq Delegated /\ w16 \in 0 .. MaxMishaps /\ w15 \in BOOLEAN /\ w17 \in BOOLEAN
      /\ MaxTasks \in Nat /\ MaxMishaps \in Nat
  BY DEF Context!ContextSound, ContextAssumption
<1>2. /\ ~w17 /\ Context!Failing(F) /\ w9' = w9 \ {j} /\ Context!Update(p, P, F)
      /\ UNCHANGED <<w6, w7, w18, w8, w10, w11, w12, w13, w14, w15, w17>>
  BY DEF Context!Settle, Context!Live, Context!contextVars
<1>5. Context!TasksSound'
  <2>1. GoodPatch(P)
    BY SettledPatch, SummaryTexts
  <2> HIDE DEF P
  <2> QED
    BY <1>1, <1>2, <2>1, UpdateSound
<1>6. Context!TurnsSound'
  BY <1>1, <1>2, TurnsKept
<1>7. Context!SnapshotsSound'
  BY <1>1, <1>2, SnapshotsKept
<1>8. w16' \in 0 .. MaxMishaps
  BY <1>1, <1>2, FailingSound
<1> QED
  BY <1>1, <1>2, <1>5, <1>6, <1>7, <1>8 DEF Context!ContextSound

LEMMA ContextAbort ==
    ASSUME Context!ContextSound, ContextAssumption, NEW p, Writers = {p}, NEW F, "read" \notin F,
           Context!Abort(p, F)
    PROVE  Context!ContextSound'
<1> DEFINE P == Context!Patch("canceled", w7[p], Context!Text("prompt", w7[p]))
<1>1. /\ Context!TasksSound /\ Context!TurnsSound /\ Context!SnapshotsSound
      /\ w9 \subseteq Delegated /\ w16 \in 0 .. MaxMishaps /\ w15 \in BOOLEAN /\ w17 \in BOOLEAN
      /\ MaxTasks \in Nat /\ MaxMishaps \in Nat
  BY DEF Context!ContextSound, ContextAssumption
<1>2. /\ ~w17 /\ w7[p] # 0 /\ Context!Failing(F) /\ w7' = [w7 EXCEPT ![p] = 0]
      /\ Context!Update(p, P, F)
      /\ UNCHANGED <<w6, w18, w8, w9, w10, w11, w12, w13, w14, w15, w17>>
  BY DEF Context!Abort, Context!Live, Context!contextVars
<1>3. /\ Ordered(w7[p], w6[p], w18[p], w14, w8) /\ w8 <= MaxTasks
      /\ w7 = [x \in {p} |-> w7[x]] /\ w6 = [x \in {p} |-> w6[x]]
      /\ w18 = [x \in {p} |-> w18[x]]
  BY <1>1, OrderedTurns
<1>4. w7[p] \in 1 .. MaxTasks
  BY <1>1, <1>2, <1>3 DEF Ordered
<1>5. Context!TasksSound'
  <2>1. GoodPatch(P)
    BY <1>4, PlainPatch, SummaryTexts DEF Context!States
  <2> HIDE DEF P
  <2> QED
    BY <1>1, <1>2, <2>1, UpdateSound
<1>6. Context!TurnsSound'
  <2>1. Ordered(0, w6[p], w18[p], w14', w8') /\ w8' <= MaxTasks
    BY <1>2, <1>3, OrderedStop
  <2>2. w7' = [x \in {p} |-> 0] /\ w6' = [x \in {p} |-> w6[p]] /\ w18' = [x \in {p} |-> w18[p]]
    BY <1>2, <1>3, OneEntry
  <2> QED
    BY <1>1, <2>1, <2>2, TurnsOrdered
<1>7. Context!SnapshotsSound'
  BY <1>1, <1>2, SnapshotsKept
<1>8. w16' \in 0 .. MaxMishaps
  BY <1>1, <1>2, FailingSound
<1> QED
  BY <1>1, <1>2, <1>5, <1>6, <1>7, <1>8 DEF Context!ContextSound

LEMMA ContextRemove ==
    ASSUME Context!ContextSound, ContextAssumption, NEW p, Writers = {p}, NEW F, "read" \notin F,
           Context!RemoveSession(p, F)
    PROVE  Context!ContextSound'
<1>1. /\ Context!TasksSound /\ Context!TurnsSound /\ Context!SnapshotsSound
      /\ w9 \subseteq Delegated /\ w16 \in 0 .. MaxMishaps /\ w15 \in BOOLEAN /\ w17 \in BOOLEAN
      /\ MaxTasks \in Nat /\ MaxMishaps \in Nat
  BY DEF Context!ContextSound, ContextAssumption
<1>2. /\ w17' = TRUE /\ Context!Failing(F)
      /\ w1' = (IF "write" \in F THEN w1 ELSE Context!NoState)
      /\ w2' = (IF "remove" \in F THEN w2 ELSE Absent)
      /\ w3' = [w3 EXCEPT ![p] = Context!NoState] /\ w4' = [w4 EXCEPT ![p] = FALSE]
      /\ w5' = Context!NoState
      /\ w6' = [w6 EXCEPT ![p] = <<>>] /\ w7' = [w7 EXCEPT ![p] = 0]
      /\ UNCHANGED <<w18, w8, w9, w10, w11, w12, w13, w14, w15>>
  BY DEF Context!RemoveSession, Context!contextVars
<1>3. /\ Ordered(w7[p], w6[p], w18[p], w14, w8) /\ w8 <= MaxTasks
      /\ w7 = [x \in {p} |-> w7[x]] /\ w6 = [x \in {p} |-> w6[x]]
      /\ w18 = [x \in {p} |-> w18[x]]
  BY <1>1, OrderedTurns
<1>5. Context!TasksSound'
  <2>1. w3' = [q \in Writers |-> w3'[q]] /\ w3'[p] = Context!NoState
    BY <1>1, <1>2 DEF Context!TasksSound
  <2>2. w4' \in [Writers -> BOOLEAN] /\ w4'[p] = FALSE
    BY <1>1, <1>2 DEF Context!TasksSound
  <2>3. Context!TaskSound(w1') /\ Context!TaskSound(w5') /\ Context!TaskSound(w3'[p])
    BY <1>1, <1>2, <2>1, NoStateSound DEF Context!TasksSound
  <2>4. w2' \in ({Absent, Bad} \cup FormerTasks) \cup {Absent}
    BY <1>1, <1>2 DEF Context!TasksSound
  <2>5. Context!TaskKept'
    BY <1>2, <2>2 DEF Context!TaskKept
  <2>6. w3'[p] # Context!NoState => w4'[p]
    BY <2>1
  <2> QED
    BY <2>1, <2>2, <2>3, <2>4, <2>5, <2>6
       DEF Context!TasksSound, Context!TaskSound, Context!IsTask, Context!Summaries
<1>6. Context!TurnsSound'
  <2>1. Ordered(0, <<>>, w18[p], w14', w8') /\ w8' <= MaxTasks
    BY <1>2, <1>3, OrderedStop
  <2>2. w7' = [x \in {p} |-> 0] /\ w6' = [x \in {p} |-> <<>>] /\ w18' = [x \in {p} |-> w18[p]]
    BY <1>2, <1>3, OneEntry
  <2> QED
    BY <1>1, <2>1, <2>2, TurnsOrdered
<1>7. Context!SnapshotsSound'
  BY <1>1, <1>2, SnapshotsKept
<1>8. w16' \in 0 .. MaxMishaps
  BY <1>1, <1>2, FailingSound
<1> QED
  BY <1>1, <1>2, <1>5, <1>6, <1>7, <1>8 DEF Context!ContextSound

LEMMA ContextRestart ==
    ASSUME Context!ContextSound, ContextAssumption, NEW p, Writers = {p}, Context!Restart(p)
    PROVE  Context!ContextSound'
<1>1. /\ Context!TasksSound /\ Context!TurnsSound /\ Context!SnapshotsSound
      /\ w9 \subseteq Delegated /\ w16 \in 0 .. MaxMishaps /\ w15 \in BOOLEAN /\ w17 \in BOOLEAN
      /\ MaxTasks \in Nat /\ MaxMishaps \in Nat
  BY DEF Context!ContextSound, ContextAssumption
<1>2. /\ w3' = [w3 EXCEPT ![p] = Context!NoState] /\ w4' = [w4 EXCEPT ![p] = FALSE]
      /\ w7' = [w7 EXCEPT ![p] = 0] /\ w18' = [w18 EXCEPT ![p] = <<>>]
      /\ w6' = w6 \/ w6' = [w6 EXCEPT ![p] = <<>>]
      /\ w9' = {} /\ w16' = w16
      /\ UNCHANGED <<w1, w2, w5, w8, w10, w11, w12, w13, w14, w15, w17>>
  BY DEF Context!Restart, Context!contextVars
<1>3. /\ Ordered(w7[p], w6[p], w18[p], w14, w8) /\ w8 <= MaxTasks
      /\ w7 = [x \in {p} |-> w7[x]] /\ w6 = [x \in {p} |-> w6[x]]
      /\ w18 = [x \in {p} |-> w18[x]]
  BY <1>1, OrderedTurns
<1>5. Context!TasksSound'
  <2>1. w3' = [q \in Writers |-> w3'[q]] /\ w3'[p] = Context!NoState
    BY <1>1, <1>2 DEF Context!TasksSound
  <2>2. w4' \in [Writers -> BOOLEAN] /\ w4'[p] = FALSE
    BY <1>1, <1>2 DEF Context!TasksSound
  <2>3. Context!TaskSound(w1') /\ Context!TaskSound(w5') /\ Context!TaskSound(w3'[p])
    BY <1>1, <1>2, <2>1, NoStateSound DEF Context!TasksSound
  <2>5. Context!TaskKept'
    BY <1>1, <1>2, <2>2 DEF Context!TasksSound, Context!TaskKept, Context!Stored, Context!FromFile
  <2>6. w3'[p] # Context!NoState => w4'[p]
    BY <2>1
  <2> QED
    BY <1>1, <1>2, <2>1, <2>2, <2>3, <2>5, <2>6
       DEF Context!TasksSound, Context!TaskSound, Context!IsTask, Context!Summaries
<1>6. Context!TurnsSound'
  <2>1. /\ Ordered(0, w6[p], <<>>, w14', w8') /\ Ordered(0, <<>>, <<>>, w14', w8')
        /\ w8' <= MaxTasks
    BY <1>2, <1>3, OrderedStop
  <2>2. w7' = [x \in {p} |-> 0] /\ w18' = [x \in {p} |-> <<>>]
    BY <1>2, <1>3, OneEntry
  <2>3. w6' = [x \in {p} |-> w6[p]] \/ w6' = [x \in {p} |-> <<>>]
    BY <1>2, <1>3, OneEntry
  <2> QED
    BY <1>1, <2>1, <2>2, <2>3, TurnsOrdered
<1>7. Context!SnapshotsSound'
  BY <1>1, <1>2, SnapshotsKept
<1> QED
  BY <1>1, <1>2, <1>5, <1>6, <1>7 DEF Context!ContextSound

LEMMA ContextEndTurn ==
    ASSUME Context!ContextSound, ContextAssumption, NEW p, Writers = {p},
           NEW how \in Context!Ways, Context!EndTurn(p, how)
    PROVE  Context!ContextSound'
<1> DEFINE f == Append(w18[p], [turn |-> w7[p], how |-> how, mayStart |-> TRUE])
<1>1. /\ Context!TasksSound /\ Context!TurnsSound /\ Context!SnapshotsSound
      /\ w9 \subseteq Delegated /\ w16 \in 0 .. MaxMishaps /\ w15 \in BOOLEAN /\ w17 \in BOOLEAN
      /\ MaxTasks \in Nat /\ MaxMishaps \in Nat
  BY DEF Context!ContextSound, ContextAssumption
<1>2. /\ w7[p] # 0 /\ (w18[p] = <<>> \/ how # "finished")
      /\ w7' = [w7 EXCEPT ![p] = 0] /\ w18' = [w18 EXCEPT ![p] = f]
      /\ UNCHANGED <<w1, w2, w3, w4, w5, w6, w8, w9, w10, w11, w12, w13, w14, w15, w16, w17>>
  BY DEF Context!EndTurn, Context!Quiet, Context!taskVars, Context!contextVars
<1>3. /\ Ordered(w7[p], w6[p], w18[p], w14, w8) /\ w8 <= MaxTasks
      /\ w7 = [x \in {p} |-> w7[x]] /\ w6 = [x \in {p} |-> w6[x]]
      /\ w18 = [x \in {p} |-> w18[x]]
  BY <1>1, OrderedTurns
<1>5. Context!TasksSound'
  BY <1>1, <1>2 DEF Context!TasksSound, Context!TaskKept, Context!Stored, Context!FromFile,
     Context!TaskSound, Context!IsTask, Context!Summaries
<1>6. Context!TurnsSound'
  <2>1. Ordered(0, w6[p], f, w14', w8') /\ w8' <= MaxTasks
    BY <1>2, <1>3, OrderedEnd
  <2> HIDE DEF f
  <2>2. w7' = [x \in {p} |-> 0] /\ w6' = [x \in {p} |-> w6[p]] /\ w18' = [x \in {p} |-> f]
    BY <1>2, <1>3, OneEntry
  <2> QED
    BY <1>1, <2>1, <2>2, TurnsOrdered
<1>7. Context!SnapshotsSound'
  BY <1>1, <1>2, SnapshotsKept
<1> QED
  BY <1>1, <1>2, <1>5, <1>6, <1>7 DEF Context!ContextSound

\* What a finished turn leaves is of it.
LEMMA SnapshotsLeft ==
    ASSUME Context!SnapshotsSound, ContextAssumption, NEW t \in 1 .. MaxTasks, NEW goal \in Context!Summaries,
           NEW long, NEW F, Context!LeaveContext(t, goal, long, F), w14 \in Nat, t >= w14
    PROVE  Context!SnapshotsSound'
<1> DEFINE s == [goal |-> goal, turn |-> t, reply |-> Context!Text("reply", t)]
<1>1. /\ w10' = (IF "snapshot" \in F THEN w10 ELSE s) /\ w14' = t /\ w15' = ("snapshot" \in F)
      /\ w13' = w13
  BY DEF Context!LeaveContext
<1>2. s \in Context!Snapshots /\ s.turn = t /\ s.reply.turn = t
  BY DEF Context!Snapshots, Context!Text
<1> HIDE DEF s
<1>3. /\ w10 \in {Absent, Bad} \/ FromTurn(w10, w14)
      /\ w13 = Absent \/ FromTurn(w13, w14)
  BY DEF Context!SnapshotsSound, Context!SnapshotSound, FromTurn
<1>4. ASSUME NEW x, FromTurn(x, w14) PROVE FromTurn(x, t)
  <2>1. x.turn \in 1 .. MaxTasks
    BY <1>4 DEF FromTurn, Context!Snapshots
  <2>2. MaxTasks \in Nat /\ x.turn <= w14
    BY <1>4 DEF ContextAssumption, FromTurn
  <2>3. x.turn <= t
    BY <2>1, <2>2
  <2> QED
    BY <1>4, <2>3 DEF FromTurn
<1>5. FromTurn(s, t)
  BY <1>2 DEF FromTurn, ContextAssumption
<1>6. /\ w10' \in {Absent, Bad} \/ FromTurn(w10', w14')
      /\ w13' = Absent \/ FromTurn(w13', w14')
  BY <1>1, <1>3, <1>4, <1>5
<1>7. /\ w10' \in {Absent, Bad} \/ Context!SnapshotSound(w10)'
      /\ w13' = Absent \/ Context!SnapshotSound(w13)'
  BY <1>6 DEF Context!SnapshotSound, FromTurn, Context!Snapshots, Context!Summaries
<1>8. Context!SnapshotOfLast'
  <2>1. s # Absent /\ s # Bad
    BY <1>2 DEF ContextAssumption
  <2> QED
    BY <1>1, <1>2, <2>1 DEF Context!SnapshotOfLast
<1> QED
  BY <1>7, <1>8 DEF Context!SnapshotsSound

LEMMA ContextTurnEnded ==
    ASSUME Context!ContextSound, ContextAssumption, NEW p, Writers = {p}, NEW F, "read" \notin F,
           NEW b \in BOOLEAN, Context!TurnEnded(p, b, F)
    PROVE  Context!ContextSound'
<1> DEFINE e == w18[p]
           t == Context!Last(e).turn
           how == Context!Last(e).how
           f == Context!Front(e)
           state == Context!Load(p, F)
           P1 == Context!With(Context!Patch("failed", t, Context!Text("prompt", t)), [error |-> "failed"])
           P2 == Context!With(Context!Patch("blocked", t, Context!Text("recovered", t)), [error |-> "failed"])
           P3 == Context!With(Context!Patch("done", t, Context!Text("reply", t)), Context!Ended)
<1>1. /\ Context!TasksSound /\ Context!TurnsSound /\ Context!SnapshotsSound
      /\ w9 \subseteq Delegated /\ w16 \in 0 .. MaxMishaps /\ w15 \in BOOLEAN /\ w17 \in BOOLEAN
      /\ MaxTasks \in Nat /\ MaxMishaps \in Nat
  BY DEF Context!ContextSound, ContextAssumption
<1>2. /\ ~w17 /\ e # <<>> /\ Context!Failing(F) /\ w18' = [w18 EXCEPT ![p] = f]
      /\ UNCHANGED <<w6, w7, w8, w9, w17>>
  BY DEF Context!TurnEnded, Context!Live, Context!Quiet
<1>3. \/ how # "finished" /\ Context!Update(p, P1, F) /\ UNCHANGED <<w10, w11, w12, w13, w14, w15>>
      \/ how # "finished" /\ Context!Update(p, P2, F) /\ UNCHANGED <<w10, w11, w12, w13, w14, w15>>
      \/ /\ how \notin {"failed", "recovered"}
         /\ Context!Look(p, F) \/ Context!Update(p, P3, F)
         /\ Context!LeaveContext(t, Context!Goal(state, t), b, F)
  BY DEF Context!TurnEnded, Context!contextVars
<1>4. /\ Ordered(w7[p], w6[p], e, w14, w8) /\ w8 <= MaxTasks
      /\ w7 = [x \in {p} |-> w7[x]] /\ w6 = [x \in {p} |-> w6[x]]
      /\ w18 = [x \in {p} |-> w18[x]]
  BY <1>1, OrderedTurns
<1>5. /\ w8 \in Nat /\ w14 \in Nat /\ Context!Last(e) \in Ends(w8)
      /\ how # "finished" => Ordered(w7[p], w6[p], f, w14, w8)
      /\ how = "finished" => t >= w14 /\ Ordered(w7[p], w6[p], f, t, w8)
  <2>1. w8 \in Nat /\ w14 \in Nat
    BY <1>4 DEF Ordered
  <2> QED
    BY <1>2, <1>4, <2>1, OrderedPop
<1>6. t \in 1 .. MaxTasks /\ how \in Context!Ways
  <2>1. t \in 1 .. w8 /\ how \in Context!Ways
    BY <1>5 DEF Ends
  <2> QED
    BY <1>1, <1>4, <1>5, <2>1
<1> HIDE DEF e, t, how, f
<1>7. GoodPatch(P1) /\ GoodPatch(P2) /\ GoodPatch(P3)
  <2>1. GoodPatch(P1)
    BY <1>6, OtherPatch, SummaryTexts DEF Context!States
  <2>2. GoodPatch(P2)
    BY <1>6, OtherPatch, SummaryTexts DEF Context!States
  <2>3. GoodPatch(P3)
    BY <1>6, EndPatch, SummaryTexts DEF Context!States
  <2> QED
    BY <2>1, <2>2, <2>3
<1> HIDE DEF P1, P2, P3
<1>8. Context!TasksSound'
  BY <1>1, <1>2, <1>3, <1>7, UpdateSound, LookSound
<1>9. Context!Goal(state, t) \in Context!Summaries
  <2>1. state = w5 /\ Context!TaskSound(w5)
    BY <1>1, <1>2, LoadFacts DEF Context!TasksSound
  <2>2. Context!Text("prompt", t) \in Context!Summaries
    BY <1>6, SummaryTexts
  <2> HIDE DEF state
  <2> QED
    BY <2>1, <2>2 DEF Context!Goal, Context!TaskSound
<1> HIDE DEF state
<1>10. CASE how # "finished"
  <2>1. UNCHANGED <<w10, w11, w12, w13, w14, w15>>
    BY <1>3, <1>6, <1>10 DEF Context!Ways
  <2>2. Context!TurnsSound'
    <3>1. Ordered(w7[p], w6[p], f, w14', w8') /\ w8' <= MaxTasks
      BY <1>2, <1>4, <1>5, <1>10, <2>1
    <3>2. w7' = [x \in {p} |-> w7[p]] /\ w6' = [x \in {p} |-> w6[p]] /\ w18' = [x \in {p} |-> f]
      BY <1>2, <1>4, OneEntry DEF e
    <3> QED
      BY <1>1, <3>1, <3>2, TurnsOrdered
  <2>3. Context!SnapshotsSound'
    BY <1>1, <2>1, SnapshotsKept
  <2>4. w16' \in 0 .. MaxMishaps
    BY <1>1, <1>2, FailingSound
  <2> QED
    BY <1>1, <1>2, <1>8, <2>1, <2>2, <2>3, <2>4 DEF Context!ContextSound
<1>11. CASE how = "finished"
  <2>1. Context!LeaveContext(t, Context!Goal(state, t), b, F)
    BY <1>3, <1>11
  <2>2. w14' = t /\ w15' \in BOOLEAN
    BY <2>1 DEF Context!LeaveContext
  <2>3. Context!TurnsSound'
    <3>1. Ordered(w7[p], w6[p], f, w14', w8') /\ w8' <= MaxTasks
      BY <1>2, <1>4, <1>5, <1>11, <2>2
    <3>2. w7' = [x \in {p} |-> w7[p]] /\ w6' = [x \in {p} |-> w6[p]] /\ w18' = [x \in {p} |-> f]
      BY <1>2, <1>4, OneEntry DEF e
    <3> QED
      BY <1>1, <3>1, <3>2, TurnsOrdered
  <2>4. Context!SnapshotsSound'
    BY <1>1, <1>5, <1>6, <1>9, <1>11, <2>1, SnapshotsLeft
  <2>5. w16' \in 0 .. MaxMishaps
    BY <1>1, <1>2, FailingSound
  <2> QED
    BY <1>1, <1>2, <1>8, <2>2, <2>3, <2>4, <2>5 DEF Context!ContextSound
<1> QED
  BY <1>10, <1>11

LEMMA ContextInit ==
    ASSUME Context!Init, ContextAssumption, NEW p, Writers = {p}
    PROVE  Context!ContextSound
<1>1. /\ w1 = Context!NoState /\ w2 \in {Absent, Bad} \cup FormerTasks
      /\ w3 = [x \in {p} |-> Context!NoState] /\ w4 = [x \in {p} |-> FALSE]
      /\ w5 = Context!FromFile(w2) /\ w6 = [x \in {p} |-> <<>>] /\ w7 = [x \in {p} |-> 0]
      /\ w18 = [x \in {p} |-> <<>>] /\ w8 = 0 /\ w9 = {} /\ w10 \in {Absent, Bad}
      /\ w13 = Absent /\ w14 = 0 /\ w15 = FALSE /\ w16 = 0 /\ w17 = FALSE
      /\ MaxTasks \in Nat /\ MaxMishaps \in Nat
  BY DEF Context!Init, ContextAssumption
<1>2. Context!TasksSound
  <2>1. Context!TaskSound(w5)
    BY <1>1, NoStateSound DEF Context!FromFile, ContextAssumption
  <2>2. w3 = [x \in Writers |-> w3[x]] /\ w3[p] = Context!NoState
    BY <1>1
  <2>3. w4 \in [Writers -> BOOLEAN] /\ w4[p] = FALSE
    BY <1>1
  <2>4. Context!TaskKept
    BY <1>1, <2>3 DEF Context!TaskKept, Context!Stored
  <2>5. Context!TaskSound(w1) /\ \A q \in Writers : Context!TaskSound(w3[q]) /\ w3[q] = Context!NoState
    BY <1>1, <2>2, NoStateSound
  <2>6. w2 \in ({Absent, Bad} \cup FormerTasks) \cup {Absent}
    BY <1>1
  <2> QED
    BY <2>1, <2>2, <2>3, <2>4, <2>5, <2>6 DEF Context!TasksSound
<1>3. Context!TurnsSound
  <2>1. w6 \in [{p} -> Seq(1 .. w8)] /\ w18 \in [{p} -> Seq(Ends(w8))] /\ w7 \in [{p} -> 0 .. w8]
    <3>1. <<>> \in Seq(1 .. w8) /\ <<>> \in Seq(Ends(w8)) /\ 0 \in 0 .. w8
      BY <1>1, EmptySeq
    <3> QED
      BY <1>1, <3>1
  <2>2. w6[p] = <<>> /\ w18[p] = <<>> /\ w7[p] = 0
    BY <1>1
  <2>3. Context!Bottom(p) = 0
    BY <1>1, <2>2 DEF Context!Bottom
  <2>4. Len(w6[p]) = 0 /\ Len(w18[p]) = 0
    BY <2>2, EmptySeq
  <2>5. 1 .. 0 = {} /\ 2 .. 0 = {} /\ 0 >= 0
    OBVIOUS
  <2> QED
    BY <1>1, <2>1, <2>2, <2>3, <2>4, <2>5 DEF Context!TurnsSound, Ends
<1>4. Context!SnapshotsSound
  BY <1>1 DEF Context!SnapshotsSound, Context!SnapshotOfLast
<1>5. w9 \subseteq Delegated /\ w15 \in BOOLEAN /\ w17 \in BOOLEAN
  BY <1>1
<1>6. w16 \in 0 .. MaxMishaps
  BY <1>1
<1> QED
  BY <1>2, <1>3, <1>4, <1>5, <1>6 DEF Context!ContextSound

LEMMA ContextStep ==
    ASSUME Context!ContextSound, ContextAssumption, NEW p, Writers = {p}, "read" \notin MayFail,
           Context!Next
    PROVE  Context!ContextSound'
<1>1. CASE Context!Restart(p)
  BY <1>1, ContextRestart
<1>2. CASE \E how \in Context!Ways : Context!EndTurn(p, how)
  BY <1>2, ContextEndTurn
<1>3. ASSUME NEW F \in SUBSET MayFail, Context!Step(p, F)
      PROVE  Context!ContextSound'
  <2>1. "read" \notin F
    OBVIOUS
  <2>2. CASE Context!Enqueue(p, F)
    BY <2>1, <2>2, ContextEnqueue
  <2>3. CASE Context!Start(p, F)
    BY <2>1, <2>3, ContextStart
  <2>4. CASE Context!Abort(p, F)
    BY <2>1, <2>4, ContextAbort
  <2>5. CASE Context!RemoveSession(p, F)
    BY <2>1, <2>5, ContextRemove
  <2>6. CASE \E j \in Delegated : Context!Accept(p, j, F)
    BY <2>1, <2>6, ContextAccept
  <2>7. CASE \E j \in Delegated : \E b \in BOOLEAN : Context!Settle(p, j, b, F)
    BY <2>1, <2>7, ContextSettle
  <2>8. CASE \E b \in BOOLEAN : Context!TurnEnded(p, b, F)
    BY <2>1, <2>8, ContextTurnEnded
  <2> QED
    BY <1>3, <2>2, <2>3, <2>4, <2>5, <2>6, <2>7, <2>8 DEF Context!Step
<1> QED
  BY <1>1, <1>2, <1>3 DEF Context!Next

LEMMA ContextStopped ==
    ASSUME Context!ContextSound, UNCHANGED parts
    PROVE  Context!ContextSound'
<1>1. UNCHANGED <<w1, w2, w3, w4, w5, w6, w7, w8, w9, w10, w11, w12, w13, w14, w15, w16, w17, w18>>
  BY DEF parts
<1>2. Context!TasksSound' /\ Context!TurnsSound' /\ Context!SnapshotsSound'
  <2>1. Context!TasksSound /\ Context!TurnsSound /\ Context!SnapshotsSound
    BY DEF Context!ContextSound
  <2>2. Context!TasksSound'
    BY <1>1, <2>1 DEF Context!TasksSound, Context!TaskKept, Context!Stored, Context!FromFile,
       Context!TaskSound, Context!IsTask, Context!Summaries
  <2> QED
    BY <1>1, <2>1, <2>2, TurnsKept, SnapshotsKept
<1> QED
  BY <1>1, <1>2 DEF Context!ContextSound

LEMMA ContextFacts ==
    ASSUME Context!ContextSound
    PROVE  /\ Context!TypeOK /\ Context!TaskKept /\ Context!DoneIsClean
           /\ Context!SnapshotOfLast /\ Context!GivenFinished
<1>1. Context!TasksSound /\ Context!TurnsSound /\ Context!SnapshotsSound
  BY DEF Context!ContextSound
<1>2. Context!TypeOK
  BY <1>1 DEF Context!ContextSound, Context!TypeOK, Context!TasksSound, Context!TurnsSound, Context!TaskSound
<1>3. Context!TaskKept /\ Context!DoneIsClean
  BY <1>1 DEF Context!TasksSound, Context!TaskSound, Context!DoneIsClean
<1>4. Context!SnapshotOfLast /\ Context!GivenFinished
  BY <1>1 DEF Context!SnapshotsSound, Context!SnapshotSound, Context!GivenFinished
<1> QED
  BY <1>2, <1>3, <1>4

\* For every set of jobs, old files and failures but those of reads, and one process that
\* writes to the session: what is stored of its task is what the updates told, a task that
\* is done waits for nothing, and what a turn is told of was left by a turn that finished.
THEOREM RecordsContext ==
    ASSUME NEW p, Writers = {p}, "read" \notin MayFail
    PROVE  RecordsSpec => [](part = "context" => StoredTrue)
<1> DEFINE Inv == part = "context" => Context!ContextSound
<1>1. (part \in RecordNames => RecordsInit) => Inv
  <2> SUFFICES ASSUME part \in RecordNames => RecordsInit PROVE Inv
    OBVIOUS
  <2>1. part = "context" => Context!Init
    BY DEF RecordsInit, RecordNames
  <2> QED
    BY <2>1, RecordsAssumption, ContextInit
<1>2. Inv /\ [Step]_parts => Inv'
  <2> SUFFICES ASSUME Inv, [Step]_parts PROVE Inv'
    OBVIOUS
  <2>1. CASE Step
    <3>1. part' = part /\ (part = "context" => Context!Next)
      BY <2>1 DEF Step, RecordsNext, RecordNames
    <3> QED
      BY <3>1, RecordsAssumption, ContextStep
  <2>2. CASE UNCHANGED parts
    <3>1. part' = part
      BY <2>2 DEF parts
    <3> QED
      BY <2>2, <3>1, ContextStopped
  <2> QED
    BY <2>1, <2>2
<1>3. Inv => (part = "context" => StoredTrue)
  BY ContextFacts DEF StoredTrue
<1> QED
  BY <1>1, <1>2, <1>3, PTL DEF RecordsSpec, Step

-----------------------------------------------------------------------------
(* The database (Database).  Here versions, tables, column and proc are w1 *)
(* to w4, rows, writer and whole w5 to w7, tabState, wish and shown w8 to  *)
(* w10.                                                                    *)

\* The statements of a file with tables T and, if c, the column: TodoSound.
Todo(d, T, c) ==
    /\ d \in Seq(Base!Statements) /\ d # <<>>
    /\ \A table \in Base!AllTables : table \in T \/ Base!Makes(d, Len(d) + 1, table)
    /\ c \/ Base!Adds(d, Len(d) + 1) \/ d[Len(d)].do = "read"
    /\ \A k \in 1 .. Len(d) :
          /\ d[k].do = "insert" /\ d[k].arg = Base!CurrentVersion =>
                /\ \A table \in Base!AllTables : table \in T \/ Base!Makes(d, k, table)
                /\ c \/ Base!Adds(d, k)
          /\ d[k].do = "read" => k = Len(d)
          /\ d[k].do = "alter" => k = 1

LEMMA TodoFacts ==
    ASSUME NEW d
    PROVE  /\ Base!TodoSound(d) <=> Todo(d, w2, w3)
           /\ Base!TodoSound(d)' <=> Todo(d, w2', w3')
BY DEF Base!TodoSound, Todo, Base!Statements, Base!Makes, Base!Adds, Base!AllTables, Base!CurrentVersion,
   Base!Do, Base!Create

\* Another process only adds to the file.
LEMMA TodoMonotonic ==
    ASSUME NEW d, NEW T, NEW c, Todo(d, T, c), NEW U, T \subseteq U, NEW b, c => b
    PROVE  Todo(d, U, b)
BY DEF Todo

LEMMA StatementFacts ==
    /\ \A table \in Base!AllTables : Base!Create(table) \in Base!Statements
    /\ \A what \in {"read", "check", "alter", "clear"} : Base!Do(what) \in Base!Statements
    /\ \A v \in {1, 2, 3} : [do |-> "insert", arg |-> v] \in Base!Statements
    /\ \A s \in Base!Statements :
          /\ s.do \in {"read", "check", "alter", "clear", "create", "insert"}
          /\ s.do = "create" => s.arg \in Base!AllTables
          /\ s.do = "insert" => s.arg \in 1 .. 3
    /\ \A table : Base!Create(table).do = "create" /\ Base!Create(table).arg = table
    /\ \A what : Base!Do(what).do = what
<1>1. \A s \in Base!Statements :
          /\ s.do \in {"read", "check", "alter", "clear", "create", "insert"}
          /\ s.do = "create" => s.arg \in Base!AllTables
          /\ s.do = "insert" => s.arg \in 1 .. 3
  BY DEF Base!Statements, Base!Do, Base!Create, Base!CurrentVersion
<1>2. 1 .. 3 = {1, 2, 3}
  OBVIOUS
<1> QED
  BY <1>1, <1>2 DEF Base!Statements, Base!Do, Base!Create, Base!CurrentVersion

LEMMA OpeningSound ==
    ASSUME NEW T, NEW c
    PROVE  Todo(Base!Opening, T, c)
<1> DEFINE d == Base!Opening
<1>1. d = <<Base!Create("messages"), Base!Create("events"), Base!Create("schema_info"), Base!Do("read")>>
  BY DEF Base!Opening
<1>2. Base!AllTables = {"messages", "events", "schema_info"}
  BY DEF Base!AllTables
<1>3. /\ d \in Seq(Base!Statements) /\ d # <<>> /\ Len(d) = 4
      /\ d[1] = Base!Create("messages") /\ d[2] = Base!Create("events")
      /\ d[3] = Base!Create("schema_info") /\ d[4] = Base!Do("read")
  BY <1>1, <1>2, StatementFacts
<1> HIDE DEF d
<1>4. /\ d[1].do = "create" /\ d[2].do = "create" /\ d[3].do = "create" /\ d[4].do = "read"
      /\ d[1].arg = "messages" /\ d[2].arg = "events" /\ d[3].arg = "schema_info"
  BY <1>3, StatementFacts
<1>5. \A table \in Base!AllTables : Base!Makes(d, Len(d) + 1, table)
  <2>1. 1 \in 1 .. (4 + 1) - 1 /\ 2 \in 1 .. (4 + 1) - 1 /\ 3 \in 1 .. (4 + 1) - 1
    OBVIOUS
  <2> QED
    BY <1>2, <1>3, <1>4, <2>1 DEF Base!Makes
<1>6. \A k \in 1 .. Len(d) : k = 1 \/ k = 2 \/ k = 3 \/ k = 4
  BY <1>3
<1> QED
  BY <1>3, <1>4, <1>5, <1>6 DEF Todo, d

\* Statements that neither look for the column nor call the file current.
Simple(x) ==
    /\ x \in Seq(Base!Statements)
    /\ \A k \in 1 .. Len(x) :
          /\ x[k].do \notin {"read", "alter"}
          /\ x[k].do = "insert" => x[k].arg # Base!CurrentVersion

LEMMA SimpleConcat ==
    ASSUME NEW x, NEW y, Simple(x), Simple(y)
    PROVE  Simple(x \o y)
<1> DEFINE d == x \o y
<1>1. /\ x \in Seq(Base!Statements) /\ y \in Seq(Base!Statements) /\ Len(x) \in Nat /\ Len(y) \in Nat
      /\ d \in Seq(Base!Statements) /\ Len(d) = Len(x) + Len(y)
      /\ \A k \in 1 .. Len(x) + Len(y) : d[k] = IF k <= Len(x) THEN x[k] ELSE y[k - Len(x)]
  BY LenProperties, ConcatProperties DEF Simple
<1> HIDE DEF d
<1>2. ASSUME NEW k \in 1 .. Len(d)
      PROVE  \/ k \in 1 .. Len(x) /\ d[k] = x[k]
             \/ k - Len(x) \in 1 .. Len(y) /\ d[k] = y[k - Len(x)]
  BY <1>1
<1> QED
  BY <1>1, <1>2 DEF Simple, d

LEMMA MigrationEnd ==
    ASSUME NEW x, Simple(x), NEW y \in Seq(Base!Statements), Len(y) = 3, y[1].do = "check",
           y[2].do = "clear", y[3].do = "insert", NEW c
    PROVE  Todo(x \o y, Base!AllTables, c) /\ x \o y # <<>> /\ Head(x \o y).do # "alter"
<1> DEFINE d == x \o y
           n == Len(x)
<1>1. /\ n \in Nat /\ d \in Seq(Base!Statements) /\ Len(d) = n + 3
      /\ \A k \in 1 .. n + 3 : d[k] = IF k <= n THEN x[k] ELSE y[k - n]
  <2>1. x \in Seq(Base!Statements)
    BY DEF Simple
  <2>2. /\ d \in Seq(Base!Statements) /\ Len(d) = Len(x) + Len(y)
        /\ \A k \in 1 .. Len(x) + Len(y) : d[k] = IF k <= Len(x) THEN x[k] ELSE y[k - Len(x)]
    BY <2>1, ConcatProperties
  <2>3. Len(x) \in Nat
    BY <2>1, LenProperties
  <2> HIDE DEF d
  <2> QED
    BY <2>2, <2>3
<1> HIDE DEF d, n
<1>2. n + 1 \in 1 .. n + 3 /\ d[n + 1] = y[1] /\ d[n + 2] = y[2] /\ d[n + 3] = y[3] /\ d # <<>>
  <2>1. n + 1 \in 1 .. n + 3 /\ n + 2 \in 1 .. n + 3 /\ n + 3 \in 1 .. n + 3
    BY <1>1
  <2>2. d[n + 1] = y[(n + 1) - n] /\ d[n + 2] = y[(n + 2) - n] /\ d[n + 3] = y[(n + 3) - n]
    BY <1>1, <2>1
  <2>3. (n + 1) - n = 1 /\ (n + 2) - n = 2 /\ (n + 3) - n = 3 /\ n + 3 # 0
    BY <1>1
  <2> QED
    BY <1>1, <2>1, <2>2, <2>3, EmptySeq
<1>3. \A k \in n + 2 .. n + 4 : Base!Adds(d, k)
  <2>1. \A k \in n + 2 .. n + 4 : n + 1 \in 1 .. k - 1
    BY <1>1
  <2> QED
    BY <1>2, <2>1 DEF Base!Adds
<1>4. Base!Adds(d, Len(d) + 1)
  BY <1>1, <1>3
<1>5. ASSUME NEW k \in 1 .. Len(d)
      PROVE  /\ d[k].do \notin {"read", "alter"}
             /\ d[k].do = "insert" /\ d[k].arg = Base!CurrentVersion => Base!Adds(d, k)
  <2>1. CASE k \in 1 .. n
    BY <1>1, <2>1 DEF Simple, n
  <2>2. CASE k \in {n + 1, n + 2}
    BY <1>2, <2>2
  <2>3. CASE k = n + 3
    BY <1>1, <1>2, <1>3, <2>3
  <2> QED
    BY <1>1, <2>1, <2>2, <2>3
<1>6. Head(d) = d[1] /\ 1 \in 1 .. Len(d)
  BY <1>1, <1>2
<1> QED
  BY <1>1, <1>2, <1>4, <1>5, <1>6 DEF Todo, d

LEMMA MigrationFacts ==
    /\ \A v \in {0, 1, 2} : \A c :
          /\ Todo(Base!Migration(v), Base!AllTables, c) /\ Base!Migration(v) # <<>>
          /\ Head(Base!Migration(v)).do # "alter"
    /\ Base!Migration(3) = <<>>
<1> DEFINE S(v) == Base!SetVersion(v)
           M == <<Base!Create("events")>> \o S(2)
           E == <<Base!Do("check")>> \o S(3)
<1>1. \A v \in {1, 2, 3} : S(v) = <<Base!Do("clear"), [do |-> "insert", arg |-> v]>>
  BY DEF Base!SetVersion
<1>2. Base!CurrentVersion = 3 /\ "events" \in Base!AllTables
  BY DEF Base!CurrentVersion, Base!AllTables
<1>3. ASSUME NEW v \in {1, 2, 3}
      PROVE  /\ S(v) \in Seq(Base!Statements) /\ Len(S(v)) = 2
             /\ S(v)[1].do = "clear" /\ S(v)[2].do = "insert" /\ S(v)[2].arg = v
  <2>1. Base!Do("clear") \in Base!Statements /\ [do |-> "insert", arg |-> v] \in Base!Statements
    BY StatementFacts
  <2>2. Base!Do("clear").do = "clear"
    BY StatementFacts
  <2> DEFINE a == Base!Do("clear")
             b == [do |-> "insert", arg |-> v]
  <2>3. b.do = "insert" /\ b.arg = v
    OBVIOUS
  <2>4. S(v) = <<a, b>> /\ a \in Base!Statements /\ b \in Base!Statements /\ a.do = "clear"
    BY <1>1, <2>1, <2>2
  <2> HIDE DEF a, b, S
  <2> QED
    BY <2>3, <2>4
<1>4. \A v \in {1, 2} : Simple(S(v))
  <2> SUFFICES ASSUME NEW v \in {1, 2} PROVE Simple(S(v))
    OBVIOUS
  <2>1. \A k \in 1 .. 2 : k = 1 \/ k = 2
    OBVIOUS
  <2> HIDE DEF S
  <2> QED
    BY <1>2, <1>3, <2>1 DEF Simple
<1>5. Simple(<<Base!Create("events")>>)
  <2> DEFINE x == <<Base!Create("events")>>
  <2>1. x \in Seq(Base!Statements) /\ Len(x) = 1 /\ x[1] = Base!Create("events")
    BY <1>2, StatementFacts
  <2> HIDE DEF x
  <2>2. x[1].do = "create"
    BY <2>1, StatementFacts
  <2>3. \A k \in 1 .. Len(x) : k = 1
    BY <2>1
  <2> QED
    BY <2>1, <2>2, <2>3 DEF Simple, x
<1>6. Simple(<<>>)
  BY EmptySeq DEF Simple
<1> HIDE DEF S
<1>7. Simple(M)
  BY <1>4, <1>5, SimpleConcat
<1>8. E \in Seq(Base!Statements) /\ Len(E) = 3 /\ E[1].do = "check" /\ E[2].do = "clear" /\ E[3].do = "insert"
  <2> DEFINE x == <<Base!Do("check")>>
  <2>1. x \in Seq(Base!Statements) /\ Len(x) = 1 /\ x[1] = Base!Do("check")
    BY StatementFacts
  <2> HIDE DEF x
  <2>2. /\ x \o S(3) \in Seq(Base!Statements) /\ Len(x \o S(3)) = Len(x) + Len(S(3))
        /\ \A k \in 1 .. Len(x) + Len(S(3)) :
              (x \o S(3))[k] = IF k <= Len(x) THEN x[k] ELSE S(3)[k - Len(x)]
    BY <1>3, <2>1, ConcatProperties
  <2>3. E = x \o S(3)
    BY DEF x
  <2> HIDE DEF E
  <2>4. E[1] = x[1] /\ E[2] = S(3)[1] /\ E[3] = S(3)[2]
    BY <1>3, <2>1, <2>2, <2>3
  <2> QED
    BY <1>3, <2>1, <2>2, <2>3, <2>4, StatementFacts
<1> HIDE DEF M, E
<1>9. /\ Base!Migration(0) = (S(1) \o M) \o E /\ Base!Migration(1) = (<<>> \o M) \o E
      /\ Base!Migration(2) = (<<>> \o <<>>) \o E /\ Base!Migration(3) = (<<>> \o <<>>) \o <<>>
  BY DEF Base!Migration, Base!When, S, M, E
<1>10. Simple(S(1) \o M) /\ Simple(<<>> \o M) /\ Simple(<<>> \o <<>>)
  BY <1>4, <1>6, <1>7, SimpleConcat
<1>11. (<<>> \o <<>>) \o <<>> = <<>>
  OBVIOUS
<1> QED
  BY <1>8, <1>9, <1>10, <1>11, MigrationEnd

\* The statements left after the first, which is no query, and which finds the column if
\* it looks for it.
LEMMA TodoTail ==
    ASSUME NEW d, NEW T, NEW c, Todo(d, T, c), T \subseteq Base!AllTables,
           NEW U, NEW b, c => b, T \subseteq U, U \subseteq Base!AllTables,
           Head(d).do # "read", Head(d).do = "check" => c, Head(d).do = "alter" => b,
           Head(d).do = "create" => Head(d).arg \in U
    PROVE  /\ Tail(d) = <<>> => U = Base!AllTables /\ b
           /\ Tail(d) # <<>> => Todo(Tail(d), U, b)
<1> DEFINE t == Tail(d)
           n == Len(t)
<1>1. /\ d \in Seq(Base!Statements) /\ d # <<>> /\ Len(d) \in Nat /\ Len(d) >= 1 /\ Head(d) = d[1]
      /\ t \in Seq(Base!Statements) /\ n = Len(d) - 1 /\ n \in Nat
      /\ \A k \in 1 .. n : t[k] = d[k + 1]
  <2>1. d \in Seq(Base!Statements) /\ d # <<>>
    BY DEF Todo
  <2>2. Len(d) \in Nat /\ Len(d) >= 1 /\ Head(d) = d[1]
    BY <2>1, EmptySeq
  <2>3. t \in Seq(Base!Statements) /\ n = Len(d) - 1 /\ \A k \in 1 .. n : t[k] = d[k + 1]
    BY <2>1, HeadTailProperties
  <2> QED
    BY <2>1, <2>2, <2>3
<1> HIDE DEF t, n
<1>2. ASSUME NEW k \in 1 .. n + 1
      PROVE  /\ \A table \in Base!AllTables : Base!Makes(d, k + 1, table) => table \in U \/ Base!Makes(t, k, table)
             /\ Base!Adds(d, k + 1) => b \/ Base!Adds(t, k)
  <2>1. ASSUME NEW i \in 1 .. (k + 1) - 1
        PROVE  i = 1 \/ (i - 1 \in 1 .. k - 1 /\ t[i - 1] = d[i])
    <3>1. i # 1 => i - 1 \in 1 .. k - 1 /\ i - 1 \in 1 .. n /\ (i - 1) + 1 = i
      BY <1>1
    <3> QED
      BY <1>1, <3>1
  <2>2. ASSUME NEW table \in Base!AllTables, Base!Makes(d, k + 1, table)
        PROVE  table \in U \/ Base!Makes(t, k, table)
    <3>1. PICK i \in 1 .. (k + 1) - 1 : d[i].do = "create" /\ d[i].arg = table
      BY <2>2 DEF Base!Makes
    <3> QED
      BY <1>1, <2>1, <3>1 DEF Base!Makes
  <2>3. ASSUME Base!Adds(d, k + 1) PROVE b \/ Base!Adds(t, k)
    <3>1. PICK i \in 1 .. (k + 1) - 1 : d[i].do \in {"check", "alter"}
      BY <2>3 DEF Base!Adds
    <3> QED
      BY <1>1, <2>1, <3>1 DEF Base!Adds
  <2> QED
    BY <2>2, <2>3
<1>3. n + 1 \in 1 .. n + 1 /\ (n + 1) + 1 = Len(d) + 1
  BY <1>1
<1>4. \A table \in Base!AllTables : table \in U \/ Base!Makes(t, n + 1, table)
  BY <1>2, <1>3 DEF Todo
<1>5. t = <<>> <=> n = 0
  BY <1>1, EmptySeq DEF n
<1>6. CASE n = 0
  <2>1. ~Base!Adds(t, n + 1) /\ \A table : ~Base!Makes(t, n + 1, table)
    <3>1. 1 .. (n + 1) - 1 = {}
      BY <1>6
    <3> QED
      BY <3>1 DEF Base!Adds, Base!Makes
  <2>2. c \/ Base!Adds(d, (n + 1) + 1) \/ d[Len(d)].do = "read"
    BY <1>3 DEF Todo
  <2>3. d[Len(d)] = Head(d)
    <3>1. Len(d) = 1
      BY <1>1, <1>6
    <3> QED
      BY <1>1, <3>1
  <2>4. b
    BY <1>2, <1>3, <2>1, <2>2, <2>3
  <2>5. U = Base!AllTables
    BY <1>4, <2>1
  <2> QED
    BY <1>5, <1>6, <2>4, <2>5 DEF t
<1>7. CASE n # 0
  <2>1. n \in 1 .. n /\ t[n] = d[Len(d)]
    <3>1. n \in 1 .. n /\ n + 1 = Len(d)
      BY <1>1, <1>7
    <3> QED
      BY <1>1, <3>1
  <2>2. b \/ Base!Adds(t, n + 1) \/ t[n].do = "read"
    BY <1>2, <1>3, <2>1 DEF Todo
  <2>3. ASSUME NEW k \in 1 .. n
        PROVE  /\ t[k].do = "insert" /\ t[k].arg = Base!CurrentVersion =>
                     /\ \A table \in Base!AllTables : table \in U \/ Base!Makes(t, k, table)
                     /\ b \/ Base!Adds(t, k)
               /\ t[k].do = "read" => k = n
               /\ t[k].do # "alter"
    <3>1. k + 1 \in 1 .. Len(d) /\ k \in 1 .. n + 1 /\ t[k] = d[k + 1] /\ k + 1 # 1
      BY <1>1
    <3>2. k + 1 = Len(d) => k = n
      BY <1>1
    <3> QED
      BY <1>2, <3>1, <3>2 DEF Todo
  <2> QED
    BY <1>1, <1>4, <1>5, <1>7, <2>2, <2>3 DEF Todo, t, n
<1> QED
  BY <1>6, <1>7

\* The column is missing: it is added next.
LEMMA TodoAlter ==
    ASSUME NEW d, NEW T, NEW c, Todo(d, T, c), Head(d).do = "check"
    PROVE  Todo(<<Base!Do("alter")>> \o Tail(d), T, c) /\ <<Base!Do("alter")>> \o Tail(d) # <<>>
<1> DEFINE t == Tail(d)
           x == <<Base!Do("alter")>>
           e == x \o t
<1>1. /\ d \in Seq(Base!Statements) /\ d # <<>> /\ Len(d) \in Nat /\ Len(d) >= 1 /\ Head(d) = d[1]
      /\ t \in Seq(Base!Statements) /\ Len(t) = Len(d) - 1 /\ Len(t) \in Nat
      /\ \A k \in 1 .. Len(t) : t[k] = d[k + 1]
  <2>1. d \in Seq(Base!Statements) /\ d # <<>>
    BY DEF Todo
  <2>2. Len(d) \in Nat /\ Len(d) >= 1 /\ Head(d) = d[1]
    BY <2>1, EmptySeq
  <2>3. t \in Seq(Base!Statements) /\ Len(t) = Len(d) - 1 /\ \A k \in 1 .. Len(t) : t[k] = d[k + 1]
    BY <2>1, HeadTailProperties
  <2> QED
    BY <2>1, <2>2, <2>3
<1>2. x \in Seq(Base!Statements) /\ Len(x) = 1 /\ x[1].do = "alter"
  <2>1. Base!Do("alter") \in Base!Statements /\ Base!Do("alter").do = "alter"
    BY StatementFacts
  <2> QED
    BY <2>1
<1> HIDE DEF x, t
<1>3. /\ e \in Seq(Base!Statements) /\ Len(e) = Len(x) + Len(t)
      /\ \A k \in 1 .. Len(x) + Len(t) : e[k] = IF k <= Len(x) THEN x[k] ELSE t[k - Len(x)]
  <2>1. x \in Seq(Base!Statements) /\ t \in Seq(Base!Statements)
    BY <1>1, <1>2
  <2> QED
    BY <2>1, ConcatProperties
<1> HIDE DEF e
<1>4. Len(e) = Len(d) /\ e[1].do = "alter" /\ \A k \in 2 .. Len(d) : e[k] = d[k]
  <2>1. Len(e) = Len(d) /\ 1 \in 1 .. Len(x) + Len(t)
    BY <1>1, <1>2, <1>3
  <2>2. e[1] = x[1]
    BY <1>2, <1>3, <2>1
  <2>3. ASSUME NEW k \in 2 .. Len(d) PROVE e[k] = d[k]
    <3>1. k \in 1 .. Len(x) + Len(t) /\ ~(k <= 1) /\ k - 1 \in 1 .. Len(t) /\ (k - 1) + 1 = k
      BY <1>1, <1>2
    <3> QED
      BY <1>1, <1>2, <1>3, <3>1
  <2> QED
    BY <1>2, <2>1, <2>2, <2>3
<1>5. e # <<>>
  BY <1>1, <1>3, <1>4, EmptySeq
<1>6. ASSUME NEW k \in 1 .. Len(d) + 1
      PROVE  /\ \A table : Base!Makes(d, k, table) => Base!Makes(e, k, table)
             /\ Base!Adds(d, k) => Base!Adds(e, k)
  <2>1. \A i \in 1 .. k - 1 : i = 1 \/ e[i] = d[i]
    BY <1>1, <1>4
  <2>2. d[1].do = "check"
    BY <1>1
  <2> QED
    BY <1>4, <2>1, <2>2 DEF Base!Makes, Base!Adds
<1>7. Len(d) + 1 \in 1 .. Len(d) + 1 /\ 1 \in 1 .. Len(d)
  BY <1>1
<1>8. d[Len(d)].do = "read" => e[Len(e)].do = "read"
  <2>1. CASE Len(d) = 1
    BY <1>1, <2>1
  <2>2. CASE Len(d) # 1
    <3>1. Len(d) \in 2 .. Len(d)
      BY <1>1, <2>2
    <3> QED
      BY <1>4, <3>1
  <2> QED
    BY <2>1, <2>2
<1>9. ASSUME NEW k \in 1 .. Len(e)
      PROVE  /\ e[k].do = "insert" /\ e[k].arg = Base!CurrentVersion =>
                   /\ \A table \in Base!AllTables : table \in T \/ Base!Makes(e, k, table)
                   /\ c \/ Base!Adds(e, k)
             /\ e[k].do = "read" => k = Len(e)
             /\ e[k].do = "alter" => k = 1
  <2>1. k = 1 \/ (k \in 2 .. Len(d) /\ e[k] = d[k])
    BY <1>1, <1>4
  <2>2. k \in 1 .. Len(d) + 1 /\ k \in 1 .. Len(d)
    BY <1>1, <1>4
  <2>3. CASE k = 1
    BY <1>4, <2>3
  <2>4. CASE e[k] = d[k]
    BY <1>4, <1>6, <2>2, <2>4 DEF Todo
  <2> QED
    BY <2>1, <2>3, <2>4
<1> QED
  BY <1>3, <1>4, <1>5, <1>6, <1>7, <1>8, <1>9 DEF Todo, e, x, t

\* The query is the last statement, and finds all tables there.
LEMMA TodoRead ==
    ASSUME NEW d, NEW T, NEW c, Todo(d, T, c), T \subseteq Base!AllTables, Head(d).do = "read"
    PROVE  Tail(d) = <<>> /\ T = Base!AllTables
<1>1. d \in Seq(Base!Statements) /\ d # <<>>
  BY DEF Todo
<1>2. Len(d) \in Nat /\ Len(d) >= 1 /\ Head(d) = d[1]
  BY <1>1, EmptySeq
<1>3. 1 \in 1 .. Len(d)
  BY <1>2
<1>4. Len(d) = 1
  BY <1>2, <1>3 DEF Todo
<1>5. Tail(d) \in Seq(Base!Statements) /\ Len(Tail(d)) = 0
  BY <1>1, <1>4, HeadTailProperties
<1>6. 1 .. (Len(d) + 1) - 1 = {1}
  BY <1>4
<1>7. \A table : ~Base!Makes(d, Len(d) + 1, table)
  BY <1>2, <1>6 DEF Base!Makes
<1>8. \A table \in Base!AllTables : table \in T
  BY <1>7 DEF Todo
<1> QED
  BY <1>5, <1>8, EmptySeq

LEMMA NewestFacts ==
    ASSUME NEW V, V \subseteq 1 .. 3
    PROVE  Base!Newest(V) \in {0, 1, 2, 3} /\ (Base!Newest(V) = 3 => 3 \in V)
<1> DEFINE W == V \cup {0}
<1>1. \E v \in W : \A u \in V : u <= v
  <2>1. V \subseteq {1, 2, 3}
    OBVIOUS
  <2>2. CASE 3 \in V
    BY <2>1, <2>2
  <2>3. CASE 3 \notin V /\ 2 \in V
    BY <2>1, <2>3
  <2>4. CASE 3 \notin V /\ 2 \notin V /\ 1 \in V
    BY <2>1, <2>4
  <2>5. CASE V = {}
    BY <2>5
  <2> QED
    BY <2>1, <2>2, <2>3, <2>4, <2>5
<1>2. Base!Newest(V) \in W
  BY <1>1 DEF Base!Newest
<1> DEFINE n == Base!Newest(V)
<1>3. n \in V \cup {0}
  BY <1>2
<1> HIDE DEF n
<1>4. n \in {0, 1, 2, 3} /\ (n = 3 => 3 \in V)
  BY <1>3
<1> QED
  BY <1>4 DEF n

LEMMA TailHead ==
    ASSUME NEW S, NEW d \in Seq(S), d # <<>>, Tail(d) # <<>>
    PROVE  Len(d) \in Nat /\ Len(d) > 1 /\ Head(Tail(d)) = d[2] /\ 2 \in 1 .. Len(d)
<1>1. /\ Tail(d) \in Seq(S) /\ Len(Tail(d)) = Len(d) - 1
      /\ \A k \in 1 .. Len(Tail(d)) : Tail(d)[k] = d[k + 1]
  BY HeadTailProperties
<1>2. Len(d) \in Nat /\ Len(Tail(d)) \in Nat /\ Len(Tail(d)) # 0 /\ Head(Tail(d)) = Tail(d)[1]
  BY <1>1, EmptySeq
<1>3. 1 \in 1 .. Len(Tail(d)) /\ 1 + 1 = 2 /\ Len(d) > 1 /\ 2 \in 1 .. Len(d)
  BY <1>1, <1>2
<1> QED
  BY <1>1, <1>2, <1>3

\* The statements a process is left with, and what it is then.
LEMMA ProcUpdated ==
    ASSUME w4 \in [BaseProcesses -> [status : {"off", "opening", "ready", "crippled"},
                                     todo : Seq(Base!Statements), beside : BOOLEAN]],
           NEW p \in BaseProcesses, NEW s \in {"off", "opening", "ready", "crippled"},
           NEW d \in Seq(Base!Statements),
           w4' = [w4 EXCEPT ![p].todo = d, ![p].status = s]
    PROVE  /\ w4' \in [BaseProcesses -> [status : {"off", "opening", "ready", "crippled"},
                                         todo : Seq(Base!Statements), beside : BOOLEAN]]
           /\ w4'[p].status = s /\ w4'[p].todo = d /\ w4'[p].beside = w4[p].beside
           /\ \A q \in BaseProcesses \ {p} : w4'[q] = w4[q]
<1> DEFINE R == [status : {"off", "opening", "ready", "crippled"},
                 todo : Seq(Base!Statements), beside : BOOLEAN]
           r == [status |-> s, todo |-> d, beside |-> w4[p].beside]
<1>1. w4[p] \in R
  OBVIOUS
<1>2. r \in R /\ r.status = s /\ r.todo = d /\ r.beside = w4[p].beside
  BY <1>1
<1>3. w4' = [w4 EXCEPT ![p] = [[@ EXCEPT !.todo = d] EXCEPT !.status = s]]
  OBVIOUS
<1>4. [[w4[p] EXCEPT !.todo = d] EXCEPT !.status = s] = r
  <2> DEFINE y == w4[p]
  <2>1. y = [status |-> y.status, todo |-> y.todo, beside |-> y.beside]
    BY <1>1
  <2> HIDE DEF y
  <2>2. [[y EXCEPT !.todo = d] EXCEPT !.status = s] = [status |-> s, todo |-> d, beside |-> y.beside]
    <3> DEFINE a == y.status
               b == y.todo
               c == y.beside
    <3>1. y = [status |-> a, todo |-> b, beside |-> c]
      BY <2>1
    <3> HIDE DEF a, b, c
    <3>2. [y EXCEPT !.todo = d] = [status |-> a, todo |-> d, beside |-> c]
      BY <3>1
    <3> DEFINE z == [y EXCEPT !.todo = d]
    <3>3. z = [status |-> a, todo |-> d, beside |-> c]
      BY <3>2
    <3> HIDE DEF z
    <3>4. [z EXCEPT !.status = s] = [status |-> s, todo |-> d, beside |-> c]
      BY <3>3
    <3> QED
      BY <3>4 DEF z, c
  <2> QED
    BY <2>2 DEF y
<1> HIDE DEF r
<1>5. w4' = [w4 EXCEPT ![p] = r] /\ w4 \in [BaseProcesses -> R]
  BY <1>3, <1>4
<1> HIDE DEF R
<1>6. w4' \in [BaseProcesses -> R] /\ w4'[p] = r /\ \A q \in BaseProcesses \ {p} : w4'[q] = w4[q]
  BY <1>2, <1>5
<1> QED
  BY <1>2, <1>6 DEF R

LEMMA DatabaseStatement ==
    ASSUME Base!DatabaseSound, NEW p \in BaseProcesses, Base!Statement(p)
    PROVE  Base!DatabaseSound'
<1> DEFINE d == w4[p].todo
           s == Head(d)
           more == CASE s.do = "read" -> Base!Migration(Base!Newest(w1))
                     [] s.do = "check" -> Base!Checked(w3)
                     [] OTHER -> <<>>
           e == more \o Tail(d)
           status == IF e = <<>> THEN "ready" ELSE "opening"
<1>1. /\ w4 \in [BaseProcesses -> [status : {"off", "opening", "ready", "crippled"},
                                   todo : Seq(Base!Statements), beside : BOOLEAN]]
      /\ Base!FileSound /\ Base!WriterSound /\ Base!TabsSound
      /\ w5 = w7 /\ w10.read = w10.due
      /\ w10.read \in ShownTabs \cup {FormerTabs, None}
  BY DEF Base!DatabaseSound
<1>2. /\ w1 \subseteq 1 .. 3 /\ w2 \subseteq Base!AllTables /\ w3 \in BOOLEAN
      /\ 3 \in w1 => w2 = Base!AllTables /\ w3
      /\ \A q \in BaseProcesses :
            /\ w4[q].status = "ready" => w2 = Base!AllTables /\ w3
            /\ w4[q].status = "opening" => Todo(w4[q].todo, w2, w3)
            /\ Base!AloneSound(q)
            /\ w4[q].status = "crippled" => w4[q].beside
  BY <1>1, TodoFacts DEF Base!FileSound, Base!Initializing, Base!CurrentVersion
<1>3. /\ w4[p].status = "opening" /\ ~(s.do = "alter" /\ w3) /\ Base!Written(s)
      /\ w4' = [w4 EXCEPT ![p].todo = e, ![p].status = status]
      /\ UNCHANGED <<w5, w6, w7, w8, w9, w10>>
  BY DEF Base!Statement, Base!Initializing, Base!Goes, Base!useVars
<1>4. Todo(d, w2, w3) /\ d \in Seq(Base!Statements) /\ d # <<>> /\ s \in Base!Statements /\ s = d[1]
      /\ 1 \in 1 .. Len(d)
  <2>1. Todo(d, w2, w3)
    BY <1>2, <1>3
  <2>2. d \in Seq(Base!Statements) /\ d # <<>>
    BY <2>1 DEF Todo
  <2>3. s \in Base!Statements /\ s = d[1] /\ 1 \in 1 .. Len(d)
    BY <2>2, HeadTailProperties, EmptySeq
  <2> QED
    BY <2>1, <2>2, <2>3
<1>5. Tail(d) \in Seq(Base!Statements)
  BY <1>4, HeadTailProperties
<1>6. /\ s.do \in {"read", "check", "alter", "clear", "create", "insert"}
      /\ s.do = "create" => s.arg \in Base!AllTables
      /\ s.do = "insert" => s.arg \in 1 .. 3
  BY <1>4, StatementFacts
<1>7. /\ w1' = IF s.do = "clear" THEN {} ELSE IF s.do = "insert" THEN w1 \cup {s.arg} ELSE w1
      /\ w2' = IF s.do = "create" THEN w2 \cup {s.arg} ELSE w2
      /\ w3' = (w3 \/ s.do = "alter" \/ (s.do = "create" /\ s.arg = "messages" /\ "messages" \notin w2))
  <2>1. "clear" # "insert"
    OBVIOUS
  <2> HIDE DEF s
  <2> QED
    BY <1>3, <2>1 DEF Base!Written
<1>8. /\ s.do = "read" => more = Base!Migration(Base!Newest(w1))
      /\ s.do = "check" => more = IF w3 THEN <<>> ELSE <<Base!Do("alter")>>
      /\ s.do \notin {"read", "check"} => more = <<>>
  <2>1. "read" # "check"
    OBVIOUS
  <2> HIDE DEF s
  <2> QED
    BY <2>1 DEF Base!Checked, Base!When
<1> HIDE DEF d, s, more, e, status
\* What the schema is now.
<1>9. /\ w1' \subseteq 1 .. 3 /\ w2' \subseteq Base!AllTables /\ w3' \in BOOLEAN
      /\ w2 \subseteq w2' /\ (w3 => w3')
  BY <1>2, <1>6, <1>7
<1>10. 3 \in w1' => w2' = Base!AllTables /\ w3'
  <2>1. CASE 3 \in w1
    BY <1>2, <1>9, <2>1
  <2>2. CASE s.do = "insert" /\ s.arg = 3
    <3>1. 1 .. 1 - 1 = {}
      OBVIOUS
    <3>2. ~Base!Adds(d, 1) /\ \A table : ~Base!Makes(d, 1, table)
      BY <3>1 DEF Base!Adds, Base!Makes
    <3>3. /\ \A table \in Base!AllTables : table \in w2 \/ Base!Makes(d, 1, table)
          /\ w3 \/ Base!Adds(d, 1)
      BY <1>4, <2>2 DEF Todo, Base!CurrentVersion
    <3> QED
      BY <1>2, <1>9, <3>2, <3>3
  <2> QED
    BY <1>7, <2>1, <2>2
\* What is left to do.
<1>11. /\ e \in Seq(Base!Statements)
       /\ e = <<>> => w2' = Base!AllTables /\ w3'
       /\ e # <<>> => Todo(e, w2', w3')
       /\ e # <<>> /\ Head(e).do = "alter" => ~w3'
  <2>1. CASE s.do = "read"
    <3>1. Tail(d) = <<>> /\ w2 = Base!AllTables
      BY <1>2, <1>4, <2>1, TodoRead DEF s
    <3>2. w2' = w2 /\ w3' = w3
      BY <1>7, <2>1, <1>2
    <3> DEFINE v == Base!Newest(w1)
    <3>3. v \in {0, 1, 2, 3} /\ (v = 3 => 3 \in w1)
      BY <1>2, NewestFacts
    <3> HIDE DEF v
    <3>4. more = Base!Migration(v)
      BY <1>8, <2>1 DEF v
    <3>5. CASE v = 3
      <4>1. e = <<>>
        BY <3>1, <3>4, <3>5, MigrationFacts DEF e
      <4> QED
        BY <1>2, <3>2, <3>3, <3>5, <4>1, EmptySeq
    <3>6. CASE v \in {0, 1, 2}
      <4>1. Todo(more, w2', w3') /\ more # <<>>
        BY <3>1, <3>2, <3>4, <3>6, MigrationFacts
      <4>2. more \in Seq(Base!Statements)
        BY <4>1 DEF Todo
      <4>3. e = more
        BY <3>1, <4>2, ConcatEmptySeq DEF e
      <4>4. Head(more).do # "alter"
        BY <3>4, <3>6, MigrationFacts
      <4> QED
        BY <4>1, <4>2, <4>3, <4>4
    <3> QED
      BY <3>3, <3>5, <3>6
  <2>2. CASE s.do = "check" /\ ~w3
    <3>1. e = <<Base!Do("alter")>> \o Tail(d)
      BY <1>8, <2>2 DEF e
    <3>2. w2' = w2 /\ w3' = w3
      BY <1>2, <1>7, <2>2
    <3>3. Todo(e, w2, w3) /\ e # <<>>
      BY <1>4, <2>2, <3>1, TodoAlter DEF s
    <3> QED
      BY <2>2, <3>2, <3>3 DEF Todo
  <2>3. CASE s.do \notin {"read", "check"} \/ (s.do = "check" /\ w3)
    <3>1. more = <<>>
      BY <1>8, <2>3
    <3>2. e = Tail(d)
      BY <1>5, <3>1, ConcatEmptySeq DEF e
    <3>3. /\ s.do # "read" /\ (s.do = "check" => w3) /\ (s.do = "alter" => w3')
          /\ s.do = "create" => s.arg \in w2'
      BY <1>7, <2>3
    <3>4. /\ Tail(d) = <<>> => w2' = Base!AllTables /\ w3'
          /\ Tail(d) # <<>> => Todo(Tail(d), w2', w3')
      BY <1>2, <1>4, <1>9, <3>3, TodoTail DEF s
    <3>5. ASSUME Tail(d) # <<>> PROVE Head(Tail(d)).do # "alter"
      <4>1. Len(d) \in Nat /\ Len(d) > 1 /\ Head(Tail(d)) = d[2] /\ 2 \in 1 .. Len(d)
        BY <1>4, <3>5, TailHead
      <4> QED
        BY <1>4, <4>1 DEF Todo
    <3> QED
      BY <1>5, <3>2, <3>4, <3>5
  <2> QED
    BY <2>1, <2>2, <2>3
<1>12. /\ w4' \in [BaseProcesses -> [status : {"off", "opening", "ready", "crippled"},
                                     todo : Seq(Base!Statements), beside : BOOLEAN]]
       /\ w4'[p].status = status /\ w4'[p].todo = e /\ w4'[p].beside = w4[p].beside
       /\ \A q \in BaseProcesses \ {p} : w4'[q] = w4[q]
  <2>1. status \in {"off", "opening", "ready", "crippled"}
    BY DEF status
  <2> QED
    BY <1>1, <1>3, <1>11, <2>1, ProcUpdated
<1>13. ASSUME NEW q \in BaseProcesses
       PROVE  /\ w4'[q].status = "ready" => w2' = Base!AllTables /\ w3'
              /\ w4'[q].status = "opening" => Todo(w4'[q].todo, w2', w3')
              /\ w4'[q].status = "crippled" => w4'[q].beside
  <2>1. CASE q = p
    BY <1>11, <1>12, <2>1 DEF status
  <2>2. CASE q # p
    <3>1. w4'[q] = w4[q]
      BY <1>12, <2>2
    <3>2. w4[q].status = "ready" => w2' = Base!AllTables /\ w3'
      BY <1>2, <1>9
    <3>3. w4[q].status = "opening" => Todo(w4[q].todo, w2', w3')
      BY <1>2, <1>9, TodoMonotonic
    <3> QED
      BY <1>2, <3>1, <3>2, <3>3
  <2> QED
    BY <2>1, <2>2
<1>14. ASSUME NEW q \in BaseProcesses, w4'[q].status = "opening", ~w4'[q].beside
       PROVE  /\ \A x \in BaseProcesses \ {q} : w4'[x].status # "opening"
              /\ Head(w4'[q].todo).do = "alter" => ~w3'
  <2>1. w4[q].status = "opening" /\ ~w4[q].beside
    BY <1>3, <1>12, <1>14
  <2>2. \A x \in BaseProcesses \ {q} : w4[x].status # "opening"
    BY <1>2, <2>1 DEF Base!AloneSound, Base!Initializing
  <2>3. q = p
    BY <1>3, <2>2
  <2> QED
    BY <1>11, <1>12, <1>14, <2>2, <2>3 DEF status
<1>15. Base!FileSound'
  BY <1>9, <1>10, <1>13, <1>14, TodoFacts
     DEF Base!FileSound, Base!Initializing, Base!AloneSound, Base!CurrentVersion, Base!AllTables
<1>16. Base!WriterSound' /\ Base!TabsSound'
  BY <1>1, <1>3 DEF Base!WriterSound, Base!TabsSound
<1> QED
  BY <1>1, <1>3, <1>12, <1>15, <1>16 DEF Base!DatabaseSound, Base!Statements, Base!AllTables, Base!CurrentVersion,
     Base!Do, Base!Create

\* What a transaction has written and is left with are turns.
WriterTyped ==
    w6 # None => /\ w6.now \in Seq(BaseTurns) /\ w6.left \in Seq(BaseTurns)
                 /\ w6.turns \in Seq(BaseTurns)

ProcTyped ==
    w4 \in [BaseProcesses -> [status : {"off", "opening", "ready", "crippled"},
                              todo : Seq(Base!Statements), beside : BOOLEAN]]

\* The file, as the processes see it, written out.
LEMMA FileFacts ==
    Base!FileSound <=>
      /\ w1 \subseteq 1 .. 3 /\ w2 \subseteq Base!AllTables /\ w3 \in BOOLEAN
      /\ 3 \in w1 => w2 = Base!AllTables /\ w3
      /\ \A q \in BaseProcesses :
            /\ w4[q].status = "ready" => w2 = Base!AllTables /\ w3
            /\ w4[q].status = "opening" => Todo(w4[q].todo, w2, w3)
            /\ w4[q].status = "opening" /\ ~w4[q].beside =>
                  /\ \A x \in BaseProcesses \ {q} : w4[x].status # "opening"
                  /\ Head(w4[q].todo).do = "alter" => ~w3
            /\ w4[q].status = "crippled" => w4[q].beside
BY TodoFacts DEF Base!FileSound, Base!Initializing, Base!CurrentVersion, Base!AloneSound

LEMMA FileFactsNext ==
    ASSUME /\ w1' \subseteq 1 .. 3 /\ w2' \subseteq Base!AllTables /\ w3' \in BOOLEAN
           /\ 3 \in w1' => w2' = Base!AllTables /\ w3'
           /\ \A q \in BaseProcesses :
                 /\ w4'[q].status = "ready" => w2' = Base!AllTables /\ w3'
                 /\ w4'[q].status = "opening" => Todo(w4'[q].todo, w2', w3')
                 /\ w4'[q].status = "opening" /\ ~w4'[q].beside =>
                       /\ \A x \in BaseProcesses \ {q} : w4'[x].status # "opening"
                       /\ Head(w4'[q].todo).do = "alter" => ~w3'
                 /\ w4'[q].status = "crippled" => w4'[q].beside
    PROVE  Base!FileSound'
BY TodoFacts
   DEF Base!FileSound, Base!Initializing, Base!AloneSound, Base!CurrentVersion, Base!AllTables

\* A step that leaves the schema alone, and of the processes at most one, which it stops.
LEMMA FileKept ==
    ASSUME Base!FileSound, UNCHANGED <<w1, w2, w3>>,
           \A q \in BaseProcesses :
              \/ w4'[q] = w4[q]
              \/ w4'[q].status = "off"
              \/ w4'[q].status = "crippled" /\ w4'[q].beside
    PROVE  Base!FileSound'
<1>1. \A q \in BaseProcesses :
            /\ w4'[q].status = "ready" => w2' = Base!AllTables /\ w3'
            /\ w4'[q].status = "opening" => Todo(w4'[q].todo, w2', w3')
            /\ w4'[q].status = "opening" /\ ~w4'[q].beside =>
                  /\ \A x \in BaseProcesses \ {q} : w4'[x].status # "opening"
                  /\ Head(w4'[q].todo).do = "alter" => ~w3'
            /\ w4'[q].status = "crippled" => w4'[q].beside
  <2>1. \A q \in BaseProcesses : w4'[q].status = "opening" => w4'[q] = w4[q]
    OBVIOUS
  <2> QED
    BY <2>1, FileFacts
<1> QED
  BY <1>1, FileFacts, FileFactsNext

LEMMA TypedKept ==
    ASSUME ProcTyped, w4' = w4
    PROVE  ProcTyped'
BY DEF ProcTyped, Base!Statements, Base!AllTables, Base!CurrentVersion, Base!Do, Base!Create

\* The two fields are set in either order.
LEMMA ProcSwap ==
    ASSUME ProcTyped, NEW p \in BaseProcesses, NEW s
    PROVE  [w4 EXCEPT ![p].status = s, ![p].todo = <<>>] = [w4 EXCEPT ![p].todo = <<>>, ![p].status = s]
<1> DEFINE y == w4[p]
           a == y.status
           b == y.todo
           c == y.beside
<1>1. y = [status |-> a, todo |-> b, beside |-> c]
  BY DEF ProcTyped
<1>2. /\ [w4 EXCEPT ![p].status = s, ![p].todo = <<>>]
           = [w4 EXCEPT ![p] = [[y EXCEPT !.status = s] EXCEPT !.todo = <<>>]]
      /\ [w4 EXCEPT ![p].todo = <<>>, ![p].status = s]
           = [w4 EXCEPT ![p] = [[y EXCEPT !.todo = <<>>] EXCEPT !.status = s]]
  BY DEF ProcTyped
<1> HIDE DEF y, a, b, c
<1>3. /\ [y EXCEPT !.status = s] = [status |-> s, todo |-> b, beside |-> c]
      /\ [y EXCEPT !.todo = <<>>] = [status |-> a, todo |-> <<>>, beside |-> c]
  BY <1>1
<1> DEFINE f == [y EXCEPT !.status = s]
           g == [y EXCEPT !.todo = <<>>]
<1>4. f = [status |-> s, todo |-> b, beside |-> c] /\ g = [status |-> a, todo |-> <<>>, beside |-> c]
  BY <1>3
<1>5. /\ [w4 EXCEPT ![p].status = s, ![p].todo = <<>>] = [w4 EXCEPT ![p] = [f EXCEPT !.todo = <<>>]]
      /\ [w4 EXCEPT ![p].todo = <<>>, ![p].status = s] = [w4 EXCEPT ![p] = [g EXCEPT !.status = s]]
  BY <1>2
<1> HIDE DEF f, g
<1>6. /\ [f EXCEPT !.todo = <<>>] = [status |-> s, todo |-> <<>>, beside |-> c]
      /\ [g EXCEPT !.status = s] = [status |-> s, todo |-> <<>>, beside |-> c]
  BY <1>4
<1> QED
  BY <1>5, <1>6

LEMMA ProcStops ==
    ASSUME ProcTyped, NEW p \in BaseProcesses, NEW s \in {"off", "crippled"},
           w4' = [w4 EXCEPT ![p].todo = <<>>, ![p].status = s]
    PROVE  /\ ProcTyped' /\ w4'[p].status = s /\ w4'[p].beside = w4[p].beside
           /\ \A q \in BaseProcesses \ {p} : w4'[q] = w4[q]
<1>1. <<>> \in Seq(Base!Statements) /\ s \in {"off", "opening", "ready", "crippled"}
  BY EmptySeq
<1>2. /\ w4' \in [BaseProcesses -> [status : {"off", "opening", "ready", "crippled"},
                                    todo : Seq(Base!Statements), beside : BOOLEAN]]
      /\ w4'[p].status = s /\ w4'[p].beside = w4[p].beside
      /\ \A q \in BaseProcesses \ {p} : w4'[q] = w4[q]
  BY <1>1, ProcUpdated DEF ProcTyped
<1> QED
  BY <1>2 DEF ProcTyped, Base!Statements, Base!AllTables, Base!CurrentVersion, Base!Do, Base!Create

LEMMA DatabaseStart ==
    ASSUME Base!FileSound, ProcTyped, NEW p \in BaseProcesses, Base!Start(p)
    PROVE  Base!FileSound' /\ ProcTyped'
<1> DEFINE R == [status : {"off", "opening", "ready", "crippled"},
                 todo : Seq(Base!Statements), beside : BOOLEAN]
           others == {q \in BaseProcesses \ {p} : w4[q].status = "opening"}
           a == [status |-> "opening", todo |-> Base!Opening, beside |-> others # {}]
           b(q) == [w4[q] EXCEPT !.beside = @ \/ q \in others]
<1>1. /\ w4' = [q \in BaseProcesses |-> IF q = p THEN a ELSE b(q)]
      /\ UNCHANGED <<w1, w2, w3>>
  BY DEF Base!Start, Base!Initializing, Base!fileVars
<1>2. Todo(Base!Opening, w2, w3) /\ Base!Opening \in Seq(Base!Statements)
      /\ Head(Base!Opening).do # "alter"
  <2>1. Todo(Base!Opening, w2, w3)
    BY OpeningSound
  <2>2. Head(Base!Opening) = Base!Create("messages")
    BY DEF Base!Opening
  <2> QED
    BY <2>1, <2>2, StatementFacts DEF Todo
<1>3. a \in R /\ a.status = "opening" /\ a.todo = Base!Opening /\ (~a.beside => others = {})
  BY <1>2
<1>4. ASSUME NEW q \in BaseProcesses
      PROVE  /\ b(q) \in R /\ b(q).status = w4[q].status /\ b(q).todo = w4[q].todo
             /\ q \in others => b(q).beside
             /\ w4[q].beside => b(q).beside
  <2>1. w4[q] \in R
    BY DEF ProcTyped
  <2> HIDE DEF others
  <2> QED
    BY <2>1
<1> HIDE DEF a, b
<1>5. ProcTyped'
  <2>1. w4' \in [BaseProcesses -> R]
    BY <1>1, <1>3, <1>4
  <2> QED
    BY <2>1 DEF ProcTyped, Base!Statements, Base!AllTables, Base!CurrentVersion, Base!Do, Base!Create
<1>6. w4'[p] = a /\ \A q \in BaseProcesses \ {p} : w4'[q] = b(q)
  BY <1>1
<1>7. ASSUME NEW q \in BaseProcesses
      PROVE  /\ w4'[q].status = "ready" => w2' = Base!AllTables /\ w3'
             /\ w4'[q].status = "opening" => Todo(w4'[q].todo, w2', w3')
             /\ w4'[q].status = "opening" /\ ~w4'[q].beside =>
                   /\ \A x \in BaseProcesses \ {q} : w4'[x].status # "opening"
                   /\ Head(w4'[q].todo).do = "alter" => ~w3'
             /\ w4'[q].status = "crippled" => w4'[q].beside
  <2>1. CASE q = p
    <3>1. \A x \in BaseProcesses \ {p} : w4'[x].status = "opening" => x \in others
      BY <1>4, <1>6
    <3> QED
      BY <1>1, <1>2, <1>3, <1>6, <2>1, <3>1
  <2>2. CASE q # p
    <3>1. /\ w4'[q] = b(q) /\ b(q).status = w4[q].status /\ b(q).todo = w4[q].todo
          /\ w4[q].status = "opening" => b(q).beside
          /\ w4[q].beside => b(q).beside
      BY <1>4, <1>6, <2>2
    <3> QED
      BY <1>1, <3>1, FileFacts
  <2> QED
    BY <2>1, <2>2
<1>8. Base!FileSound'
  BY <1>1, <1>7, FileFacts, FileFactsNext
<1> QED
  BY <1>5, <1>8

LEMMA DatabaseFails ==
    ASSUME Base!FileSound, ProcTyped, NEW p \in BaseProcesses, Base!StatementFails(p)
    PROVE  Base!FileSound' /\ ProcTyped'
<1>1. /\ w4[p].status = "opening" /\ Head(w4[p].todo).do = "alter" /\ w3
      /\ w4' = [w4 EXCEPT ![p].status = "crippled", ![p].todo = <<>>]
      /\ UNCHANGED <<w1, w2, w3>>
  BY DEF Base!StatementFails, Base!Initializing, Base!fileVars
<1>2. w4[p].beside
  BY <1>1, FileFacts
<1>3. /\ w4' = [w4 EXCEPT ![p].todo = <<>>, ![p].status = "crippled"]
  BY <1>1, ProcSwap
<1>4. ProcTyped' /\ w4'[p].status = "crippled" /\ w4'[p].beside
      /\ \A q \in BaseProcesses \ {p} : w4'[q] = w4[q]
  BY <1>2, <1>3, ProcStops
<1> QED
  BY <1>1, <1>4, FileKept

LEMMA DatabaseKill ==
    ASSUME Base!FileSound, ProcTyped, NEW p \in BaseProcesses, Base!Kill(p)
    PROVE  Base!FileSound' /\ ProcTyped'
<1>1. /\ w4' = [w4 EXCEPT ![p].status = "off", ![p].todo = <<>>]
      /\ UNCHANGED <<w1, w2, w3>>
  BY DEF Base!Kill, Base!fileVars
<1>3. /\ w4' = [w4 EXCEPT ![p].todo = <<>>, ![p].status = "off"]
  BY <1>1, ProcSwap
<1>4. ProcTyped' /\ w4'[p].status = "off" /\ \A q \in BaseProcesses \ {p} : w4'[q] = w4[q]
  BY <1>3, ProcStops
<1> QED
  BY <1>1, <1>4, FileKept

\* A transaction, and the tabs.
WriterRecord(now, left, turns) ==
    /\ now \in Seq(BaseTurns) /\ left \in Seq(BaseTurns) /\ turns \in Seq(BaseTurns)
    /\ Len(turns) = Len(now) + Len(left)
    /\ \A i \in 1 .. Len(turns) : turns[i] = IF i <= Len(now) THEN now[i] ELSE left[i - Len(now)]

LEMMA WriterFacts ==
    ASSUME Base!WriterSound, WriterTyped, w6 # None
    PROVE  /\ w6 = [by |-> w6.by, now |-> w6.now, left |-> w6.left, turns |-> w6.turns]
           /\ WriterRecord(w6.now, w6.left, w6.turns)
BY DEF Base!WriterSound, WriterTyped, WriterRecord

LEMMA WriterBuilt ==
    ASSUME NEW by, NEW now, NEW left, NEW turns, WriterRecord(now, left, turns),
           w6' = [by |-> by, now |-> now, left |-> left, turns |-> turns]
    PROVE  Base!WriterSound' /\ WriterTyped'
<1>1. /\ w6'.by = by /\ w6'.now = now /\ w6'.left = left /\ w6'.turns = turns
      /\ DOMAIN w6' = {"by", "now", "left", "turns"}
  OBVIOUS
<1>2. w6' = [by |-> w6'.by, now |-> w6'.now, left |-> w6'.left, turns |-> w6'.turns]
  BY <1>1
<1> QED
  BY <1>1, <1>2 DEF Base!WriterSound, WriterTyped, WriterRecord

LEMMA DatabaseSave ==
    ASSUME BaseAssumption, NEW p, NEW turns \in TurnLists, Base!SaveTurns(p, turns)
    PROVE  /\ Base!WriterSound' /\ WriterTyped'
           /\ UNCHANGED <<w1, w2, w3, w4, w5, w7, w8, w9, w10>>
<1>1. /\ w6' = [by |-> p, now |-> <<>>, left |-> turns, turns |-> turns] /\ w5' = w5
      /\ UNCHANGED <<w1, w2, w3, w4, w7, w8, w9, w10>>
  BY DEF Base!SaveTurns, Base!Seen, Base!fileVars
<1>2. turns \in Seq(BaseTurns) /\ <<>> \in Seq(BaseTurns) /\ Len(<<>>) = 0 /\ Len(turns) \in Nat
  BY EmptySeq, LenProperties DEF BaseAssumption
<1>3. \A i \in 1 .. Len(turns) : ~(i <= 0) /\ i - 0 = i
  BY <1>2
<1>4. Len(turns) = 0 + Len(turns)
  BY <1>2
<1>5. WriterRecord(<<>>, turns, turns)
  BY <1>2, <1>3, <1>4 DEF WriterRecord
<1> QED
  BY <1>1, <1>5, WriterBuilt

LEMMA InsertedTurn ==
    ASSUME NEW now, NEW left, NEW turns, WriterRecord(now, left, turns), left # <<>>
    PROVE  WriterRecord(Append(now, Head(left)), Tail(left), turns)
<1> DEFINE n == Append(now, Head(left))
           t == Tail(left)
<1>1. /\ now \in Seq(BaseTurns) /\ left \in Seq(BaseTurns) /\ turns \in Seq(BaseTurns)
      /\ Len(now) \in Nat /\ Len(left) \in Nat /\ Len(turns) = Len(now) + Len(left)
      /\ \A i \in 1 .. Len(turns) : turns[i] = IF i <= Len(now) THEN now[i] ELSE left[i - Len(now)]
  BY LenProperties DEF WriterRecord
<1>2. /\ Len(left) >= 1 /\ Head(left) = left[1] /\ Head(left) \in BaseTurns
      /\ t \in Seq(BaseTurns) /\ Len(t) = Len(left) - 1
      /\ \A k \in 1 .. Len(t) : t[k] = left[k + 1]
  BY <1>1, HeadTailProperties, EmptySeq
<1>3. /\ n \in Seq(BaseTurns) /\ Len(n) = Len(now) + 1
      /\ \A k \in 1 .. Len(now) + 1 : n[k] = IF k <= Len(now) THEN now[k] ELSE left[1]
  BY <1>1, <1>2
<1> HIDE DEF n, t
<1>4. Len(turns) = Len(n) + Len(t)
  BY <1>1, <1>2, <1>3
<1>5. ASSUME NEW i \in 1 .. Len(turns) PROVE turns[i] = IF i <= Len(n) THEN n[i] ELSE t[i - Len(n)]
  <2>1. CASE i <= Len(now)
    <3>1. i \in 1 .. Len(now) + 1 /\ i <= Len(n)
      BY <1>1, <1>3, <2>1
    <3> QED
      BY <1>1, <1>3, <2>1, <3>1
  <2>2. CASE i = Len(now) + 1
    <3>1. i \in 1 .. Len(now) + 1 /\ i <= Len(n) /\ ~(i <= Len(now)) /\ i - Len(now) = 1
      BY <1>1, <1>3, <2>2
    <3> QED
      BY <1>1, <1>3, <3>1
  <2>3. CASE i > Len(now) + 1
    <3>1. /\ ~(i <= Len(n)) /\ ~(i <= Len(now)) /\ i - Len(n) \in 1 .. Len(t)
          /\ (i - Len(n)) + 1 = i - Len(now)
      BY <1>1, <1>2, <1>3, <2>3
    <3> QED
      BY <1>1, <1>2, <3>1
  <2>4. i <= Len(now) \/ i = Len(now) + 1 \/ i > Len(now) + 1
    BY <1>1
  <2> QED
    BY <2>1, <2>2, <2>3, <2>4
<1> QED
  BY <1>1, <1>2, <1>3, <1>4, <1>5 DEF WriterRecord, n, t

LEMMA DatabaseInsert ==
    ASSUME Base!WriterSound, WriterTyped, Base!InsertTurn
    PROVE  /\ Base!WriterSound' /\ WriterTyped'
           /\ UNCHANGED <<w1, w2, w3, w4, w5, w7, w8, w9, w10>>
<1> DEFINE n == Append(w6.now, Head(w6.left))
           t == Tail(w6.left)
           b == w6.by
           a == w6.turns
<1>1. /\ w6 # None /\ w6.left # <<>> /\ w6' = [w6 EXCEPT !.now = n, !.left = t] /\ w5' = w5
      /\ UNCHANGED <<w1, w2, w3, w4, w7, w8, w9, w10>>
  BY DEF Base!InsertTurn, Base!Seen, Base!fileVars
<1>2. /\ w6 = [by |-> b, now |-> w6.now, left |-> w6.left, turns |-> a]
      /\ WriterRecord(w6.now, w6.left, a)
  BY <1>1, WriterFacts
<1>3. WriterRecord(n, t, a)
  BY <1>1, <1>2, InsertedTurn
<1> HIDE DEF n, t, b, a
<1>4. w6' = [by |-> b, now |-> n, left |-> t, turns |-> a]
  <2> DEFINE x == [w6 EXCEPT !.now = n]
  <2>1. x = [by |-> b, now |-> n, left |-> w6.left, turns |-> a]
    BY <1>2
  <2>2. w6' = [x EXCEPT !.left = t]
    BY <1>1
  <2> HIDE DEF x
  <2> QED
    BY <2>1, <2>2
<1> QED
  BY <1>1, <1>3, <1>4, WriterBuilt

\* A transaction commits when it has written all of its turns.
LEMMA DatabaseCommit ==
    ASSUME Base!WriterSound, WriterTyped, Base!Commit
    PROVE  /\ w5' = w7' /\ w6' = None
           /\ UNCHANGED <<w1, w2, w3, w4, w8, w9, w10>>
<1>1. /\ w6 # None /\ w6.left = <<>> /\ w5' = w6.now /\ w7' = w6.turns /\ w6' = None
      /\ UNCHANGED <<w1, w2, w3, w4, w8, w9, w10>>
  BY DEF Base!Commit, Base!fileVars
<1>2. WriterRecord(w6.now, <<>>, w6.turns)
  BY <1>1, WriterFacts
<1>3. w6.now = w6.turns
  <2> DEFINE n == w6.now
             a == w6.turns
  <2>1. /\ n \in Seq(BaseTurns) /\ a \in Seq(BaseTurns) /\ Len(a) = Len(n) + Len(<<>>)
        /\ Len(n) \in Nat /\ Len(<<>>) = 0
        /\ \A i \in 1 .. Len(a) : a[i] = IF i <= Len(n) THEN n[i] ELSE <<>>[i - Len(n)]
    BY <1>2, EmptySeq, LenProperties DEF WriterRecord
  <2> HIDE DEF n, a
  <2>2. Len(n) = Len(a) /\ \A i \in 1 .. Len(n) : n[i] = a[i]
    BY <2>1
  <2>3. n = a
    BY <2>1, <2>2, SeqEqual
  <2> QED
    BY <2>3 DEF n, a
<1> QED
  BY <1>1, <1>3

LEMMA DatabaseTabs ==
    ASSUME Base!TabsSound, w10.read = w10.due, w10.read \in ShownTabs \cup {FormerTabs, None},
           NEW p, Base!LoadTabs(p) \/ \E t \in ShownTabs : Base!SaveTabs(p, t)
    PROVE  /\ Base!TabsSound' /\ w10'.read = w10'.due
           /\ w10'.read \in ShownTabs \cup {FormerTabs, None}
           /\ UNCHANGED <<w1, w2, w3, w4, w5, w6, w7>>
<1>1. CASE \E t \in ShownTabs : Base!SaveTabs(p, t)
  BY <1>1 DEF Base!TabsSound, Base!SaveTabs, Base!fileVars
<1>2. CASE Base!LoadTabs(p)
  <2> DEFINE r == IF w8 = None THEN FormerTabs ELSE w8
             d == IF w9 = None THEN FormerTabs ELSE w9
             ready == w4[p].status = "ready"
  <2>1. /\ w8' = (IF ready /\ r # w8 /\ FormerTabs # None THEN FormerTabs ELSE w8)
        /\ w10' = IF ready THEN [read |-> r, due |-> d] ELSE w10
        /\ UNCHANGED <<w1, w2, w3, w4, w5, w6, w7, w9>>
    BY <1>2 DEF Base!LoadTabs, Base!SavedTabs, Base!fileVars
  <2>2. /\ w8 \in ShownTabs \cup {FormerTabs, None}
        /\ w8 = w9 \/ (w9 = None /\ w8 = FormerTabs)
    BY DEF Base!TabsSound
  <2>3. r = d /\ r \in ShownTabs \cup {FormerTabs, None}
    BY <2>2
  <2>4. w8' \in ShownTabs \cup {FormerTabs, None} /\ (w8' = w9 \/ (w9 = None /\ w8' = FormerTabs))
    BY <2>1, <2>2
  <2> HIDE DEF r, d
  <2>5. w10'.read = w10'.due /\ w10'.read \in ShownTabs \cup {FormerTabs, None}
    BY <2>1, <2>3
  <2> QED
    BY <2>1, <2>4, <2>5 DEF Base!TabsSound
<1> QED
  BY <1>1, <1>2

DatabaseInv == Base!DatabaseSound /\ WriterTyped

LEMMA DatabaseInit ==
    ASSUME Base!Init, BaseAssumption
    PROVE  DatabaseInv
<1>1. PICK v \in OldVersions : Base!SchemaOf(v)
  BY DEF Base!Init
<1>2. v \in {0, 1, 2, 3}
  <2>1. v \in 0 .. 3
    BY DEF BaseAssumption, Base!CurrentVersion
  <2> QED
    BY <2>1
<1>3. /\ w1 \subseteq 1 .. 3 /\ w2 \subseteq Base!AllTables /\ w3 \in BOOLEAN
      /\ 3 \in w1 => w2 = Base!AllTables /\ w3
  <2>1. /\ w1 = IF v = 0 THEN {} ELSE {v}
        /\ w2 = IF v = 0 THEN {} ELSE IF v = 1 THEN {"messages", "schema_info"} ELSE Base!AllTables
        /\ w3 = (v = 3)
    BY <1>1 DEF Base!SchemaOf, Base!CurrentVersion
  <2>2. {"messages", "schema_info"} \subseteq Base!AllTables
    BY DEF Base!AllTables
  <2>3. 1 \in 1 .. 3 /\ 2 \in 1 .. 3 /\ 3 \in 1 .. 3 /\ 1 # 3 /\ 2 # 3
    OBVIOUS
  <2>4. CASE v = 0
    BY <2>1, <2>4
  <2>5. CASE v = 1
    BY <2>1, <2>2, <2>3, <2>5
  <2>6. CASE v \in {2, 3}
    BY <2>1, <2>3, <2>6
  <2> QED
    BY <1>2, <2>4, <2>5, <2>6
<1>4. /\ w4 = [p \in BaseProcesses |-> [status |-> "off", todo |-> <<>>, beside |-> FALSE]]
      /\ w5 = <<>> /\ w7 = <<>> /\ w6 = None /\ w8 = None /\ w9 = None
      /\ w10 = [read |-> None, due |-> None]
  BY DEF Base!Init
<1>5. ProcTyped /\ \A p \in BaseProcesses : w4[p].status = "off"
  <2>1. <<>> \in Seq(Base!Statements)
    BY EmptySeq
  <2> QED
    BY <1>4, <2>1 DEF ProcTyped
<1>6. Base!FileSound
  BY <1>3, <1>5, FileFacts
<1> QED
  BY <1>4, <1>5, <1>6 DEF DatabaseInv, Base!DatabaseSound, Base!WriterSound, Base!TabsSound,
     WriterTyped, ProcTyped

LEMMA DatabaseStep ==
    ASSUME DatabaseInv, BaseAssumption, Base!Next
    PROVE  DatabaseInv'
<1>1. /\ ProcTyped /\ Base!FileSound /\ Base!WriterSound /\ Base!TabsSound /\ WriterTyped
      /\ w5 = w7 /\ w10.read = w10.due
      /\ w10.read \in ShownTabs \cup {FormerTabs, None}
  BY DEF DatabaseInv, Base!DatabaseSound, ProcTyped
<1>2. ASSUME ProcTyped', Base!FileSound', Base!WriterSound', Base!TabsSound', WriterTyped',
             w5' = w7', w10'.read = w10'.due, w10'.read \in ShownTabs \cup {FormerTabs, None}
      PROVE  DatabaseInv'
  BY <1>2 DEF DatabaseInv, Base!DatabaseSound, ProcTyped
<1>3. ASSUME UNCHANGED <<w1, w2, w3, w4>> PROVE ProcTyped' /\ Base!FileSound'
  <2>1. ProcTyped'
    BY <1>1, <1>3, TypedKept
  <2> QED
    BY <1>1, <1>3, <2>1, FileKept
<1>4. ASSUME UNCHANGED <<w6>> PROVE Base!WriterSound' /\ WriterTyped'
  BY <1>1, <1>4 DEF Base!WriterSound, WriterTyped
<1>5. ASSUME UNCHANGED <<w8, w9>> PROVE Base!TabsSound'
  BY <1>1, <1>5 DEF Base!TabsSound
<1>6. ASSUME NEW p \in BaseProcesses, Base!Start(p) PROVE DatabaseInv'
  <2>1. UNCHANGED <<w5, w6, w7, w8, w9, w10>>
    BY <1>6 DEF Base!Start, Base!useVars
  <2>2. ProcTyped' /\ Base!FileSound'
    BY <1>1, <1>6, DatabaseStart
  <2> QED
    BY <1>1, <1>2, <1>4, <1>5, <2>1, <2>2
<1>7. ASSUME NEW p \in BaseProcesses, Base!Statement(p) PROVE DatabaseInv'
  <2>1. w6' = w6
    BY <1>7 DEF Base!Statement, Base!useVars
  <2>2. Base!DatabaseSound'
    BY <1>7, DatabaseStatement DEF DatabaseInv
  <2> QED
    BY <1>4, <2>1, <2>2 DEF DatabaseInv
<1>8. ASSUME NEW p \in BaseProcesses, Base!StatementFails(p) PROVE DatabaseInv'
  <2>1. UNCHANGED <<w5, w6, w7, w8, w9, w10>>
    BY <1>8 DEF Base!StatementFails, Base!useVars
  <2>2. ProcTyped' /\ Base!FileSound'
    BY <1>1, <1>8, DatabaseFails
  <2> QED
    BY <1>1, <1>2, <1>4, <1>5, <2>1, <2>2
<1>9. ASSUME NEW p \in BaseProcesses, Base!Kill(p) PROVE DatabaseInv'
  <2>1. UNCHANGED <<w5, w7, w8, w9, w10>> /\ (w6' = w6 \/ w6' = None)
    BY <1>9 DEF Base!Kill
  <2>2. ProcTyped' /\ Base!FileSound'
    BY <1>1, <1>9, DatabaseKill
  <2>3. Base!WriterSound' /\ WriterTyped'
    BY <1>1, <2>1 DEF Base!WriterSound, WriterTyped
  <2> QED
    BY <1>1, <1>2, <1>5, <2>1, <2>2, <2>3
<1>10. ASSUME NEW p \in BaseProcesses, NEW turns \in TurnLists, Base!SaveTurns(p, turns)
       PROVE  DatabaseInv'
  <2>1. /\ Base!WriterSound' /\ WriterTyped' /\ UNCHANGED <<w1, w2, w3, w4, w5, w7, w8, w9, w10>>
    BY <1>10, DatabaseSave
  <2> QED
    BY <1>1, <1>2, <1>3, <1>5, <2>1
<1>11. ASSUME Base!InsertTurn PROVE DatabaseInv'
  <2>1. /\ Base!WriterSound' /\ WriterTyped' /\ UNCHANGED <<w1, w2, w3, w4, w5, w7, w8, w9, w10>>
    BY <1>1, <1>11, DatabaseInsert
  <2> QED
    BY <1>1, <1>2, <1>3, <1>5, <2>1
<1>12. ASSUME Base!Commit PROVE DatabaseInv'
  <2>1. /\ w5' = w7' /\ w6' = None /\ UNCHANGED <<w1, w2, w3, w4, w8, w9, w10>>
    BY <1>1, <1>12, DatabaseCommit
  <2>2. Base!WriterSound' /\ WriterTyped'
    BY <2>1 DEF Base!WriterSound, WriterTyped
  <2> QED
    BY <1>1, <1>2, <1>3, <1>5, <2>1, <2>2
<1>13. ASSUME NEW p \in BaseProcesses, Base!LoadTabs(p) \/ \E t \in ShownTabs : Base!SaveTabs(p, t)
       PROVE  DatabaseInv'
  <2>1. /\ Base!TabsSound' /\ w10'.read = w10'.due
        /\ w10'.read \in ShownTabs \cup {FormerTabs, None}
        /\ UNCHANGED <<w1, w2, w3, w4, w5, w6, w7>>
    BY <1>1, <1>13, DatabaseTabs
  <2> QED
    BY <1>1, <1>2, <1>3, <1>4, <2>1
<1> QED
  BY <1>6, <1>7, <1>8, <1>9, <1>10, <1>11, <1>12, <1>13 DEF Base!Next

LEMMA DatabaseStopped ==
    ASSUME DatabaseInv, UNCHANGED parts
    PROVE  DatabaseInv'
<1>1. UNCHANGED <<w1, w2, w3, w4, w5, w6, w7, w8, w9, w10>>
  BY DEF parts
<1>2. ProcTyped /\ Base!FileSound
  BY DEF DatabaseInv, Base!DatabaseSound, ProcTyped
<1>3. ProcTyped' /\ Base!FileSound'
  BY <1>1, <1>2, TypedKept, FileKept
<1> QED
  BY <1>1, <1>3 DEF DatabaseInv, Base!DatabaseSound, ProcTyped, Base!WriterSound, Base!TabsSound, WriterTyped

LEMMA DatabaseFacts ==
    ASSUME DatabaseInv
    PROVE  /\ Base!TypeOK /\ Base!SchemaWhole /\ Base!AloneReady /\ Base!TurnsWhole
           /\ Base!TabsLatest
BY DEF DatabaseInv, Base!DatabaseSound, Base!FileSound, Base!TypeOK, Base!SchemaWhole, Base!AloneReady,
   Base!TurnsWhole, Base!TabsLatest, Base!CurrentVersion

\* For any number of processes that open the database file at any time, of any of its
\* versions, and are killed between any two statements: a file that calls itself current
\* or that a process works with has all its tables and the column, only a process that
\* opened it beside another is left without it, and the waiting turns and the tabs are
\* those of one save.
THEOREM RecordsDatabase ==
    RecordsSpec => [](part = "database" => StoredTrue)
<1> DEFINE Inv == part = "database" => DatabaseInv
<1>1. (part \in RecordNames => RecordsInit) => Inv
  <2> SUFFICES ASSUME part \in RecordNames => RecordsInit PROVE Inv
    OBVIOUS
  <2>1. part = "database" => Base!Init
    BY DEF RecordsInit, RecordNames
  <2> QED
    BY <2>1, RecordsAssumption, DatabaseInit
<1>2. Inv /\ [Step]_parts => Inv'
  <2> SUFFICES ASSUME Inv, [Step]_parts PROVE Inv'
    OBVIOUS
  <2>1. CASE Step
    <3>1. part' = part /\ (part = "database" => Base!Next)
      BY <2>1 DEF Step, RecordsNext, RecordNames
    <3> QED
      BY <3>1, RecordsAssumption, DatabaseStep
  <2>2. CASE UNCHANGED parts
    <3>1. part' = part
      BY <2>2 DEF parts
    <3> QED
      BY <2>2, <3>1, DatabaseStopped
  <2> QED
    BY <2>1, <2>2
<1>3. Inv => (part = "database" => StoredTrue)
  BY DatabaseFacts DEF StoredTrue
<1> QED
  BY <1>1, <1>2, <1>3, PTL DEF RecordsSpec, Step

-----------------------------------------------------------------------------
\* All of what these components store is whole and is what was stored, for one program
\* that has the registry to itself and one process that writes to a session.
THEOREM RecordsStored ==
    ASSUME NEW p, Programs = {p}, NEW q, Writers = {q}, "read" \notin MayFail
    PROVE  RecordsSpec => []StoredTrue
<1>1. RecordsSpec => [](part \in {"agents", "models", "settings", "commands"} => StoredTrue)
  BY RecordsSettings
<1>2. RecordsSpec => [](part = "database" => StoredTrue)
  BY RecordsDatabase
<1>3. RecordsSpec => [](part = "context" => StoredTrue)
  BY RecordsContext
<1>4. /\ part \in {"agents", "models", "settings", "commands"} => StoredTrue
      /\ part = "database" => StoredTrue
      /\ part = "context" => StoredTrue
      => StoredTrue
  BY DEF StoredTrue
<1> QED
  BY <1>1, <1>2, <1>3, <1>4, PTL
=============================================================================
