------------------------------ MODULE OrgConfig ------------------------------
(***************************************************************************)
(* The configuration of one organization (modules/organization-configs):   *)
(* a row in PostgreSQL, a copy of it in Redis that every page of the       *)
(* frontend asks for, and a logo in object storage that the row names.     *)
(* Three stores and no transaction: each call of a request to one of them  *)
(* is a step, and a request may fail at any of them.                       *)
(***************************************************************************)
EXTENDS Naturals, FiniteSets

CONSTANTS Servers,    \* requests in progress at once
          Logos,      \* names an upload may generate, each used once
          MaxEdits,   \* bound: changes of the settings
          NoLogo, NoConfig

ASSUME ConfigAssumption == MaxEdits \in Nat /\ NoLogo \notin Logos

VARIABLES config,   \* the committed row: settings and the name of the logo
          cached,   \* org_config:<id> in Redis, or NoConfig
          bucket,   \* the objects in storage
          named,    \* logo names generated so far
          spoilt,   \* history: logos deleted by a request that then failed
          serving   \* what a request holds between two calls

configVars == <<config, cached, bucket, named, spoilt, serving>>

Config == [settings : 0 .. MaxEdits, logo : Logos \cup {NoLogo}]
AtRest == [at |-> "idle"]

ConfigTypeOK ==
  /\ config \in Config
  /\ cached \in Config \cup {NoConfig}
  /\ bucket \subseteq Logos /\ named \subseteq Logos /\ spoilt \subseteq Logos
  /\ serving \in [Servers -> {AtRest} \cup
       [at : {"missed", "written"}] \cup [at : {"read"}, config : Config] \cup
       [at : {"replacing", "cleared", "stored"},
        old : Logos \cup {NoLogo}, new : Logos \cup {NoLogo}]]

ConfigInit ==
  /\ config = [settings |-> 0, logo |-> NoLogo]
  /\ cached = NoConfig
  /\ bucket = {} /\ named = {} /\ spoilt = {}
  /\ serving = [s \in Servers |-> AtRest]

Goes(s, state) == serving' = [serving EXCEPT ![s] = state]

-----------------------------------------------------------------------------
\* getConfig: a hit is answered from the copy and changes nothing.
LookUp(s) ==
  /\ serving[s] = AtRest /\ cached = NoConfig
  /\ Goes(s, [at |-> "missed"])
  /\ UNCHANGED <<config, cached, bucket, named, spoilt>>

ReadRow(s) ==
  /\ serving[s].at = "missed"
  /\ Goes(s, [at |-> "read", config |-> config])
  /\ UNCHANGED <<config, cached, bucket, named, spoilt>>

Fill(s) ==
  /\ serving[s].at = "read"
  /\ cached' = serving[s].config
  /\ Goes(s, AtRest)
  /\ UNCHANGED <<config, bucket, named, spoilt>>

\* Mutant: REDIS_TTL_SECONDS is 0, and set() writes without EX.
CopyIsKept == FALSE /\ UNCHANGED configVars

\* Redis drops the copy after REDIS_TTL_SECONDS, five minutes by default.
CopyExpires ==
  /\ cached # NoConfig
  /\ cached' = NoConfig
  /\ UNCHANGED <<config, bucket, named, spoilt, serving>>

-----------------------------------------------------------------------------
\* updateConfig, and the update and updatePlan of the organization: the row
\* first, then the copy.
ChangeSettings(s) ==
  /\ serving[s] = AtRest /\ config.settings < MaxEdits
  /\ config' = [config EXCEPT !.settings = @ + 1]
  /\ Goes(s, [at |-> "written"])
  /\ UNCHANGED <<cached, bucket, named, spoilt>>

\* uploadLogo and deleteLogo: the row is read, the object it names is
\* deleted, the new object is stored, and its name goes into the row.
StartLogo(s, new) ==
  /\ serving[s] = AtRest
  /\ new \in (Logos \ named) \cup {NoLogo}
  /\ named' = named \cup ({new} \ {NoLogo})
  /\ IF new = NoLogo /\ config.logo = NoLogo
       THEN Goes(s, [at |-> "written"])
       ELSE Goes(s, [at |-> "replacing", old |-> config.logo, new |-> new])
  /\ UNCHANGED <<config, cached, bucket, spoilt>>

\* Mutant: the new name is recorded before its object is stored.
ClearOldNamesNew(s) ==
  /\ serving[s].at = "replacing"
  /\ bucket' \in {bucket, bucket \ {serving[s].old}}
  /\ config' = [config EXCEPT !.logo = serving[s].new]
  /\ Goes(s, [serving[s] EXCEPT !.at = "cleared"])
  /\ UNCHANGED <<cached, named, spoilt>>

\* An error of deleteFile is logged, and the request goes on.
ClearOld(s) ==
  /\ serving[s].at = "replacing"
  /\ bucket' \in {bucket, bucket \ {serving[s].old}}
  /\ Goes(s, [serving[s] EXCEPT !.at = "cleared"])
  /\ UNCHANGED <<config, cached, named, spoilt>>

StoreNew(s) ==
  /\ serving[s].at = "cleared"
  /\ bucket' = bucket \cup ({serving[s].new} \ {NoLogo})
  /\ Goes(s, [serving[s] EXCEPT !.at = "stored"])
  /\ UNCHANGED <<config, cached, named, spoilt>>

RecordLogo(s) ==
  /\ serving[s].at = "stored"
  /\ config' = [config EXCEPT !.logo = serving[s].new]
  /\ Goes(s, [at |-> "written"])
  /\ UNCHANGED <<cached, bucket, named, spoilt>>

\* The copy is deleted last; an error of Redis is logged, nothing else.
Invalidate(s) ==
  /\ serving[s].at = "written"
  /\ cached' \in {NoConfig, cached}
  /\ Goes(s, AtRest)
  /\ UNCHANGED <<config, bucket, named, spoilt>>

\* An error of storage or of the database, or the process dies.
Fails(s) ==
  /\ serving[s] # AtRest
  /\ spoilt' = IF serving[s].at \in {"cleared", "stored"}
                 THEN spoilt \cup ({serving[s].old} \ {NoLogo}) ELSE spoilt
  /\ Goes(s, AtRest)
  /\ UNCHANGED <<config, cached, bucket, named>>

ServeStep(s) ==
  \/ ReadRow(s) \/ Fill(s)
  \/ ClearOld(s) \/ StoreNew(s) \/ RecordLogo(s)
  \/ Invalidate(s)

ConfigNext ==
  \/ \E s \in Servers :
       \/ LookUp(s) \/ ChangeSettings(s)
       \/ \E new \in Logos \cup {NoLogo} : StartLogo(s, new)
       \/ ServeStep(s)
       \/ Fails(s)
  \/ CopyExpires

\* Redis expires keys, and a request that has begun goes on.
ConfigFairness ==
  /\ WF_configVars(CopyExpires)
  /\ \A s \in Servers : WF_configVars(ServeStep(s))

ConfigSpec == ConfigInit /\ [][ConfigNext]_configVars /\ ConfigFairness

-----------------------------------------------------------------------------
BeingReplaced == {serving[s].old : s \in {t \in Servers :
                    serving[t].at \in {"cleared", "stored"}}}

(* The logo on record is in storage, however uploads and removals overlap; *)
(* the only rows that name a missing object are those of a request that is *)
(* about to replace it, or that failed between deleting and writing.       *)
LogoOnRecordExists ==
  config.logo \in bucket \cup {NoLogo} \cup BeingReplaced \cup spoilt

(* When the configuration stops changing, the copy that is served comes to *)
(* be the one on record for good, although a read that overlaps a write    *)
(* fills the cache with the old row after the write has emptied it.        *)
SettledConfigIsServed ==
  \A c \in Config : <>[](config = c) => <>[](cached \in {c, NoConfig})
=============================================================================
