------------------------------- MODULE MCOffice -------------------------------
(***************************************************************************)
(* Three parts of the back office that share no state: the imports of one  *)
(* organization, its configuration, and the connections of the pool.       *)
(* Every behaviour runs one of them and leaves the others as they began.   *)
(***************************************************************************)
EXTENDS Imports, OrgConfig, Tenancy

CONSTANTS Ana, Bea, Fine    \* identities in the files

VARIABLE topic        \* the part this behaviour runs

officeVars == <<importVars, configVars, tenancyVars, topic>>

AnaBeaFine == {Ana, Bea, Fine}

OneLineAndTwo == {{Ana}, {Bea, Fine}}

\* A package size with more decimals than its column has.
Rounded == [i \in AnaBeaFine |-> IF i = Fine THEN Ana ELSE i]

OfficeInit ==
  /\ topic \in {"imports", "config", "tenancy"}
  /\ ImportsInit /\ ConfigInit /\ TenancyInit

OfficeNext ==
  \/ topic = "imports" /\ ImportsNext /\ UNCHANGED <<configVars, tenancyVars, topic>>
  \/ topic = "config" /\ ConfigNext /\ UNCHANGED <<importVars, tenancyVars, topic>>
  \/ topic = "tenancy" /\ TenancyNext /\ UNCHANGED <<importVars, configVars, topic>>

\* The parts that are not run never leave their first state, in which no step
\* of theirs that fairness speaks of is enabled.
OfficeSpec ==
  /\ OfficeInit /\ [][OfficeNext]_officeVars
  /\ ImportsFairness /\ ConfigFairness /\ TenancyFairness
=============================================================================
