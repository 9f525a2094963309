------------------------------ MODULE Retrieval ------------------------------
(***************************************************************************)
(* A query that searches one source while its versions come and go:        *)
(* PostgresStore.retrieve over SourceRegistry.  It first reads which       *)
(* versions it may search, the ACTIVE ones of the source or the members of *)
(* a compatibility set, and then searches them through several channels    *)
(* (full text, identifiers, implementation, vectors), each a statement of  *)
(* its own under READ COMMITTED, which sees what was committed before it.  *)
(*                                                                         *)
(* Evidence is known by the version it is of; which chunks a channel finds *)
(* and how they are ranked is left open.                                   *)
(***************************************************************************)
EXTENDS SourceRegistry

CONSTANT Channels  \* bound: the searches of a query, one after the other

ASSUME ChannelsAssumption == Channels \in Nat \ {0}

VARIABLES
    compatible,  \* the members of the compatibility set; {}: there is none
    query        \* the query under way: what it may search, and what it found

retrievalVars == <<registryVars, compatible, query>>

NoQuery == [pc |-> "idle", scope |-> {}, searched |-> 0, found |-> {}]

RetrievalInit ==
    /\ RegistryInit
    /\ compatible = {}
    /\ query = NoQuery

(* create_compatibility_set: of ACTIVE versions only, and it stays as it   *)
(* is when they are withdrawn.                                             *)
CreateCompatibilitySet(members) ==
    /\ compatible = {}
    /\ members # {} /\ members \subseteq Active
    /\ compatible' = members
    /\ UNCHANGED <<registryVars, query>>

(* What the query may search.  Nothing: it is over.                        *)
Ask ==
    /\ query.pc = "idle"
    /\ \E scope \in {Active, compatible} :
          query' = [NoQuery EXCEPT !.pc = IF scope = {} THEN "found" ELSE "search",
                                   !.scope = scope]
    /\ UNCHANGED <<registryVars, compatible>>

Searchable_Unscoped == Active \cap indexed       \* fault: of whatever is served now
Searchable == query.scope \cap Active \cap indexed

Search ==
    /\ query.pc = "search"
    /\ \E hits \in SUBSET Searchable :
          query' = [query EXCEPT !.found = @ \cup hits, !.searched = @ + 1,
                                 !.pc = IF query.searched + 1 = Channels THEN "found"
                                        ELSE "search"]
    /\ UNCHANGED <<registryVars, compatible>>

(* The answer is given, or none for want of evidence.                      *)
EndQuery ==
    /\ query.pc = "found"
    /\ query' = NoQuery
    /\ UNCHANGED <<registryVars, compatible>>

QueryNext ==
    \/ \E members \in SUBSET Commits : CreateCompatibilitySet(members)
    \/ Ask \/ Search \/ EndQuery

RetrievalNext == QueryNext \/ (RegistryNext /\ UNCHANGED <<compatible, query>>)

RetrievalSpec == RetrievalInit /\ [][RetrievalNext]_retrievalVars

----------------------------------------------------------------------------
(* Properties.                                                             *)

(* Every variable has its type.                                            *)
RetrievalTypeOK ==
    /\ RegistryTypeOK
    /\ compatible \subseteq Commits
    /\ query \in [pc : {"idle", "search", "found"}, scope : SUBSET Commits,
                  searched : 0..Channels, found : SUBSET Commits]

(* The evidence of an answer is of one version of the source, although a   *)
(* version may take over between two searches of the query, and the set it *)
(* names may be older than both.  Nothing in the schema says that one      *)
(* version is ACTIVE: two may be when the activation of one was committed  *)
(* while another had taken its snapshot already, and only then.            *)
EvidenceIsOfOneVersion == Cardinality(query.found \ overlap) <= 1
=============================================================================
