-------------------------- MODULE MCBeforeRecovery --------------------------
(***************************************************************************)
(* What comes before a recovery: the catalog shared by a few processes,    *)
(* the recognition of one disc against a given history, the pages that set *)
(* the recovery up, or its start on the image and the map.  The four share *)
(* no state (a lookup works on the index in memory, and the pages wait for *)
(* answers only), so each behaviour is one of them.                        *)
(***************************************************************************)
EXTENDS CatalogStore, ContentIdentity, AppSetup, Startup

CONSTANTS p1, p2, r1, r2, a, b

VARIABLE part

mcVars == <<part, vars, identityVars, setupVars, startupVars>>

(* Entries that count: any samples, with three fates of their files; and   *)
(* two that must not, a hidden one and one of another layout.              *)
Entries(n) ==
    {e \in EntriesOf(n, {"stopped_resumable", "completed"}) :
        \/ ~e.hidden /\ e.compatible /\ (e.filesPresent \/ e.state = "stopped_resumable")
        \/ /\ e.hidden # ~e.compatible
           /\ e.filesPresent /\ e.state = "completed"
           /\ \A slot \in BuildSamplePlan(n) : e.samples[slot] = "same"}

Histories(n) ==
    {<<>>} \cup {<<e>> : e \in Entries(n)} \cup
    {<<e, f>> : e \in {e \in Entries(n) : e.filesPresent /\ e.state = "stopped_resumable"},
                f \in {f \in Entries(n) : f.filesPresent /\ f.state = "completed"}}

MCInit ==
    /\ Init /\ SetupInit /\ StartupInit
    /\ \/ part \in {"store", "setup", "startup"} /\ StartIdentity(1, <<>>)
       \/ part = "identity" /\ \E n \in {1, 3} : \E h \in Histories(n) : StartIdentity(n, h)
    /\ part # "startup" => system = "linux"

MCNext ==
    /\ UNCHANGED part
    /\ \/ part = "store" /\ Next /\ UNCHANGED <<identityVars, setupVars, startupVars>>
       \/ part = "identity" /\ IdentityNext /\ UNCHANGED <<vars, setupVars, startupVars>>
       \/ part = "setup" /\ SetupNext /\ UNCHANGED <<vars, identityVars, startupVars>>
       \/ part = "startup" /\ StartupNext /\ UNCHANGED <<vars, identityVars, setupVars>>

MCSpec == MCInit /\ [][MCNext]_mcVars
=============================================================================
