-------------------------- MODULE MCSessionPackets --------------------------
(***************************************************************************)
(* SessionPackets for TLC.  A packet overtakes another one that is handled *)
(* only after a login, two packets that are put back and one that comes in *)
(* between: four packets, of few kinds.  Clients that send every kind send *)
(* one packet less.                                                        *)
(***************************************************************************)
EXTENDS SessionPackets

CONSTANT FewKinds   \* sets of kinds of which MaxPackets packets are sent

ASSUME FewKindsAssumption == FewKinds \subseteq SUBSET Kinds

VARIABLE sent       \* the kinds of opcodes the client sends

mcVars == <<vars, sent>>

MCInit == Init /\ sent \in FewKinds \union {Kinds}

MCNext ==
    /\ Next
    /\ UNCHANGED sent
    /\ received' # received =>
          /\ Last(recvQueue').kind \in sent
          /\ sent = Kinds => received' < MaxPackets

\* FairSpec for these clients; WF_vars(Update) is written with what it means, as
\* Update has a step unless the session is deleted.
MCFairSpec ==
    /\ MCInit /\ [][MCNext]_mcVars
    /\ []<>(step = "deleted") \/ []<><<Update>>_vars
    /\ SF_vars(BeginUpdate("map"))
=============================================================================
