---------------------------- MODULE ServicesProofs ----------------------------
(***************************************************************************)
(* The components of MCServices run side by side: each of them behaves as  *)
(* it does alone, so that what PeopleProofs and RecordsProofs show of it   *)
(* holds beside the others.                                                *)
(***************************************************************************)
EXTENDS MCServices, PeopleProofs, RecordsProofs

LEMMA ServicesMove ==
  ServicesSpec => ServicesInit /\ [][ServicesNext]_partVars
BY PTL DEF ServicesSpec

\* Every step of the server is a step of a component or leaves it alone.
LEMMA PartsMove ==
  ASSUME [ServicesNext]_partVars
  PROVE  /\ [LimiterNext]_limiterVars /\ [FriendsNext]_friendsVars
         /\ [AccountsNext]_accountVars /\ [PresenceNext]_presenceVars
         /\ [ChatNext]_chatVars /\ [WorkspaceNext]_workspaceVars
         /\ [StartupNext]_startupVars /\ [Next]_vars
         /\ UNCHANGED part
BY DEF ServicesNext, partVars, Limiter, Friend, Account, Present, Channel, Project, Restart, Signal

\* The server implements each of its components' specifications.
THEOREM PartsAsAlone ==
  ServicesSpec =>
    /\ LimiterSpec /\ FriendsSpec /\ AccountsSpec /\ PresenceSpec
    /\ ChatSpec /\ WorkspaceSpec /\ StartupSpec /\ Spec
<1>1. ServicesInit => /\ LimiterInit /\ FriendsInit /\ AccountsInit /\ PresenceInit
                      /\ ChatInit /\ WorkspaceInit /\ StartupInit /\ Init
  BY DEF ServicesInit
<1>2. [ServicesNext]_partVars =>
        /\ [LimiterNext]_limiterVars /\ [FriendsNext]_friendsVars
        /\ [AccountsNext]_accountVars /\ [PresenceNext]_presenceVars
        /\ [ChatNext]_chatVars /\ [WorkspaceNext]_workspaceVars
        /\ [StartupNext]_startupVars /\ [Next]_vars
  BY PartsMove
<1>. QED
  BY <1>1, <1>2, ServicesMove, PTL
     DEF LimiterSpec, FriendsSpec, AccountsSpec, PresenceSpec, ChatSpec, WorkspaceSpec, StartupSpec, Spec

\* Every variable of every component keeps its type, whatever runs beside it.
THEOREM ServicesTypes == ServicesSpec => []ServicesTypeOK
<1>1. ServicesInit => part \in Parts
  BY DEF ServicesInit
<1>2. part \in Parts /\ [ServicesNext]_partVars => (part \in Parts)'
  BY PartsMove DEF Parts
<1>3. FriendsSpec => []FriendsTypeOK
  <2>1. FriendsInv => FriendsTypeOK
    BY DEF FriendsInv
  <2>. QED
    BY <2>1, FriendsInvariant, PTL
<1>4. /\ part \in Parts
      /\ LimiterTypeOK /\ FriendsTypeOK /\ AccountsTypeOK /\ PresenceTypeOK
      /\ ChatTypeOK /\ WorkspaceTypeOK /\ StartupTypeOK /\ TypeOK
      => ServicesTypeOK
  BY DEF ServicesTypeOK
<1>. QED
  BY <1>1, <1>2, <1>3, <1>4, ServicesMove, PartsAsAlone, LimiterTypes, AccountsTypes, PresenceTypes,
     ChatTypes, WorkspaceTypes, StartupTypes, MailboxTypes, PTL
=============================================================================
