----------------------------- MODULE NodeProofs -----------------------------
(***************************************************************************)
(* What one board keeps for any addresses and configurations, under any    *)
(* sequence of power losses, button presses and frames.                    *)
(***************************************************************************)
EXTENDS Node, TLAPS

(* An address that is being written came with a CLAIM, so typing needs the *)
(* invariant about who writes what.                                        *)
LEMMA NodeTypeStep == TypeOK /\ Ungranted /\ [Next]_vars => TypeOK'
<1>. SUFFICES ASSUME TypeOK, Ungranted, [Next]_vars
              PROVE  TypeOK'
  OBVIOUS
<1>. USE NodeAssumption
     DEF TypeOK, Steps, Namespaces, Keys, IdentityKeys, ConfigKeys, AnyValue,
        NoAddress, HUB_ID, Goto, NoRam, nvs, ram
<1>1. CASE PowerOn
  BY <1>1 DEF PowerOn
<1>2. CASE Boot
  BY <1>2 DEF Boot
<1>3. CASE HoldReleased
  BY <1>3 DEF HoldReleased
<1>4. CASE HoldConfirmed
  BY <1>4 DEF HoldConfirmed
<1>5. CASE EraseDone
  BY <1>5 DEF EraseDone
<1>6. CASE Check
  BY <1>6 DEF Check
<1>7. CASE Abort
  BY <1>7 DEF Abort
<1>8. CASE Announce
  BY <1>8 DEF Announce
<1>9. CASE HearNothing
  BY <1>9 DEF HearNothing
<1>10. CASE HearBlink
  BY <1>10 DEF HearBlink
<1>11. CASE BlinkLed
  BY <1>11 DEF BlinkLed
<1>12. CASE Delay
  BY <1>12 DEF Delay
<1>13. CASE OpenIdentity
  BY <1>13 DEF OpenIdentity
<1>14. CASE SetClaimed
  BY <1>14 DEF SetClaimed
<1>15. CASE SetHubId
  BY <1>15 DEF SetHubId
<1>16. CASE SetShortAddr
  BY <1>16 DEF SetShortAddr, Ungranted
<1>17. CASE CommitIdentity
  BY <1>17 DEF CommitIdentity
<1>18. CASE LeafStart
  BY <1>18 DEF LeafStart, ShortAddress, WakeInterval
<1>19. CASE NoParent
  BY <1>19 DEF NoParent
<1>20. CASE Parent
  BY <1>20 DEF Parent
<1>21. CASE Report
  BY <1>21 DEF Report
<1>22. CASE HearNoConfig
  BY <1>22 DEF HearNoConfig
<1>23. CASE SetWake
  BY <1>23 DEF SetWake
<1>24. CASE SetThreshold
  BY <1>24 DEF SetThreshold
<1>25. CASE ToSleep
  BY <1>25 DEF ToSleep, WakeInterval
<1>26. CASE PowerLoss
  BY <1>26 DEF PowerLoss
<1>27. ASSUME NEW key \in IdentityKeys, Erase(key)
      PROVE  TypeOK'
  BY <1>27 DEF Erase
<1>28. ASSUME NEW a \in Addresses, HearClaim(a)
      PROVE  TypeOK'
  BY <1>28 DEF HearClaim
<1>29. ASSUME NEW i \in Intervals, NEW t \in Thresholds, HearConfig(i, t)
      PROVE  TypeOK'
  BY <1>29 DEF HearConfig
<1>30. ASSUME NEW why \in {"timer", "button"}, Wake(why)
      PROVE  TypeOK'
  BY <1>30 DEF Wake
<1>31. CASE UNCHANGED vars
  BY <1>31 DEF vars
<1>. HIDE DEF TypeOK, Steps, Namespaces, Keys, IdentityKeys, ConfigKeys, AnyValue,
        NoAddress, HUB_ID, Goto, NoRam, nvs, ram
<1>. QED
  BY <1>1, <1>2, <1>3, <1>4, <1>5, <1>6, <1>7, <1>8, <1>9, <1>10, <1>11, <1>12,
     <1>13, <1>14, <1>15, <1>16, <1>17, <1>18, <1>19, <1>20, <1>21, <1>22,
     <1>23, <1>24, <1>25, <1>26, <1>27, <1>28, <1>29, <1>30, <1>31
     DEF Next, Run

LEMMA NodeTypeInit == Init => TypeOK
BY NodeAssumption
   DEF Init, TypeOK, Steps, Namespaces, Keys, IdentityKeys, ConfigKeys, AnyValue,
       NoAddress, HUB_ID, Goto, NoRam, nvs, ram

-----------------------------------------------------------------------------
NodeInv == ClaimSurvives /\ Ungranted

LEMMA NodeInvStep == TypeOK /\ NodeInv /\ [Next]_vars => NodeInv'
<1>. SUFFICES ASSUME TypeOK, NodeInv, [Next]_vars
              PROVE  NodeInv'
  OBVIOUS
<1>. USE NodeAssumption
     DEF NodeInv, ClaimSurvives, Ungranted, Claiming, IsClaimed, WakeInterval,
         TypeOK, Steps, Namespaces, Keys, IdentityKeys, ConfigKeys, AnyValue,
         NoAddress, HUB_ID, Goto, NoRam, nvs, ram
<1>1. CASE PowerOn
  BY <1>1 DEF PowerOn
<1>2. CASE Boot
  BY <1>2 DEF Boot
<1>3. CASE HoldReleased
  BY <1>3 DEF HoldReleased
<1>4. CASE HoldConfirmed
  BY <1>4 DEF HoldConfirmed
<1>5. CASE EraseDone
  BY <1>5 DEF EraseDone
<1>6. CASE Check
  BY <1>6 DEF Check
<1>7. CASE Abort
  BY <1>7 DEF Abort
<1>8. CASE Announce
  BY <1>8 DEF Announce
<1>9. CASE HearNothing
  BY <1>9 DEF HearNothing
<1>10. CASE HearBlink
  BY <1>10 DEF HearBlink
<1>11. CASE BlinkLed
  BY <1>11 DEF BlinkLed
<1>12. CASE Delay
  BY <1>12 DEF Delay
<1>13. CASE OpenIdentity
  BY <1>13 DEF OpenIdentity
<1>14. CASE SetClaimed
  BY <1>14 DEF SetClaimed
<1>15. CASE SetHubId
  BY <1>15 DEF SetHubId
<1>16. CASE SetShortAddr
  BY <1>16 DEF SetShortAddr
<1>17. CASE CommitIdentity
  BY <1>17 DEF CommitIdentity
<1>18. CASE LeafStart
  BY <1>18 DEF LeafStart
<1>19. CASE NoParent
  BY <1>19 DEF NoParent
<1>20. CASE Parent
  BY <1>20 DEF Parent
<1>21. CASE Report
  BY <1>21 DEF Report
<1>22. CASE HearNoConfig
  BY <1>22 DEF HearNoConfig
<1>23. CASE SetWake
  BY <1>23 DEF SetWake
<1>24. CASE SetThreshold
  BY <1>24 DEF SetThreshold
<1>25. CASE ToSleep
  BY <1>25 DEF ToSleep
<1>26. CASE PowerLoss
  BY <1>26 DEF PowerLoss
<1>27. ASSUME NEW key \in IdentityKeys, Erase(key)
      PROVE  NodeInv'
  BY <1>27 DEF Erase
<1>28. ASSUME NEW a \in Addresses, HearClaim(a)
      PROVE  NodeInv'
  BY <1>28 DEF HearClaim
<1>29. ASSUME NEW i \in Intervals, NEW t \in Thresholds, HearConfig(i, t)
      PROVE  NodeInv'
  BY <1>29 DEF HearConfig
<1>30. ASSUME NEW why \in {"timer", "button"}, Wake(why)
      PROVE  NodeInv'
  BY <1>30 DEF Wake
<1>31. CASE UNCHANGED vars
  BY <1>31 DEF vars
<1>. HIDE DEF NodeInv, ClaimSurvives, Ungranted, Claiming, IsClaimed, WakeInterval,
        TypeOK, Steps, Namespaces, Keys, IdentityKeys, ConfigKeys, AnyValue,
        NoAddress, HUB_ID, Goto, NoRam, nvs, ram
<1>. QED
  BY <1>1, <1>2, <1>3, <1>4, <1>5, <1>6, <1>7, <1>8, <1>9, <1>10, <1>11, <1>12,
     <1>13, <1>14, <1>15, <1>16, <1>17, <1>18, <1>19, <1>20, <1>21, <1>22,
     <1>23, <1>24, <1>25, <1>26, <1>27, <1>28, <1>29, <1>30, <1>31
     DEF Next, Run

LEMMA NodeInvInit == Init => NodeInv
BY DEF Init, NodeInv, ClaimSurvives, Ungranted, Claiming, NoAddress

(* Every reachable state of the board is well typed.                       *)
THEOREM NodeTyped == Spec => []TypeOK
<1>1. NodeInv => Ungranted
  BY DEF NodeInv
<1>. QED
  BY <1>1, NodeTypeInit, NodeTypeStep, NodeInvInit, NodeInvStep, PTL DEF Spec

(* A committed claim survives power losses, sleeps, bumps of the button    *)
(* and half-written configurations: only a confirmed hold ends it.         *)
THEOREM NodeKeepsClaim == Spec => []ClaimSurvives
<1>1. NodeInv => ClaimSurvives /\ Ungranted
  BY DEF NodeInv
<1>. QED
  BY <1>1, NodeTypeInit, NodeTypeStep, NodeInvInit, NodeInvStep, PTL DEF Spec

(* A node always sleeps for the interval it is configured for.             *)
THEOREM NodeSleepsAsConfigured == Spec => []SleepsAsConfigured
<1>1. NodeInv => SleepsAsConfigured /\ Ungranted
  BY DEF NodeInv, Ungranted, SleepsAsConfigured
<1>. QED
  BY <1>1, NodeTypeInit, NodeTypeStep, NodeInvInit, NodeInvStep, PTL DEF Spec
=============================================================================
