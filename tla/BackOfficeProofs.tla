-------------------------- MODULE BackOfficeProofs --------------------------
(***************************************************************************)
(* Proofs about the back office as a whole, of which one part is at work:  *)
(* each part goes its own way, so what DeskProofs and PanelProofs prove of *)
(* it alone holds of the whole.                                            *)
(***************************************************************************)
EXTENDS MCBackOffice, DeskProofs, PanelProofs

LEMMA PartsBegin ==
  InitBackOffice =>
    /\ part \in Parts /\ (part = "door" => InitDoor)
    /\ InitTree /\ InitDesk /\ InitForms /\ InitRecurring /\ InitFiles /\ InitSend
    /\ InitOrder /\ InitEngine /\ InitPanel /\ InitHomes
  BY DEF InitBackOffice, ThreeFolders, NoFolder, OpenEvent, NobodyYet, DoorOpens, TwoLetters, NoLetters

\* A step is one of the part at work, or of none.
LEMMA PartsStep ==
  [NextBackOffice]_backVars =>
    /\ part' = part /\ [NextDoor]_doorVars /\ (part # "door" => [FALSE]_doorVars)
    /\ [NextTree]_treeVars /\ [NextDesk]_deskVars /\ [NextForms]_formVars
    /\ [NextRecurring]_recurVars /\ [NextFiles]_fileVars /\ [NextSend]_sendVars
    /\ [NextOrder]_orderVars /\ [NextEngine]_engineVars /\ [NextPanel]_panelVars
    /\ [NextHomes]_homeVars
  BY DEF NextBackOffice, backVars, At, Tree, Desk, FormsPart, Recurring, FilesPart, Sending,
         Ordering, Engine, AtDoor, Panel, LettersPart

\* Each part of the back office goes its own way; the check-in does when it is the one at work.
LEMMA PartsGoAlone ==
  SpecBackOffice =>
    /\ SpecTree /\ SpecDesk /\ SpecForms /\ SpecRecurring /\ SpecFiles /\ SpecSend
    /\ SpecOrder /\ SpecEngine /\ SpecPanel /\ SpecHomes
    /\ SpecDoor \/ ([](part # "door") /\ [][FALSE]_doorVars)
    /\ [](part \in Parts)
<1>1. SpecBackOffice => /\ SpecTree /\ SpecDesk /\ SpecForms /\ SpecRecurring /\ SpecFiles /\ SpecSend
                        /\ SpecOrder /\ SpecEngine /\ SpecPanel /\ SpecHomes
  BY PartsBegin, PartsStep, PTL
     DEF SpecBackOffice, SpecTree, SpecDesk, SpecForms, SpecRecurring, SpecFiles, SpecSend,
         SpecOrder, SpecEngine, SpecPanel, SpecHomes
<1>2. SpecBackOffice => [](part \in Parts)
  <2>1. part \in Parts /\ [NextBackOffice]_backVars => (part \in Parts)'
    BY PartsStep
  <2> QED
    BY <2>1, PartsBegin, PTL DEF SpecBackOffice
<1>3. SpecBackOffice => SpecDoor \/ ([](part # "door") /\ [][FALSE]_doorVars)
  <2>1. part # "door" /\ [NextBackOffice]_backVars => (part # "door")' /\ [FALSE]_doorVars
    BY PartsStep
  <2>2. part = "door" \/ part # "door"
    OBVIOUS
  <2> QED
    BY <2>1, <2>2, PartsBegin, PartsStep, PTL DEF SpecBackOffice, SpecDoor
<1> QED
  BY <1>1, <1>2, <1>3

\* Whatever the part at work, its state keeps its type.
THEOREM BackOfficeTyped == SpecBackOffice => []TypeOKBackOffice
<1>1. /\ part \in Parts
      /\ TypeOKTree /\ TypeOKDesk /\ TypeOKForms /\ TypeOKRecurring /\ TypeOKFiles /\ TypeOKSend
      /\ TypeOKOrder /\ TypeOKEngine /\ TypeOKPanel /\ TypeOKHomes
      /\ TypeOKDoor \/ part # "door"
      => TypeOKBackOffice
  BY DEF Parts, TypeOKBackOffice
<1> QED
  BY <1>1, PartsGoAlone, TreeTyped, DeskTyped, FormsTypeCorrect, RecurringTyped, FilesTypeCorrect,
     SendTyped, OrderTypeCorrect, EngineTyped, PanelTypeCorrect, HomesTypeCorrect, DoorTypeCorrect, PTL

\* What each part promises holds of the back office, whatever the part at work.
THEOREM BackOfficeKeepsItsPromises ==
  SpecBackOffice =>
    /\ [](/\ NoneVanishes /\ DeepOnlyIfCarried /\ OverbookedOnlyByRace /\ CrmStatusIsTrue
          /\ AbsentOnlyIfLate /\ AnswersReachTheirField /\ DateRuleHasItsField /\ CopiesAgree
          /\ FilesOutliveMessages /\ ManualSpacing /\ RecurringOnTime /\ NobodyIsPassedOver
          /\ OncePerOccasion /\ ShownPicturesExist /\ TemplatesAreAtHome)
    /\ DropLandsWhereAimed /\ DoorMarksTheRightEvent
<1>1. SpecBackOffice => DoorMarksTheRightEvent
  BY PartsGoAlone, RightEventIsMarked, PTL DEF DoorMarksTheRightEvent
<1> QED
  BY <1>1, PartsGoAlone, NoFolderVanishes, DepthIsKept, CountedFit, CrmSeesEachOnce,
     CancellationTellsAll, AnswersArrive, DateFieldStays, CopiesStayEqual, NamedFilesExist,
     SendsAreSpaced, ScheduleIsTrue, NobodyIsForgotten, WrittenOnce, PicturesAreThere,
     TemplatesBelong, DropsLand, PTL
=============================================================================
