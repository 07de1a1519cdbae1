------------------------ MODULE ReviewerPage_proofs -------------------------
(***************************************************************************)
(* Proofs about ReviewerPage, for any number of cards and any bounds: the  *)
(* screen and its page agree, and a card is answered once.                 *)
(*                                                                         *)
(* Neither follows from itself.  Other tasks may be under way when a card  *)
(* is answered, and give the controls back before its answer has been      *)
(* recorded.  That a second answer is refused all the same rests on        *)
(* displayNext alone giving them back, and then to another card: from the  *)
(* time a card is handed over they are blocked for as long as it stays on  *)
(* screen (Handshake).  That a page loads over another without showing the *)
(* wrong side rests on what was rendered last being the side the screen    *)
(* stands for (ContentIsCurrent).                                          *)
(***************************************************************************)
EXTENDS ReviewerPage, TLAPS

\* While a card that has been handed to AnswerAndGetCard is on screen the
\* controls are blocked.
Handshake ==
    /\ AnsweredOnce
    /\ handed > 0 => mInAnswer

\* mCardContent is the side of the card that is on screen.
ContentIsCurrent ==
    screen.mCurrentCard # 0 => content = Side(screen.mCurrentCard, screen.sDisplayAnswer)

\* The parts of the invariant, by the variables they are about.
ScreenOK ==
    /\ screen \in ScreenType /\ content \in SideType /\ load \in SideType
    /\ page \in PageType /\ open \in BOOLEAN
    /\ ContentIsCurrent /\ PageMatchesScreen
TaskOK ==
    /\ mInAnswer \in BOOLEAN /\ handed \in Nat
    /\ waiting \in Nat /\ reports \in Nat /\ waiting + reports <= MaxTasks
    /\ Handshake
ClicksOK == recent \in BOOLEAN /\ clicks \in 0 .. MaxClicks
WebOK ==
    /\ crashed \in 0 .. MaxCards
    /\ Len(page.chains) <= MaxFinished
    /\ signals \in Seq(SignalKinds) /\ Len(signals) <= MaxSignals

IInv == ScreenOK /\ TaskOK /\ ClicksOK /\ WebOK

-----------------------------------------------------------------------------
(* The operators on sides and pages stay within their types.               *)

LEMMA SideOK ==
  ASSUME NEW c \in 0 .. MaxCards, NEW a \in BOOLEAN
  PROVE  /\ Side(c, a) \in SideType
         /\ Side(c, a).card = c /\ Side(c, a).answer = a
         /\ c # 0 => Side(c, a) # NoSide
  BY DEF Side, SideType, NoSide

LEMMA NewPageOK ==
  ASSUME NEW d \in SideType, NEW i \in BOOLEAN, NEW m \in BOOLEAN
  PROVE  /\ NewPage(d, i, m) \in PageType
         /\ NewPage(d, i, m).side = d
         /\ NewPage(d, i, m).chains = <<>>
<1>1. <<>> \in Seq(ChainStates)
  BY DEF ChainStates
<1>2. QED
  BY <1>1 DEF NewPage, PageType

LEMMA PageOpsOK ==
  ASSUME NEW p \in PageType, NEW b \in BOOLEAN
  PROVE  /\ resizeImages(p, b) \in PageType
         /\ resizeImages(p, b).side = p.side /\ resizeImages(p, b).chains = p.chains
         /\ Anchored(p) \in PageType
         /\ Anchored(p).side = p.side /\ Anchored(p).chains = p.chains
  BY DEF PageType, resizeImages, Anchored

LEMMA ResizedAtLastOK ==
  ASSUME NEW p \in PageType, NEW b \in BOOLEAN
  PROVE  /\ ResizedAtLast(p, b) \in PageType
         /\ ResizedAtLast(p, b).side = p.side /\ ResizedAtLast(p, b).chains = p.chains
  BY PageOpsOK DEF ResizedAtLast

LEMMA ScreenOpsOK ==
  ASSUME NEW s \in ScreenType
  PROVE  /\ QuestionScreen(s) \in ScreenType
         /\ QuestionScreen(s).mCurrentCard = s.mCurrentCard
         /\ QuestionScreen(s).sDisplayAnswer = FALSE
  BY DEF ScreenType, QuestionScreen

-----------------------------------------------------------------------------
(* The initial states.                                                     *)

LEMMA InitIInv == Init => IInv
<1> SUFFICES ASSUME Init PROVE IInv
  OBVIOUS
<1>1. 0 \in 0 .. MaxCards /\ 0 \in 0 .. MaxClicks /\ 0 <= MaxSignals /\ 0 <= MaxFinished
  BY BoundsAssumption
<1>2. screen \in ScreenType /\ screen.mCurrentCard = 0
  BY <1>1 DEF Init, ScreenType
<1>3. NoSide \in SideType
  BY <1>1, SideOK DEF NoSide
<1>4. page \in PageType /\ page.chains = <<>>
  BY <1>3, NewPageOK DEF Init, NoPage
<1>5. signals \in Seq(SignalKinds) /\ Len(signals) = 0 /\ Len(page.chains) = 0
  BY <1>4 DEF Init
<1>6. ScreenOK
  BY <1>2, <1>3, <1>4 DEF Init, ScreenOK, ContentIsCurrent, PageMatchesScreen
<1>7. TaskOK
  <2>1. /\ handed \in Nat /\ handed <= 1 /\ ~(handed > 0)
        /\ waiting \in Nat /\ reports \in Nat /\ waiting + reports <= MaxTasks
    BY BoundsAssumption DEF Init
  <2>2. QED
    BY <2>1 DEF Init, TaskOK, Handshake, AnsweredOnce
<1>8. QED
  BY <1>1, <1>5, <1>6, <1>7 DEF Init, IInv, ClicksOK, WebOK

-----------------------------------------------------------------------------
(* What the handlers are built from keeps the part it changes.             *)

LEMMA SameScreen ==
  ASSUME ScreenOK, UNCHANGED <<screenVars, page, open>>
  PROVE  ScreenOK'
  BY DEF ScreenOK, ContentIsCurrent, PageMatchesScreen, screenVars

\* Whatever side the screen stands for is rendered and loaded at once.
LEMMA ShownIsCurrent ==
  ASSUME ScreenOK, screen' \in ScreenType, page' \in PageType, open' \in BOOLEAN,
         Show(screen'.mCurrentCard, screen'.sDisplayAnswer)
  PROVE  ScreenOK'
<1>1. screen'.mCurrentCard \in 0 .. MaxCards /\ screen'.sDisplayAnswer \in BOOLEAN
  BY DEF ScreenType
<1>2. content' = Side(screen'.mCurrentCard, screen'.sDisplayAnswer)
      /\ load' = Side(screen'.mCurrentCard, screen'.sDisplayAnswer)
  BY DEF Show
<1>3. QED
  BY <1>1, <1>2, SideOK DEF ScreenOK, ContentIsCurrent, PageMatchesScreen

\* A screen that is closed shows nothing any more.
LEMMA ClosedOK ==
  ASSUME ScreenOK, Closed
  PROVE  /\ ScreenOK' /\ Len(page'.chains) <= MaxFinished
         /\ signals' \in Seq(SignalKinds) /\ Len(signals') <= MaxSignals
<1>1. NoSide \in SideType
  BY BoundsAssumption DEF NoSide, Side, SideType
<1>2. NoPage \in PageType /\ NoPage.chains = <<>>
  BY <1>1, NewPageOK DEF NoPage
<1>3. ScreenOK'
  BY <1>1, <1>2 DEF Closed, ScreenOK, ContentIsCurrent, PageMatchesScreen
<1>4. Len(<<>>) = 0 /\ <<>> \in Seq(SignalKinds)
  OBVIOUS
<1>5. QED
  BY <1>2, <1>3, <1>4, BoundsAssumption DEF Closed

LEMMA AnswerDisplayed ==
  ASSUME ScreenOK, displayCardAnswer, UNCHANGED <<page, open>>
  PROVE  ScreenOK'
<1>1. CASE screen.mCurrentCard = 0 /\ UNCHANGED screenVars
  BY <1>1, SameScreen
<1>2. CASE /\ screen' = [screen EXCEPT !.sDisplayAnswer = TRUE, !.flip = FALSE]
           /\ Show(screen.mCurrentCard, TRUE)
  <2>1. screen' \in ScreenType /\ screen'.mCurrentCard = screen.mCurrentCard
        /\ screen'.sDisplayAnswer = TRUE
    BY <1>2 DEF ScreenOK, ScreenType
  <2>2. QED
    BY <1>2, <2>1, ShownIsCurrent DEF ScreenOK
<1>3. QED
  BY <1>1, <1>2 DEF displayCardAnswer

LEMMA FlipClicked ==
  ASSUME ScreenOK, recent \in BOOLEAN, ClickFlip, UNCHANGED <<page, open>>
  PROVE  ScreenOK' /\ recent' \in BOOLEAN
  BY AnswerDisplayed, SameScreen DEF ClickFlip

LEMMA FlippedOrAnswered ==
  ASSUME ScreenOK, ClicksOK, flipOrAnswerCard, UNCHANGED <<page, open, recent>>
  PROVE  ScreenOK' /\ ClicksOK'
<1>1. ScreenOK'
  BY AnswerDisplayed, SameScreen DEF flipOrAnswerCard
<1>2. clicks' \in 0 .. MaxClicks
  BY BoundsAssumption DEF flipOrAnswerCard, ClicksOK
<1>3. QED
  BY <1>1, <1>2 DEF ClicksOK

LEMMA RedrawnOK ==
  ASSUME ScreenOK, Redrawn, UNCHANGED <<page, open>>
  PROVE  ScreenOK'
<1>1. screen.mCurrentCard \in 0 .. MaxCards /\ screen.sDisplayAnswer \in BOOLEAN
  BY DEF ScreenOK, ScreenType
<1>2. screen.mCurrentCard # 0 => content # NoSide
  BY <1>1, SideOK DEF ScreenOK, ContentIsCurrent
<1>3. QED
  BY <1>2 DEF ScreenOK, Redrawn, ContentIsCurrent, PageMatchesScreen

LEMMA SameTask ==
  ASSUME TaskOK, UNCHANGED taskVars
  PROVE  TaskOK'
  BY DEF TaskOK, Handshake, AnsweredOnce, taskVars

LEMMA LaunchedInBounds ==
  ASSUME TaskOK, NEW blocks \in BOOLEAN, Launch(blocks)
  PROVE  waiting' \in Nat /\ reports' \in Nat /\ waiting' + reports' <= MaxTasks
<1>1. /\ waiting \in Nat /\ reports \in Nat
      /\ waiting + reports < MaxTasks /\ waiting' = waiting + 1 /\ reports' = reports
  BY DEF TaskOK, Launch
<1>2. QED
  BY <1>1, BoundsAssumption

LEMMA Launched ==
  ASSUME TaskOK, NEW blocks \in BOOLEAN, Launch(blocks), UNCHANGED handed
  PROVE  TaskOK'
<1>1. mInAnswer' \in BOOLEAN /\ (mInAnswer => mInAnswer')
  BY DEF TaskOK, Launch
<1>2. QED
  BY <1>1, LaunchedInBounds DEF TaskOK, Handshake, AnsweredOnce

LEMMA EaseClicked ==
  ASSUME TaskOK, recent \in BOOLEAN, ClickEase
  PROVE  TaskOK' /\ recent' \in BOOLEAN
<1>1. ASSUME ~mInAnswer, Launch(TRUE), handed' = handed + 1
      PROVE  TaskOK'
  <2>1. handed = 0
    BY <1>1 DEF TaskOK, Handshake
  <2>2. QED
    <3>1. mInAnswer' = TRUE
      BY <1>1 DEF Launch
    <3>2. handed' \in Nat /\ handed' <= 1
      BY <1>1, <2>1
    <3>3. /\ waiting' \in Nat /\ reports' \in Nat /\ waiting' + reports' <= MaxTasks
      BY <1>1, LaunchedInBounds
    <3>4. QED
      BY <3>1, <3>2, <3>3 DEF TaskOK, Handshake, AnsweredOnce
<1>2. ASSUME answerCard PROVE TaskOK'
  BY <1>1, <1>2, SameTask DEF answerCard
<1>3. QED
  BY <1>2, SameTask DEF ClickEase

LEMMA SameWeb ==
  ASSUME WebOK, UNCHANGED <<page, signals, crashed>>
  PROVE  WebOK'
  BY DEF WebOK

-----------------------------------------------------------------------------
(* Every step keeps the invariant.                                         *)

LEMMA ByHandOK == IInv /\ ByHand => IInv'
<1> SUFFICES ASSUME IInv, ByHand PROVE IInv'
  OBVIOUS
<1> USE DEF IInv, webVars, endVars, clickVars
<1>1. CASE TapFlip
  BY <1>1, FlipClicked, SameTask, SameWeb DEF TapFlip, ClicksOK
<1>2. CASE KeyShowsAnswer
  BY <1>2, AnswerDisplayed, SameTask, SameWeb DEF KeyShowsAnswer, ClicksOK
<1>3. CASE TapEase
  BY <1>3, EaseClicked, SameScreen, SameWeb DEF TapEase, ClicksOK
<1>4. CASE KeyFlipsOrAnswers
  BY <1>4, FlippedOrAnswered, SameTask, SameWeb DEF KeyFlipsOrAnswers
<1>5. CASE Dismiss \/ Undo \/ performReload \/ Reschedule
  <2>1. PICK blocks \in BOOLEAN : LaunchedFromMenu(blocks)
    BY <1>5 DEF Dismiss, Undo, performReload, Reschedule
  <2>2. QED
    BY <2>1, Launched, SameScreen, SameWeb DEF LaunchedFromMenu, ClicksOK
<1>6. CASE Redraw
  BY <1>6, RedrawnOK, SameTask, SameWeb DEF Redraw, ClicksOK
<1>7. QED
  BY <1>1, <1>2, <1>3, <1>4, <1>5, <1>6 DEF ByHand

LEMMA OnTheScreenOK == IInv /\ OnTheScreen => IInv'
<1> SUFFICES ASSUME IInv, OnTheScreen PROVE IInv'
  OBVIOUS
<1> USE DEF IInv, webVars, endVars, clickVars
<1>1. CASE PostedClick
  <2>1. clicks' \in 0 .. MaxClicks
    BY <1>1, BoundsAssumption DEF PostedClick, ClicksOK
  <2>2. QED
    BY <1>1, <2>1, EaseClicked, SameScreen, SameWeb DEF PostedClick, ClicksOK
<1>2. CASE TimePasses
  BY <1>2, SameScreen, SameTask, SameWeb DEF TimePasses, ClicksOK
<1>3. CASE TaskDone
  <2>1. TaskOK'
    BY <1>3, BoundsAssumption DEF TaskDone, TaskOK, Handshake, AnsweredOnce
  <2>2. QED
    BY <1>3, <2>1, SameScreen, SameWeb DEF TaskDone, ClicksOK
<1>4. CASE DisplayNext
  <2> DEFINE next == screen.mCurrentCard + 1
             s == [screen EXCEPT !.mCurrentCard = next]
  <2>1. next \in 0 .. MaxCards
    BY <1>4, BoundsAssumption DEF DisplayNext, ScreenOK, ScreenType
  <2>2. s \in ScreenType /\ s.mCurrentCard = next
    BY <2>1 DEF ScreenOK, ScreenType
  <2>3. screen' = QuestionScreen(s) /\ Show(next, FALSE)
    BY <1>4 DEF DisplayNext
  <2>4. screen' \in ScreenType /\ screen'.mCurrentCard = next /\ screen'.sDisplayAnswer = FALSE
    BY <2>2, <2>3, ScreenOpsOK
  <2>5. page' = page /\ open' = open
    BY <1>4 DEF DisplayNext
  <2>6. ScreenOK'
    BY <2>3, <2>4, <2>5, ShownIsCurrent DEF ScreenOK
  <2>7. TaskOK'
    <3>1. mInAnswer' = FALSE /\ handed' = 0 /\ reports' = reports - 1 /\ waiting' = waiting /\ reports > 0
      BY <1>4 DEF DisplayNext
    <3>2. /\ waiting \in Nat /\ reports \in Nat /\ waiting + reports <= MaxTasks
      BY DEF TaskOK
    <3>3. /\ waiting' \in Nat /\ reports' \in Nat /\ waiting' + reports' <= MaxTasks
      BY <3>1, <3>2, BoundsAssumption
    <3>4. handed' \in Nat /\ handed' <= 1 /\ ~(handed' > 0)
      BY <3>1
    <3>5. QED
      BY <3>1, <3>3, <3>4 DEF TaskOK, Handshake, AnsweredOnce
  <2>8. ClicksOK' /\ WebOK'
    BY <1>4 DEF DisplayNext, ClicksOK, WebOK
  <2>9. QED
    BY <2>6, <2>7, <2>8
<1>5. CASE NoMoreCards
  <2>1. ScreenOK' /\ Len(page'.chains) <= MaxFinished
        /\ signals' \in Seq(SignalKinds) /\ Len(signals') <= MaxSignals
    BY <1>5, ClosedOK DEF NoMoreCards
  <2>2. QED
    BY <1>5, <2>1, SameTask DEF NoMoreCards, ClicksOK, WebOK
<1>6. QED
  BY <1>1, <1>2, <1>3, <1>4, <1>5 DEF OnTheScreen

LEMMA SignalledOK == IInv /\ Signalled => IInv'
<1> SUFFICES ASSUME IInv, Signalled PROVE IInv'
  OBVIOUS
<1> USE DEF IInv, endVars, clickVars
<1>1. PICK kind \in SignalKinds : Received(kind)
  BY DEF Signalled, TypeFocusReceived, TypeBlurReceived, TypeEnterReceived, ShowAnswerReceived,
         AnswerEaseReceived, ReloadReceived, SignalKinds
<1>2. signals # <<>> /\ signals' = Tail(signals) /\ UNCHANGED <<page, crashed, open>>
  BY <1>1 DEF Received
<1>3. signals' \in Seq(SignalKinds) /\ Len(signals') <= MaxSignals
  <2>1. signals \in Seq(SignalKinds) /\ Len(signals) <= MaxSignals
    BY DEF WebOK
  <2>2. Tail(signals) \in Seq(SignalKinds) /\ Len(Tail(signals)) = Len(signals) - 1
    BY <1>2, <2>1
  <2>3. Len(signals) \in Nat
    BY <2>1
  <2>4. QED
    BY <1>2, <2>1, <2>2, <2>3, BoundsAssumption
<1>4. WebOK'
  BY <1>2, <1>3 DEF WebOK
<1>5. CASE TypeFocusReceived \/ TypeBlurReceived
  <2>1. PICK b \in BOOLEAN : screen' = [screen EXCEPT !.flip = b]
    BY <1>5 DEF TypeFocusReceived, TypeBlurReceived
  <2>2. screen' \in ScreenType /\ screen'.mCurrentCard = screen.mCurrentCard
        /\ screen'.sDisplayAnswer = screen.sDisplayAnswer
    BY <2>1 DEF ScreenOK, ScreenType
  <2>3. UNCHANGED <<content, load, clickVars, taskVars>>
    BY <1>5 DEF TypeFocusReceived, TypeBlurReceived
  <2>4. ScreenOK'
    BY <1>2, <2>2, <2>3 DEF ScreenOK, ContentIsCurrent, PageMatchesScreen
  <2>5. QED
    BY <1>4, <2>3, <2>4, SameTask DEF ClicksOK
<1>6. CASE TypeEnterReceived
  BY <1>2, <1>4, <1>6, FlipClicked, SameTask DEF TypeEnterReceived, ClicksOK
<1>7. CASE ShowAnswerReceived
  BY <1>2, <1>4, <1>7, AnswerDisplayed, SameScreen, SameTask DEF ShowAnswerReceived, ClicksOK
<1>8. CASE AnswerEaseReceived
  BY <1>2, <1>4, <1>8, FlippedOrAnswered, SameTask DEF AnswerEaseReceived
<1>9. CASE ReloadReceived
  BY <1>2, <1>4, <1>9, RedrawnOK, SameTask DEF ReloadReceived, ClicksOK
<1>10. QED
  BY <1>5, <1>6, <1>7, <1>8, <1>9 DEF Signalled

LEMMA ChainOK ==
  ASSUME ScreenOK, WebOK, NEW i \in 1 .. Len(page.chains), ChainGoesOn(i)
  PROVE  ScreenOK' /\ WebOK'
<1>1. /\ page \in PageType /\ page.chains \in Seq(ChainStates)
      /\ i \in DOMAIN page.chains
  BY DEF ScreenOK, PageType
<1>2. PICK c \in ChainStates, m \in BOOLEAN :
         page' = [page EXCEPT !.chains[i] = c, !.math = m]
  <2>1. CASE HooksSettled(i)
    <3>1. page' = [page EXCEPT !.chains[i] = IF page.math THEN "typesetting" ELSE "ended",
                               !.math = page.math]
      BY <1>1, <2>1 DEF HooksSettled, PageType
    <3>2. QED
      BY <1>1, <3>1 DEF ChainStates, PageType
  <2>2. CASE Typeset(i)
    BY <2>2 DEF Typeset, ChainStates
  <2>3. CASE ChainFails(i)
    <3>1. page' = [page EXCEPT !.chains[i] = IF page.math THEN "failed" ELSE "ended",
                               !.math = page.math]
      BY <1>1, <2>3 DEF ChainFails, PageType
    <3>2. QED
      BY <1>1, <3>1 DEF ChainStates, PageType
  <2>4. QED
    BY <2>1, <2>2, <2>3 DEF ChainGoesOn
<1>3. [page.chains EXCEPT ![i] = c] \in Seq(ChainStates)
      /\ Len([page.chains EXCEPT ![i] = c]) = Len(page.chains)
  BY <1>1
<1>4. page'.chains = [page.chains EXCEPT ![i] = c]
  BY <1>1, <1>2 DEF PageType
<1>5. page' \in PageType /\ page'.side = page.side
  BY <1>1, <1>2, <1>3 DEF PageType
<1>6. UNCHANGED <<screen, content, load, signals, crashed, open>>
  BY DEF ChainGoesOn, screenVars, endVars
<1>7. ScreenOK'
  BY <1>5, <1>6 DEF ScreenOK, ContentIsCurrent, PageMatchesScreen
<1>8. WebOK'
  BY <1>3, <1>4, <1>6 DEF WebOK
<1>9. QED
  BY <1>7, <1>8

\* A step of the script that changes neither the side of the page nor the
\* calls of onPageFinished.
LEMMA ScriptOK ==
  ASSUME ScreenOK, WebOK, page' \in PageType, page'.side = page.side,
         Len(page'.chains) <= MaxFinished,
         signals' \in Seq(SignalKinds), Len(signals') <= MaxSignals,
         UNCHANGED <<screenVars, endVars>>
  PROVE  ScreenOK' /\ WebOK'
  BY DEF ScreenOK, WebOK, ContentIsCurrent, PageMatchesScreen, screenVars, endVars

LEMMA NavigateOK ==
  ASSUME WebOK, NEW kind \in SignalKinds, Navigate(kind)
  PROVE  signals' \in Seq(SignalKinds) /\ Len(signals') <= MaxSignals
<1>1. signals \in Seq(SignalKinds)
  BY DEF WebOK
<1>2. Append(signals, kind) \in Seq(SignalKinds) /\ Len(Append(signals, kind)) = Len(signals) + 1
  BY <1>1
<1>3. Len(signals) \in Nat
  BY <1>1
<1>4. QED
  BY <1>2, <1>3, BoundsAssumption DEF Navigate

LEMMA InTheWebViewOK == IInv /\ InTheWebView => IInv'
<1> SUFFICES ASSUME IInv, InTheWebView PROVE IInv'
  OBVIOUS
<1> USE DEF IInv
<1>1. /\ page \in PageType /\ Len(page.chains) <= MaxFinished
      /\ signals \in Seq(SignalKinds) /\ Len(signals) <= MaxSignals
  BY DEF ScreenOK, WebOK
<1>2. 0 <= MaxSignals /\ 0 <= MaxFinished
  BY BoundsAssumption
<1>3. TaskOK' /\ ClicksOK'
  <2>1. UNCHANGED <<clickVars, taskVars>>
    BY DEF InTheWebView, Commit, RendererGone, OnLoad, OnPageFinished, ChainGoesOn, taFocus, taBlur,
           taKey, CalledByTemplate, InScript
  <2>2. QED
    BY <2>1, SameTask DEF ClicksOK, clickVars
<1>4. CASE Commit
  <2>1. PICK input \in BOOLEAN, math \in BOOLEAN : page' = NewPage(load, input, math)
    BY <1>4 DEF Commit
  <2>2. page' \in PageType /\ page'.side = load /\ page'.chains = <<>>
    BY <2>1, NewPageOK DEF ScreenOK
  <2>3. load # NoSide /\ load' = NoSide /\ signals' = <<>> /\ UNCHANGED <<screen, content, endVars>>
    BY <1>4 DEF Commit
  <2>4. NoSide \in SideType
    BY BoundsAssumption DEF NoSide, Side, SideType
  <2>5. ScreenOK'
    BY <2>2, <2>3, <2>4 DEF ScreenOK, ContentIsCurrent, PageMatchesScreen, endVars
  <2>6. WebOK'
    BY <1>2, <2>2, <2>3 DEF WebOK, endVars
  <2>7. QED
    BY <1>3, <2>5, <2>6
<1>5. CASE RendererGone
  <2>1. NoSide \in SideType
    BY BoundsAssumption DEF NoSide, Side, SideType
  <2>2. NoPage \in PageType /\ NoPage.chains = <<>>
    BY <2>1, NewPageOK DEF NoPage
  <2>4. CASE Closed /\ UNCHANGED crashed
    BY <1>3, <2>4, ClosedOK DEF WebOK
  <2>5. CASE /\ crashed' = screen.mCurrentCard /\ UNCHANGED open
             /\ page' = NoPage /\ signals' = <<>>
             /\ screen' = QuestionScreen(screen)
             /\ Show(screen.mCurrentCard, FALSE)
    <3>1. screen' \in ScreenType /\ screen'.mCurrentCard = screen.mCurrentCard
          /\ screen'.sDisplayAnswer = FALSE
      BY <2>5, ScreenOpsOK DEF ScreenOK
    <3>2. ScreenOK'
      BY <2>2, <2>5, <3>1, ShownIsCurrent DEF ScreenOK
    <3>3. WebOK'
      <4>1. screen.mCurrentCard \in 0 .. MaxCards
        BY DEF ScreenOK, ScreenType
      <4>2. QED
        BY <1>2, <2>2, <2>5, <4>1 DEF WebOK
    <3>4. QED
      BY <1>3, <3>2, <3>3
  <2>6. QED
    BY <1>5, <2>4, <2>5 DEF RendererGone
<1>6. CASE OnLoad
  <2>1. PICK sized \in BOOLEAN :
           page' = Anchored(resizeImages([page EXCEPT !.loaded = TRUE], sized))
    BY <1>6 DEF OnLoad
  <2>2. /\ [page EXCEPT !.loaded = TRUE] \in PageType
        /\ [page EXCEPT !.loaded = TRUE].side = page.side
        /\ [page EXCEPT !.loaded = TRUE].chains = page.chains
    BY <1>1 DEF PageType
  <2>3. page' \in PageType /\ page'.side = page.side /\ page'.chains = page.chains
    BY <2>1, <2>2, PageOpsOK
  <2>4. UNCHANGED <<screenVars, signals, endVars>>
    BY <1>6 DEF OnLoad
  <2>5. QED
    BY <1>1, <1>3, <2>3, <2>4, ScriptOK
<1>7. CASE OnPageFinished
  <2>0. PICK sized \in BOOLEAN :
           page' = [ResizedAtLast(page, sized) EXCEPT !.chains = Append(@, "updating")]
    BY <1>7 DEF OnPageFinished
  <2> DEFINE p == ResizedAtLast(page, sized)
  <2>1. p \in PageType /\ p.side = page.side /\ p.chains = page.chains
    BY <1>1, ResizedAtLastOK
  <2>2. page' = [p EXCEPT !.chains = Append(p.chains, "updating")]
    BY <2>0, <2>1 DEF PageType
  <2>3. page.chains \in Seq(ChainStates) /\ "updating" \in ChainStates
    BY <1>1 DEF PageType, ChainStates
  <2>4. /\ Append(page.chains, "updating") \in Seq(ChainStates)
        /\ Len(Append(page.chains, "updating")) = Len(page.chains) + 1 /\ Len(page.chains) \in Nat
    BY <2>3
  <2>5. page' \in PageType /\ page'.side = page.side
        /\ page'.chains = Append(page.chains, "updating")
    BY <2>1, <2>2, <2>4 DEF PageType
  <2>6. Len(page'.chains) <= MaxFinished
    BY <1>7, <2>4, <2>5, BoundsAssumption DEF OnPageFinished
  <2>7. UNCHANGED <<screenVars, signals, endVars>>
    BY <1>7 DEF OnPageFinished
  <2>8. QED
    BY <1>1, <1>3, <2>5, <2>6, <2>7, ScriptOK
<1>8. CASE \E i \in 1 .. Len(page.chains) : ChainGoesOn(i)
  BY <1>3, <1>8, ChainOK
<1>9. CASE taFocus \/ taBlur
  <2>1. PICK b \in BOOLEAN : page' = [page EXCEPT !.focused = b]
    BY <1>9 DEF taFocus, taBlur
  <2>2. page' \in PageType /\ page'.side = page.side /\ page'.chains = page.chains
    BY <1>1, <2>1 DEF PageType
  <2>3. \E kind \in SignalKinds : Navigate(kind)
    BY <1>9 DEF taFocus, taBlur, SignalKinds
  <2>4. UNCHANGED <<screenVars, endVars>>
    BY <1>9 DEF taFocus, taBlur, InScript
  <2>5. QED
    BY <1>1, <1>3, <2>2, <2>3, <2>4, NavigateOK, ScriptOK
<1>10. CASE taKey \/ CalledByTemplate
  <2>1. UNCHANGED <<page, screenVars, endVars>>
    BY <1>10 DEF taKey, CalledByTemplate, InScript
  <2>2. \E kind \in SignalKinds : Navigate(kind)
    BY <1>10 DEF taKey, CalledByTemplate, SignalKinds
  <2>3. QED
    BY <1>1, <1>3, <2>1, <2>2, NavigateOK, ScriptOK
<1>11. QED
  BY <1>4, <1>5, <1>6, <1>7, <1>8, <1>9, <1>10 DEF InTheWebView

LEMMA StepIInv == IInv /\ [Next]_vars => IInv'
<1>1. ASSUME IInv, UNCHANGED vars PROVE IInv'
  BY <1>1, SameScreen, SameTask, SameWeb
  DEF IInv, ClicksOK, vars, webVars, clickVars, endVars
<1>2. QED
  BY <1>1, ByHandOK, OnTheScreenOK, InTheWebViewOK, SignalledOK DEF Next

-----------------------------------------------------------------------------

\* Types, for every number of cards and all bounds.
THEOREM TypeCorrect == Spec => []TypeOK
<1>1. IInv => TypeOK
  BY DEF IInv, TypeOK, ScreenOK, TaskOK, ClicksOK, WebOK
<1>2. QED
  BY <1>1, InitIInv, StepIInv, PTL DEF Spec

\* The page that is shown, or will be as soon as it is committed, is the side
\* of the card that the buttons act on, whatever redraws, crashes and signals
\* come between.
THEOREM PageMatchesScreenHolds == Spec => []PageMatchesScreen
<1>1. IInv => PageMatchesScreen
  BY DEF IInv, ScreenOK
<1>2. QED
  BY <1>1, InitIInv, StepIInv, PTL DEF Spec

\* No interleaving of taps, posted clicks, keys and signals has a card
\* answered twice while it is on screen, however many other tasks are under
\* way.
THEOREM AnsweredOnceHolds == Spec => []AnsweredOnce
<1>1. IInv => AnsweredOnce
  BY DEF IInv, TaskOK, Handshake
<1>2. QED
  BY <1>1, InitIInv, StepIInv, PTL DEF Spec

LEMMA AnchoredSame ==
  ASSUME AnchoredAfterResize, page'.chains = page.chains, page'.resizeDone = page.resizeDone,
         page'.anchored = page.anchored
  PROVE  AnchoredAfterResize'
  BY DEF AnchoredAfterResize

\* A page comes into being without a resize and without a call of
\* onPageFinished, and the script resizes only to go to the answer next.
LEMMA AnchoredKept == IInv /\ AnchoredAfterResize /\ InTheWebView => AnchoredAfterResize'
<1> SUFFICES ASSUME IInv, AnchoredAfterResize, InTheWebView PROVE AnchoredAfterResize'
  OBVIOUS
<1>1. page \in PageType
  BY DEF IInv, ScreenOK
<1>2. CASE Commit \/ RendererGone
  <2>1. PICK d, i, m : page' = NewPage(d, i, m)
    BY <1>2, Zenon DEF Commit, RendererGone, Closed, NoPage
  <2>2. page'.chains = <<>> /\ page'.resizeDone = FALSE
    BY <2>1 DEF NewPage
  <2>3. QED
    BY <2>2 DEF AnchoredAfterResize
<1>3. CASE OnLoad
  <2>1. PICK sized \in BOOLEAN :
           page' = Anchored(resizeImages([page EXCEPT !.loaded = TRUE], sized))
    BY <1>3 DEF OnLoad
  <2>2. /\ page'.anchored = TRUE /\ page'.chains = page.chains
        /\ page.resizeDone => page'.resizeDone
    BY <1>1, <2>1 DEF Anchored, resizeImages, PageType
  <2>3. QED
    BY <2>2 DEF AnchoredAfterResize
<1>4. CASE OnPageFinished
  <2>1. PICK sized \in BOOLEAN :
           page' = [ResizedAtLast(page, sized) EXCEPT !.chains = Append(@, "updating")]
    BY <1>4 DEF OnPageFinished
  <2>2. ResizedAtLast(page, sized).anchored /\ ResizedAtLast(page, sized) \in PageType
    BY <1>1, ResizedAtLastOK
    DEF AnchoredAfterResize, ResizedAtLast, Anchored, resizeImages, PageType
  <2>3. page'.anchored
    BY <2>1, <2>2 DEF PageType
  <2>4. QED
    BY <2>3 DEF AnchoredAfterResize
<1>5. ASSUME NEW i \in 1 .. Len(page.chains), ChainGoesOn(i) PROVE AnchoredAfterResize'
  <2>1. page.chains # <<>>
    BY <1>5
  <2>2. CASE HooksSettled(i) \/ ChainFails(i)
    <3>1. PICK cs : page' = [page EXCEPT !.chains = cs]
      BY <2>2 DEF HooksSettled, ChainFails
    <3>2. page'.resizeDone = page.resizeDone /\ page'.anchored = page.anchored
      BY <1>1, <3>1 DEF PageType
    <3>3. QED
      BY <2>1, <3>2 DEF AnchoredAfterResize
  <2>3. CASE Typeset(i)
    <3>1. PICK cs : page' = [page EXCEPT !.chains = cs, !.math = FALSE]
      BY <2>3 DEF Typeset
    <3>2. page'.resizeDone = page.resizeDone /\ page'.anchored = page.anchored
      BY <1>1, <3>1 DEF PageType
    <3>3. QED
      BY <2>1, <3>2 DEF AnchoredAfterResize
  <2>4. QED
    BY <1>5, <2>2, <2>3 DEF ChainGoesOn
<1>6. CASE taFocus \/ taBlur \/ taKey \/ CalledByTemplate
  <2>1. page' = page \/ \E b \in BOOLEAN : page' = [page EXCEPT !.focused = b]
    BY <1>6 DEF taFocus, taBlur, taKey, CalledByTemplate
  <2>2. /\ page'.resizeDone = page.resizeDone /\ page'.anchored = page.anchored
        /\ page'.chains = page.chains
    BY <1>1, <2>1 DEF PageType
  <2>3. QED
    BY <2>2, AnchoredSame
<1>7. QED
  BY <1>2, <1>3, <1>4, <1>5, <1>6 DEF InTheWebView

\* Whatever the size of the window and the order of onload and
\* onPageFinished, the page stands at the answer after the last resize.
THEOREM AnchoredAfterResizeHolds == Spec => []AnchoredAfterResize
<1>1. Init => AnchoredAfterResize
  BY DEF Init, AnchoredAfterResize, NoPage, NewPage
<1>2. IInv /\ AnchoredAfterResize /\ [Next]_vars => AnchoredAfterResize'
  <2>1. ASSUME AnchoredAfterResize, UNCHANGED page \/ page' = NoPage
        PROVE  AnchoredAfterResize'
    BY <2>1 DEF AnchoredAfterResize, NoPage, NewPage
  <2>2. ByHand \/ OnTheScreen \/ Signalled \/ UNCHANGED vars =>
          UNCHANGED page \/ page' = NoPage
    BY DEF ByHand, OnTheScreen, Signalled, TapFlip, KeyShowsAnswer, TapEase, KeyFlipsOrAnswers,
           Dismiss, Undo, performReload, Reschedule, LaunchedFromMenu, Redraw, PostedClick,
           TimePasses, TaskDone, DisplayNext,
           TypeFocusReceived, TypeBlurReceived, TypeEnterReceived, ShowAnswerReceived,
           AnswerEaseReceived, ReloadReceived, Received, NoMoreCards, Closed, webVars, vars
  <2>3. QED
    BY <2>1, <2>2, AnchoredKept DEF Next
<1>3. QED
  BY <1>1, <1>2, InitIInv, StepIInv, PTL DEF Spec

=============================================================================
