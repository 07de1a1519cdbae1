---------------------------- MODULE ReviewerPage ----------------------------
(***************************************************************************)
(* The screen a card is reviewed on: AbstractFlashcardViewer, on the main  *)
(* thread, and the page it has a WebView show, with the script card.js of  *)
(* that page.  The two sides exchange no objects:                          *)
(*                                                                         *)
(*   - the screen loads a page (loadDataWithBaseURL returns at once, the   *)
(*     page before lives on until the new one is committed), and calls     *)
(*     onPageFinished() in it when the WebView says it has finished;       *)
(*   - the page navigates to "signal:..." addresses, which the WebView     *)
(*     hands to filterUrl.  A signal does not say which card it is from.   *)
(*                                                                         *)
(* The WebView is external: pages commit in the order they were loaded,    *)
(* the signals of a page arrive in order while it is committed, and        *)
(* onPageFinished may come more than once for one page.  Cards are         *)
(* numbered in the order they are shown: a card that is shown again has    *)
(* another number.                                                         *)
(*                                                                         *)
(* Every collection task the screen launches ends in displayNext.  They    *)
(* run one after the other (BackgroundTasks) and report in that order, so  *)
(* only how many are waiting and how many have reported is kept.           *)
(***************************************************************************)
EXTENDS Naturals, Sequences

CONSTANTS
    MaxCards,       \* bound: the times a card is shown, after which the screen closes
    MaxTasks,       \* bound: collection tasks of the screen under way
    MaxSignals,     \* bound: signals on their way
    MaxClicks,      \* bound: clicks posted to the ease buttons
    MaxFinished     \* bound: calls of onPageFinished per page

ASSUME BoundsAssumption ==
    {MaxCards, MaxTasks, MaxSignals, MaxClicks, MaxFinished} \subseteq Nat \ {0}

VARIABLES
    screen,     \* mCurrentCard (0 for null), sDisplayAnswer, and whether
                \* mFlipCardLayout, the Show Answer button, is visible
    content,    \* mCardContent: the side of the card that was rendered last
    recent,     \* less than DOUBLE_TAP_IGNORE_THRESHOLD since mLastClickTime
    clicks,     \* performClick calls posted to the ease buttons, not yet run
    mInAnswer,  \* the controls are blocked
    waiting,    \* the collection tasks that were launched and have not run
    reports,    \* the cards they have reported, not yet passed to displayNext
    handed,     \* how often the card has been handed to AnswerAndGetCard since
                \* it was shown
    crashed,    \* lastCrashingCardId, as the number it was shown under (0 for null)
    open,       \* the screen has not been closed
    load,       \* the page that was loaded and is not committed yet
    page,       \* the page committed in the WebView
    signals     \* the navigations of that page filterUrl has not seen yet

screenVars == <<screen, content, load>>
clickVars == <<recent, clicks>>
taskVars == <<mInAnswer, waiting, reports, handed>>
webVars == <<page, signals>>
endVars == <<crashed, open>>
vars == <<screenVars, clickVars, taskVars, webVars, endVars>>

Cards == 1 .. MaxCards
Side(card, answer) == [card |-> card, answer |-> answer]
NoSide == Side(0, FALSE)
SignalKinds == {"typefocus", "typeblurtext", "typeentertext", "show_answer", "answer_ease", "reload_card_html"}

\* A page as it is parsed: card.js has run its top level, window.onload and
\* onPageFinished have not.  math is the class mathjax-needs-to-render,
\* chains has the promise chain of each call of onPageFinished.
NewPage(side, input, math) ==
    [side |-> side, input |-> input, math |-> math, loaded |-> FALSE, resizeDone |-> FALSE,
     anchored |-> FALSE, focused |-> FALSE, chains |-> <<>>]
NoPage == NewPage(NoSide, FALSE, FALSE)

ChainStates == {"updating", "typesetting", "ended", "failed"}

ScreenType == [mCurrentCard : 0 .. MaxCards, sDisplayAnswer : BOOLEAN, flip : BOOLEAN]
SideType == [card : 0 .. MaxCards, answer : BOOLEAN]
PageType == [side : SideType, input : BOOLEAN, math : BOOLEAN, loaded : BOOLEAN,
             resizeDone : BOOLEAN, anchored : BOOLEAN, focused : BOOLEAN, chains : Seq(ChainStates)]

TypeOK ==
    /\ screen \in ScreenType /\ content \in SideType /\ load \in SideType
    /\ recent \in BOOLEAN /\ clicks \in 0 .. MaxClicks
    /\ mInAnswer \in BOOLEAN /\ handed \in Nat
    /\ waiting \in Nat /\ reports \in Nat /\ waiting + reports <= MaxTasks
    /\ crashed \in 0 .. MaxCards /\ open \in BOOLEAN
    /\ page \in PageType /\ Len(page.chains) <= MaxFinished
    /\ signals \in Seq(SignalKinds) /\ Len(signals) <= MaxSignals

\* onCollectionLoaded asks for the first card; sDisplayAnswer is static, and
\* still says what the screen before showed last.
Init ==
    /\ \E last \in BOOLEAN :
          screen = [mCurrentCard |-> 0, sDisplayAnswer |-> last, flip |-> TRUE]
    /\ content = NoSide /\ load = NoSide
    /\ recent = FALSE /\ clicks = 0
    /\ mInAnswer = TRUE /\ waiting = 1 /\ reports = 0 /\ handed = 0
    /\ page = NoPage /\ signals = <<>>
    /\ crashed = 0 /\ open = TRUE

-----------------------------------------------------------------------------
(* What the handlers of the screen are built from.                         *)

\* updateCard and fillFlashcard: render a side and load it.
Show(card, answer) ==
    /\ content' = Side(card, answer)
    /\ load' = Side(card, answer)

displayCardAnswer ==
    \/ /\ screen.mCurrentCard = 0
       /\ UNCHANGED screenVars
    \/ /\ screen.mCurrentCard # 0
       /\ screen' = [screen EXCEPT !.sDisplayAnswer = TRUE, !.flip = FALSE]
       /\ Show(screen.mCurrentCard, TRUE)

\* A slip for TLC: sDisplayAnswer is left as it was.
QuestionScreenSameSide(s) == [s EXCEPT !.flip = TRUE]

\* displayCardQuestion, as a new value of screen: hideEaseButtons gives the
\* Show Answer button back.
QuestionScreen(s) == [s EXCEPT !.sDisplayAnswer = FALSE, !.flip = TRUE]

\* A click on the Show Answer button, real or performed: the second of a
\* double tap is ignored.
ClickFlip ==
    \/ recent /\ UNCHANGED <<screenVars, recent>>
    \/ ~recent /\ recent' = TRUE /\ displayCardAnswer

\* launchCollectionTask: the listener's onPreExecute runs at once, and may
\* block the controls.
Launch(blocks) ==
    /\ waiting + reports < MaxTasks
    /\ waiting' = waiting + 1
    /\ mInAnswer' = (mInAnswer \/ blocks)
    /\ UNCHANGED reports

\* A slip for TLC: an answer that does not look at mInAnswer.
answerCardAgain ==
    /\ Launch(TRUE)
    /\ handed' = handed + 1

\* answerCard launches AnswerAndGetCard, unless the controls are blocked or
\* the card has no button for the ease asked for.
answerCard ==
    \/ UNCHANGED taskVars
    \/ /\ ~mInAnswer
       /\ Launch(TRUE)
       /\ handed' = handed + 1

\* A click on an ease button.
ClickEase ==
    \/ recent /\ UNCHANGED <<taskVars, recent>>
    \/ ~recent /\ recent' = TRUE /\ answerCard

\* flipOrAnswerCard: performClickWithVisualFeedback posts its click, to run
\* 20 ms later.
flipOrAnswerCard ==
    \/ /\ ~screen.sDisplayAnswer
       /\ displayCardAnswer
       /\ UNCHANGED clicks
    \/ /\ screen.sDisplayAnswer
       /\ clicks < MaxClicks
       /\ clicks' = clicks + 1
       /\ UNCHANGED screenVars

-----------------------------------------------------------------------------
(* The learner, at the buttons, the keys and the gestures.  A timer that   *)
(* shows the answer or the next question performs the same clicks.         *)

TapFlip ==
    /\ open /\ screen.flip /\ ~mInAnswer
    /\ ClickFlip
    /\ UNCHANGED <<clicks, taskVars, webVars, endVars>>

\* onKeyUp, while the question is on screen.
KeyShowsAnswer ==
    /\ open /\ ~screen.sDisplayAnswer
    /\ displayCardAnswer
    /\ UNCHANGED <<clickVars, taskVars, webVars, endVars>>

TapEase ==
    /\ open /\ screen.sDisplayAnswer /\ ~mInAnswer
    /\ ClickEase
    /\ UNCHANGED <<clicks, screenVars, webVars, endVars>>

\* executeCommand refuses while the controls are blocked.
KeyFlipsOrAnswers ==
    /\ open /\ ~mInAnswer
    /\ flipOrAnswerCard
    /\ UNCHANGED <<recent, taskVars, webVars, endVars>>

\* The click posted by performClickWithVisualFeedback runs: it is the ease
\* button of whatever card is on screen by now.
PostedClick ==
    /\ open /\ clicks > 0
    /\ clicks' = clicks - 1
    /\ ClickEase
    /\ UNCHANGED <<screenVars, webVars, endVars>>

TimePasses ==
    /\ open /\ recent
    /\ recent' = FALSE
    /\ UNCHANGED <<screenVars, clicks, taskVars, webVars, endVars>>

LaunchedFromMenu(blocks) ==
    /\ open
    /\ Launch(blocks)
    /\ UNCHANGED <<screenVars, clickVars, handed, webVars, endVars>>

\* dismiss: bury, suspend or delete the card or its note.  The menu and the
\* dialog that asks about a deletion call it whether or not the controls are
\* blocked.
Dismiss == screen.mCurrentCard # 0 /\ LaunchedFromMenu(TRUE)

\* undo, from the menu whether or not the controls are blocked.
Undo == LaunchedFromMenu(TRUE)

\* performReload: back from a screen that may have changed the queue.
performReload == LaunchedFromMenu(TRUE)

\* RescheduleCards and ResetCards, from their dialogs, with a listener that
\* does not block the controls.
Reschedule == screen.mCurrentCard # 0 /\ LaunchedFromMenu(FALSE)

\* A slip for TLC: what the WebView shows is loaded again, not mCardContent.
RedrawnAsCommitted ==
    /\ load' = page.side
    /\ UNCHANGED <<screen, content>>

\* redrawCard: back from the note editor, or asked for by the page.
Redrawn ==
    /\ load' = IF content = NoSide THEN load ELSE content
    /\ UNCHANGED <<screen, content>>

Redraw ==
    /\ open
    /\ Redrawn
    /\ UNCHANGED <<clickVars, taskVars, webVars, endVars>>

-----------------------------------------------------------------------------
(* The collection tasks, in the background, and displayNext on the main    *)
(* thread when one reports a card.                                         *)

\* A slip for TLC: a task that reports its card twice.
TaskDoneTwice ==
    /\ open /\ waiting > 0
    /\ waiting' = waiting - 1
    /\ reports' = reports + 2
    /\ UNCHANGED <<screenVars, clickVars, mInAnswer, handed, webVars, endVars>>

TaskDone ==
    /\ open /\ waiting > 0
    /\ waiting' = waiting - 1
    /\ reports' = reports + 1
    /\ UNCHANGED <<screenVars, clickVars, mInAnswer, handed, webVars, endVars>>

\* updateTypeAnswerInfo, unblockControls, displayCardQuestion: whatever the
\* task was launched for, and whatever else is under way.
DisplayNext ==
    /\ open /\ reports > 0 /\ screen.mCurrentCard < MaxCards
    /\ LET next == screen.mCurrentCard + 1
       IN  /\ screen' = QuestionScreen([screen EXCEPT !.mCurrentCard = next])
           /\ Show(next, FALSE)
    /\ mInAnswer' = FALSE
    /\ reports' = reports - 1
    /\ handed' = 0
    /\ UNCHANGED <<clickVars, waiting, webVars, endVars>>

\* closeReviewer: the screen is finished and its WebView destroyed.
Closed ==
    /\ open' = FALSE
    /\ page' = NoPage /\ signals' = <<>> /\ load' = NoSide
    /\ UNCHANGED <<screen, content>>

\* A task reports no card, as the undo of a bulk operation also does, or
\* fails.
NoMoreCards ==
    /\ open /\ reports > 0
    /\ Closed
    /\ UNCHANGED <<clickVars, taskVars, crashed>>

-----------------------------------------------------------------------------
(* The WebView: it commits what was loaded last, and may lose its renderer *)
(* process, with the page and its signals.                                 *)

\* A question may have a box to type the answer in, and either side formulas.
Commit ==
    /\ open /\ load # NoSide
    /\ \E input, math \in BOOLEAN :
          /\ input => ~load.answer
          /\ page' = NewPage(load, input, math)
    /\ load' = NoSide
    /\ signals' = <<>>
    /\ UNCHANGED <<screen, content, clickVars, taskVars, endVars>>

\* onRenderProcessGone: the question is shown again, in a new WebView, unless
\* the card is the one that was on screen the last time; then the screen is
\* left.  That card may be on screen again under another number.
RendererGone ==
    /\ open /\ screen.mCurrentCard # 0
    /\ \/ /\ crashed # 0
          /\ Closed
          /\ UNCHANGED crashed
       \/ /\ crashed # screen.mCurrentCard
          /\ crashed' = screen.mCurrentCard
          /\ page' = NoPage /\ signals' = <<>>
          /\ screen' = QuestionScreen(screen)
          /\ Show(screen.mCurrentCard, FALSE)
          /\ UNCHANGED open
    /\ UNCHANGED <<clickVars, taskVars>>

-----------------------------------------------------------------------------
(* card.js, in the page that is committed.                                 *)

InPage == open /\ page # NoPage

\* resizeImages: nothing is done while the window has no size; resizing moves
\* the point #answer stands for.
resizeImages(p, sized) ==
    IF sized THEN [p EXCEPT !.resizeDone = TRUE, !.anchored = FALSE] ELSE p

\* window.location.href = "#answer"
Anchored(p) == [p EXCEPT !.anchored = TRUE]

\* window.onload.  An old WebView may not know the size of its window yet.
OnLoad ==
    /\ InPage /\ ~page.loaded
    /\ \E sized \in BOOLEAN :
          page' = Anchored(resizeImages([page EXCEPT !.loaded = TRUE], sized))
    /\ UNCHANGED <<screenVars, clickVars, taskVars, signals, endVars>>

\* A slip for TLC: the page is not anchored again.
ResizedOnly(p, sized) == IF p.resizeDone THEN p ELSE resizeImages(p, sized)

\* What onPageFinished does before it runs the hooks.
ResizedAtLast(p, sized) == IF p.resizeDone THEN p ELSE Anchored(resizeImages(p, sized))

\* A slip for TLC: onPageFinished returns when the images are resized already.
OnPageFinishedUnlessResized ==
    /\ InPage /\ Len(page.chains) < MaxFinished /\ ~page.resizeDone
    /\ \E sized \in BOOLEAN :
          page' = [ResizedAtLast(page, sized) EXCEPT !.chains = Append(@, "updating")]
    /\ UNCHANGED <<screenVars, clickVars, taskVars, signals, endVars>>

\* onPageFinished, called by the screen's onPageFinished for the address of
\* the card viewer.  The update hooks start, and the shown hooks with them.
OnPageFinished ==
    /\ InPage /\ Len(page.chains) < MaxFinished
    /\ \E sized \in BOOLEAN :
          page' = [ResizedAtLast(page, sized) EXCEPT !.chains = Append(@, "updating")]
    /\ UNCHANGED <<screenVars, clickVars, taskVars, signals, endVars>>

\* The update hooks of call i have settled: the card is typeset if its class
\* still asks for it.
HooksSettled(i) ==
    /\ page.chains[i] = "updating"
    /\ page' = [page EXCEPT !.chains[i] = IF page.math THEN "typesetting" ELSE "ended"]

Typeset(i) ==
    /\ page.chains[i] = "typesetting"
    /\ page' = [page EXCEPT !.chains[i] = "ended", !.math = FALSE]

\* A hook or MathJax rejects: the rest of the chain is skipped, which can be
\* told from its end only if the card was to be typeset.
ChainFails(i) ==
    /\ page.chains[i] \in {"updating", "typesetting"}
    /\ page' = [page EXCEPT !.chains[i] = IF page.math THEN "failed" ELSE "ended"]

ChainGoesOn(i) ==
    /\ open
    /\ HooksSettled(i) \/ Typeset(i) \/ ChainFails(i)
    /\ UNCHANGED <<screenVars, clickVars, taskVars, signals, endVars>>

\* window.location.href = "signal:..."; the text sent along is left out.
Navigate(kind) ==
    /\ Len(signals) < MaxSignals
    /\ signals' = Append(signals, kind)

InScript ==
    /\ InPage
    /\ UNCHANGED <<screenVars, clickVars, taskVars, endVars>>

taFocus ==
    /\ page.input /\ ~page.focused
    /\ page' = [page EXCEPT !.focused = TRUE]
    /\ Navigate("typefocus")
    /\ InScript

taBlur ==
    /\ page.focused
    /\ page' = [page EXCEPT !.focused = FALSE]
    /\ Navigate("typeblurtext")
    /\ InScript

\* taKey, for the return key.
taKey ==
    /\ page.focused
    /\ Navigate("typeentertext")
    /\ UNCHANGED page
    /\ InScript

\* showAnswer, buttonAnswerEase1 to 4 and reloadPage, whenever a template
\* calls them.  The signals that change nothing here are left out.
CalledByTemplate ==
    /\ \E kind \in {"show_answer", "answer_ease", "reload_card_html"} : Navigate(kind)
    /\ UNCHANGED page
    /\ InScript

-----------------------------------------------------------------------------
(* filterUrl, for the next signal.                                         *)

Received(kind) ==
    /\ open
    /\ signals # <<>>
    /\ Head(signals) = kind
    /\ signals' = Tail(signals)
    /\ UNCHANGED <<page, endVars>>

TypeFocusReceived ==
    /\ Received("typefocus")
    /\ screen' = [screen EXCEPT !.flip = FALSE]
    /\ UNCHANGED <<content, load, clickVars, taskVars>>

TypeBlurReceived ==
    /\ Received("typeblurtext")
    /\ screen' = [screen EXCEPT !.flip = TRUE]
    /\ UNCHANGED <<content, load, clickVars, taskVars>>

\* mFlipCardLayout.performClick, which runs even on a hidden button.
TypeEnterReceived ==
    /\ Received("typeentertext")
    /\ ClickFlip
    /\ UNCHANGED <<clicks, taskVars>>

ShowAnswerReceived ==
    /\ Received("show_answer")
    /\ \/ screen.sDisplayAnswer /\ UNCHANGED screenVars
       \/ ~screen.sDisplayAnswer /\ displayCardAnswer
    /\ UNCHANGED <<clickVars, taskVars>>

AnswerEaseReceived ==
    /\ Received("answer_ease")
    /\ flipOrAnswerCard
    /\ UNCHANGED <<recent, taskVars>>

ReloadReceived ==
    /\ Received("reload_card_html")
    /\ Redrawn
    /\ UNCHANGED <<clickVars, taskVars>>

Signalled ==
    \/ TypeFocusReceived \/ TypeBlurReceived \/ TypeEnterReceived
    \/ ShowAnswerReceived \/ AnswerEaseReceived \/ ReloadReceived

-----------------------------------------------------------------------------

ByHand ==
    \/ TapFlip \/ KeyShowsAnswer \/ TapEase \/ KeyFlipsOrAnswers
    \/ Dismiss \/ Undo \/ performReload \/ Reschedule \/ Redraw
OnTheScreen ==
    \/ PostedClick \/ TimePasses \/ TaskDone \/ DisplayNext \/ NoMoreCards
InTheWebView ==
    \/ Commit \/ RendererGone \/ OnLoad \/ OnPageFinished
    \/ \E i \in 1 .. Len(page.chains) : ChainGoesOn(i)
    \/ taFocus \/ taBlur \/ taKey \/ CalledByTemplate

Next == ByHand \/ OnTheScreen \/ InTheWebView \/ Signalled

\* The collection tasks run to their end (BackgroundTasks) and the main thread
\* runs what is posted to it; the WebView commits what it is given, says when
\* a page has finished, and the promises of the page settle.  Nobody has to
\* touch the screen.
Fairness ==
    /\ WF_vars(TaskDone)
    /\ WF_vars(DisplayNext \/ NoMoreCards)
    /\ WF_vars(Commit)
    /\ WF_vars(page.chains = <<>> /\ OnPageFinished)
    /\ \A i \in 1 .. MaxFinished :
          WF_vars(i <= Len(page.chains) /\ ChainGoesOn(i))

Spec == Init /\ [][Next]_vars /\ Fairness

-----------------------------------------------------------------------------

\* What the learner looks at, or will as soon as it is committed, is the side
\* of the card the buttons act on: also after a renderer crash, a redraw, and
\* a load that overtakes another.  (loadContentIntoCard, onRenderProcessGone)
PageMatchesScreen ==
    screen.mCurrentCard # 0 /\ open =>
        (IF load = NoSide THEN page.side ELSE load)
            = Side(screen.mCurrentCard, screen.sDisplayAnswer)

\* A card is handed to AnswerAndGetCard at most once each time it is shown,
\* however the taps, keys, posted clicks and signals that answer it meet, and
\* whatever other tasks of the screen are under way and give the controls
\* back.  (answerCard, blockControls, unblockControls, displayNext)
AnsweredOnce == handed <= 1

\* The page stands at the answer after the last resize of its images, and in
\* any case once onPageFinished has run, whichever of it and window.onload
\* came first and whether or not the window had a size at either.
\* (resizeImages, onload and onPageFinished in card.js)
AnchoredAfterResize == page.resizeDone \/ page.chains # <<>> => page.anchored

\* A card with formulas, hidden by its class until they are typeset, comes to
\* light, unless another page is loaded over it, the renderer goes, or a hook
\* or MathJax fails.  (onPageFinished in card.js)
HiddenCardIsRevealed ==
    (page # NoPage /\ page.math) ~>
        \/ ~page.math \/ load # NoSide \/ ~open
        \/ \E i \in 1 .. Len(page.chains) : page.chains[i] = "failed"

\* An answer is followed by the page of a later card, or by the end of the
\* review, although any page may be redrawn, overtaken or lost on the way.
NextCardIsShown ==
    \A c \in Cards : (handed > 0 /\ screen.mCurrentCard = c) ~> (page.side.card > c \/ ~open)

=============================================================================
