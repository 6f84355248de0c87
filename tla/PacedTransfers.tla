--------------------------- MODULE PacedTransfers ---------------------------
(***************************************************************************)
(* What a user of the terminal UI (tui.py) sends to one world: single      *)
(* lines, pastes of several lines and images, which go out line by line    *)
(* with a pause between them.  The Gateway and the world come along as far *)
(* as they accept, refuse, queue and write the lines; the UI learns of the *)
(* state of the world later, and can lose its connection to the Gateway.   *)
(***************************************************************************)
EXTENDS Naturals, Sequences

CONSTANTS
    TransferLines,     \* lines of a transfer
    MaxTransfers,      \* bound: transfers
    MaxTyped,          \* bound: lines typed
    MaxWorldChanges,   \* bound: times the world goes up or down
    MaxGatewayLosses   \* bound: times the UI loses the Gateway

ASSUME TransfersAssumption ==
    /\ TransferLines \in Nat \ {0} /\ MaxTransfers \in Nat /\ MaxTyped \in Nat
    /\ MaxWorldChanges \in Nat /\ MaxGatewayLosses \in Nat

VARIABLES
    world,       \* the session: whether it is connected, and its generation
    news,        \* connection events that the UI has not read
    shown,       \* state and generation of the RemoteWorldSession
    requests,    \* commands on their way to the Gateway
    sessionQueue,\* commands that the session accepted
    sent,        \* ghost: what was written to the world
    answer,      \* of the Gateway, to the line of the transfer
    slot,        \* the world is in _active_multiline_pastes
    paced,       \* the task of _submit_paced_commands
    preview,     \* image_preview and _image_operation_active
    counts       \* transfers, lines typed, changes and losses so far

transferVars == <<world, news, shown, requests, sessionQueue, sent, answer, slot, paced, preview,
                  counts>>
gatewayVars == <<world, news, sessionQueue, sent>>
previewVars == <<preview, shown>>

NoTask == [step |-> "none", transfer |-> 0, line |-> 0, generation |-> 0]
NoPreview == [phase |-> "none", transfer |-> 0, generation |-> 0, error |-> FALSE,
              rendering |-> FALSE]

\* A line that is typed has no expected generation, which is 0 here.
Line(t, i, g) == [transfer |-> t, line |-> i, expected |-> g]

TransfersInit ==
    /\ world = [online |-> TRUE, generation |-> 1] /\ news = <<>> /\ shown = world
    /\ requests = <<>> /\ sessionQueue = <<>> /\ sent = <<>> /\ answer = "none"
    /\ slot = FALSE /\ paced = NoTask /\ preview = NoPreview
    /\ counts = [transfers |-> 0, typed |-> 0, changes |-> 0, losses |-> 0]

-----------------------------------------------------------------------------
(* The world and the Gateway *)

WorldChanges ==
    /\ counts.changes < MaxWorldChanges /\ counts' = [counts EXCEPT !.changes = @ + 1]
    /\ world' = IF world.online THEN [world EXCEPT !.online = FALSE]
                ELSE [online |-> TRUE, generation |-> world.generation + 1]
    /\ news' = Append(news, world')
    /\ UNCHANGED <<shown, requests, sessionQueue, sent, answer, slot, paced, preview>>

\* RuntimeGateway: a command of another generation is refused, as it may be for its text.
HandleCommand ==
    /\ requests # <<>> /\ requests' = Tail(requests)
    /\ LET r == Head(requests)
           expected == r.expected \in {0, world.generation}
       IN \E accepted \in {expected, FALSE} :
             /\ sessionQueue' = IF accepted THEN Append(sessionQueue, r) ELSE sessionQueue
             /\ answer' = IF r.transfer = 0 THEN answer
                          ELSE IF accepted THEN "ok" ELSE "refused"
    /\ UNCHANGED <<world, news, shown, sent, slot, paced, preview, counts>>

\* WorldSession._write_loop: what was meant for another connection is dropped.
WriteLine ==
    /\ world.online /\ sessionQueue # <<>> /\ sessionQueue' = Tail(sessionQueue)
    /\ LET r == Head(sessionQueue) IN
       sent' = IF r.expected \in {0, world.generation}
               THEN Append(sent, [transfer |-> r.transfer, line |-> r.line,
                                  generation |-> world.generation])
               ELSE sent
    /\ UNCHANGED <<world, news, shown, requests, answer, slot, paced, preview, counts>>

ReadNews ==
    /\ news # <<>> /\ news' = Tail(news) /\ shown' = Head(news)
    /\ UNCHANGED <<world, requests, sessionQueue, sent, answer, slot, paced, preview, counts>>

\* The UI connects again and takes over the state of the world; the line that waited for its
\* answer fails, one that sleeps does not notice.
LoseGateway ==
    /\ counts.losses < MaxGatewayLosses /\ counts' = [counts EXCEPT !.losses = @ + 1]
    /\ requests' = <<>> /\ answer' = "none" /\ news' = <<>> /\ shown' = world
    /\ IF paced.step = "waiting" THEN paced' = NoTask /\ slot' = FALSE
       ELSE UNCHANGED <<paced, slot>>
    /\ UNCHANGED <<world, sessionQueue, sent, preview>>

-----------------------------------------------------------------------------
(* submit_text, submit_multiline_paste and _submit_paced_commands *)

TypeLine ==
    /\ ~slot /\ counts.typed < MaxTyped /\ counts' = [counts EXCEPT !.typed = @ + 1]
    /\ requests' = Append(requests, Line(0, 0, 0))
    /\ UNCHANGED <<gatewayVars, previewVars, answer, slot, paced>>

SendLine(task, i, g) ==
    /\ requests' = Append(requests, Line(task.transfer, i, g)) /\ answer' = "none"
    /\ paced' = [task EXCEPT !.step = "waiting", !.line = i]
    /\ slot' = TRUE

StopTransfer ==
    /\ paced' = NoTask /\ slot' = FALSE
    /\ UNCHANGED <<requests, answer>>

Paste ==
    /\ counts.transfers < MaxTransfers /\ counts' = [counts EXCEPT !.transfers = @ + 1]
    /\ shown.online /\ ~slot
    /\ SendLine([step |-> "starting", transfer |-> counts.transfers + 1, line |-> 0,
                 generation |-> shown.generation], 1, shown.generation)
    /\ UNCHANGED <<gatewayVars, previewVars>>

\* The task of an image that was confirmed starts: the world may have changed since.
StartImage ==
    /\ paced.step = "starting"
    /\ IF shown.online /\ shown.generation = paced.generation
       THEN SendLine(paced, 1, paced.generation) ELSE StopTransfer
    /\ UNCHANGED <<gatewayVars, previewVars, counts>>

\* After the last line, or one that was refused, the transfer is over.
TakeLineAnswer ==
    /\ paced.step = "waiting" /\ answer # "none"
    /\ IF answer = "ok" /\ paced.line < TransferLines
       THEN paced' = [paced EXCEPT !.step = "sleeping"] /\ UNCHANGED slot
       ELSE paced' = NoTask /\ slot' = FALSE
    /\ answer' = "none"
    /\ UNCHANGED <<gatewayVars, previewVars, requests, counts>>

\* Seeded fault: the generation is read anew for every line.
LineDueFollowing ==
    /\ paced.step = "sleeping"
    /\ IF shown.online
       THEN SendLine(paced, paced.line + 1, shown.generation) ELSE StopTransfer
    /\ UNCHANGED <<gatewayVars, previewVars, counts>>

LineDue ==
    /\ paced.step = "sleeping"
    /\ IF shown.online /\ shown.generation = paced.generation
       THEN SendLine(paced, paced.line + 1, paced.generation) ELSE StopTransfer
    /\ UNCHANGED <<gatewayVars, previewVars, counts>>

-----------------------------------------------------------------------------
(* The preview of an image *)

SetPreview(p) == preview' = p /\ UNCHANGED <<gatewayVars, shown, requests, answer>>

OpenImage ==
    /\ preview.phase = "none" /\ counts.transfers < MaxTransfers
    /\ counts' = [counts EXCEPT !.transfers = @ + 1]
    /\ SetPreview([NoPreview EXCEPT !.phase = "reading", !.transfer = counts.transfers + 1,
                              !.generation = shown.generation])
    /\ UNCHANGED <<slot, paced>>

\* Read and rendered, unless it cannot be or the world has changed.
ImageRead ==
    /\ preview.phase = "reading"
    /\ \/ SetPreview(NoPreview)
       \/ /\ shown.generation = preview.generation
          /\ SetPreview([preview EXCEPT !.phase = "shown"])
    /\ UNCHANGED <<slot, paced, counts>>

\* Another width or glyphs; the new lines come with a clean preview, or say what is wrong.
Rerender ==
    /\ preview.phase = "shown" /\ ~preview.rendering
    /\ SetPreview([preview EXCEPT !.rendering = TRUE])
    /\ UNCHANGED <<slot, paced, counts>>
Rerendered ==
    /\ preview.rendering
    /\ \E error \in BOOLEAN : SetPreview([preview EXCEPT !.rendering = FALSE, !.error = error])
    /\ UNCHANGED <<slot, paced, counts>>

CancelImage ==
    /\ preview.phase = "shown" /\ SetPreview(NoPreview)
    /\ UNCHANGED <<slot, paced, counts>>

\* The world of the preview is reserved before the task starts.
ConfirmImage ==
    /\ preview.phase = "shown" /\ ~preview.error /\ ~preview.rendering
    /\ IF ~shown.online \/ shown.generation # preview.generation \/ slot
       THEN SetPreview([preview EXCEPT !.error = TRUE]) /\ UNCHANGED <<slot, paced>>
       ELSE /\ SetPreview(NoPreview) /\ slot' = TRUE
            /\ paced' = [step |-> "starting", transfer |-> preview.transfer, line |-> 0,
                         generation |-> preview.generation]
    /\ UNCHANGED counts

TransfersNext ==
    \/ WorldChanges \/ HandleCommand \/ WriteLine \/ ReadNews \/ LoseGateway
    \/ TypeLine \/ Paste \/ StartImage \/ TakeLineAnswer \/ LineDue
    \/ OpenImage \/ ImageRead \/ Rerender \/ Rerendered \/ CancelImage \/ ConfirmImage

TransfersSpec == TransfersInit /\ [][TransfersNext]_transferVars

-----------------------------------------------------------------------------
(* Properties *)

\* What a world gets of a transfer is its first lines, in order, all in one connection, with
\* nothing between them that the user typed, however the world reconnects and the UI loses
\* the Gateway meanwhile; and the world is never left reserved without a transfer, which
\* would refuse all input (tui.py _submit_paced_commands, submit_text).
TransferIsWhole ==
    /\ slot <=> paced # NoTask
    /\ \A k \in DOMAIN sent : sent[k].transfer # 0 =>
         /\ sent[k].line > 1 => k > 1 /\ sent[k - 1] = [sent[k] EXCEPT !.line = @ - 1]
         /\ sent[k].line = 1 => \A j \in 1..(k - 1) : sent[j].transfer # sent[k].transfer
=============================================================================
