----------------------------- MODULE TelnetText -----------------------------
(***************************************************************************)
(* What a world sends becomes lines: TelnetCodec (telnet.py) takes the     *)
(* control traffic out of the bytes, TextFramer (sessions.py) cuts the     *)
(* text at its line ends.  Chunks are cut anywhere; bytes are "text",      *)
(* "cr", "lf", the 255 that the world doubles ("iac") and the few control  *)
(* bytes that matter; decoding keeps them apart and is left out.           *)
(***************************************************************************)
EXTENDS Naturals, Sequences, SequencesExt

CONSTANTS
    FrameLimit,   \* maximum_frame_characters
    Supported,    \* options that are taken up when asked for
    Unsupported,
    MaxItems      \* bound: items the world sends

ASSUME TelnetAssumption == FrameLimit \in Nat \ {0} /\ MaxItems \in Nat

VARIABLES
    wire,        \* bytes on their way, each with the text it stands for
    codec,       \* the state of the codec: state, command, and the options taken up
    pendingText, \* TextFramer._pending
    frames,      \* ghost: the frames published so far
    flushed,     \* ghost: a prompt has been flushed
    meant,       \* ghost: the text that the bytes read so far stand for
    replies,     \* the replies written to the world
    items        \* items sent, bounded

telnetVars == <<wire, codec, pendingText, frames, flushed, meant, replies, items>>

Byte(b, text) == [byte |-> b, text |-> text]
ControlBytes(s) == [i \in DOMAIN s |-> Byte(s[i], <<>>)]

\* What a world may send: characters, the doubled 255, a request for an option, a command
\* and a subnegotiation with a doubled 255 in it.
WorldItems ==
    {<<Byte(c, <<c>>)>> : c \in {"text", "cr", "lf"}}
      \cup {<<Byte("iac", <<>>), Byte("iac", <<"iac">>)>>,
            ControlBytes(<<"iac", "nop">>),
            ControlBytes(<<"iac", "sb", "text", "iac", "iac", "text", "iac", "se">>)}
      \cup {ControlBytes(<<"iac", "do", o>>) : o \in Supported \cup Unsupported}

TelnetInit ==
    /\ wire = <<>> /\ codec = [state |-> "data", taken |-> {}]
    /\ pendingText = <<>> /\ frames = <<>> /\ flushed = FALSE
    /\ meant = <<>> /\ replies = <<>> /\ items = 0

WorldSends(item) ==
    /\ items < MaxItems /\ items' = items + 1
    /\ wire' = wire \o item
    /\ UNCHANGED <<codec, pendingText, frames, flushed, meant, replies>>

-----------------------------------------------------------------------------
(* TelnetCodec.feed: the codec with the text and the replies of a chunk *)

\* An option that is taken up is confirmed once, an unsupported one refused every time.
Negotiated(c, o) ==
    LET answer == IF o \notin Supported THEN <<"wont">>
                  ELSE IF o \in c.taken THEN <<>> ELSE <<"will">>
    IN [c EXCEPT !.state = "data",
                 !.taken = IF o \in Supported THEN @ \cup {o} ELSE @,
                 !.replies = @ \o answer]

ReadByte(c, b) ==
    CASE c.state = "data" -> IF b = "iac" THEN [c EXCEPT !.state = "iac"]
                             ELSE [c EXCEPT !.text = Append(@, b)]
      [] c.state = "iac" /\ b = "iac" -> [c EXCEPT !.state = "data", !.text = Append(@, b)]
      [] c.state = "iac" /\ b = "do" -> [c EXCEPT !.state = "negotiation"]
      [] c.state = "iac" /\ b = "sb" -> [c EXCEPT !.state = "option"]
      [] c.state = "iac" /\ b \notin {"iac", "do", "sb"} -> [c EXCEPT !.state = "data"]
      [] c.state = "negotiation" -> Negotiated(c, b)
      [] c.state = "option" -> [c EXCEPT !.state = "sub"]
      [] c.state = "sub" -> IF b = "iac" THEN [c EXCEPT !.state = "sub iac"] ELSE c
      [] OTHER -> [c EXCEPT !.state = IF b = "se" THEN "data" ELSE "sub"]

FeedCodec(chunk) ==
    LET read[i \in 0..Len(chunk)] ==
            IF i = 0
            THEN [state |-> codec.state, taken |-> codec.taken, text |-> <<>>, replies |-> <<>>]
            ELSE ReadByte(read[i - 1], chunk[i].byte)
    IN read[Len(chunk)]

-----------------------------------------------------------------------------
(* TextFramer.feed: from `start` on nothing is cut yet *)

\* Seeded fault: a CR at the end of what has come is a line end at once.
CutAtEager(text, f, i) ==
    IF i < f.start THEN f
    ELSE LET g == IF i - f.start >= FrameLimit
                  THEN [start |-> i, out |-> Append(f.out, SubSeq(text, f.start, i - 1))] ELSE f
             end == IF text[i] = "cr" /\ i < Len(text) /\ text[i + 1] = "lf" THEN i + 1 ELSE i
         IN IF text[i] \in {"cr", "lf"}
            THEN [start |-> end + 1, out |-> Append(g.out, SubSeq(text, g.start, end))] ELSE g

\* Character i: a frame that is full is cut before it, a line end closes its frame, and a CR
\* takes the LF that follows; a CR that comes last waits for what follows it.
CutAt(text, f, i) ==
    IF i < f.start THEN f
    ELSE LET g == IF i - f.start >= FrameLimit
                  THEN [start |-> i, out |-> Append(f.out, SubSeq(text, f.start, i - 1))] ELSE f
             end == IF text[i] = "cr" /\ i < Len(text) /\ text[i + 1] = "lf" THEN i + 1 ELSE i
         IN IF text[i] = "lf" \/ (text[i] = "cr" /\ i < Len(text))
            THEN [start |-> end + 1, out |-> Append(g.out, SubSeq(text, g.start, end))] ELSE g

FeedFramer(text) ==
    LET cut[i \in 0..Len(text)] ==
            IF i = 0 THEN [start |-> 1, out |-> <<>>] ELSE CutAt(text, cut[i - 1], i)
        f == cut[Len(text)]
    IN [out |-> f.out, rest |-> SubSeq(text, f.start, Len(text))]

-----------------------------------------------------------------------------
(* WorldSession._read_loop *)

\* The first k bytes on the wire are read at once.
ReadChunk(k) ==
    LET chunk == SubSeq(wire, 1, k)
        c == FeedCodec(chunk)
        f == FeedFramer(pendingText \o c.text)
    IN /\ k \in 1..Len(wire)
       /\ wire' = SubSeq(wire, k + 1, Len(wire))
       /\ codec' = [state |-> c.state, taken |-> c.taken]
       /\ replies' = replies \o c.replies
       /\ frames' = frames \o f.out /\ pendingText' = f.rest
       /\ meant' = meant \o FlattenSeq([i \in 1..k |-> chunk[i].text])
       /\ UNCHANGED <<flushed, items>>

\* Nothing came for a while: a prompt is shown as it is.
FlushPrompt ==
    /\ pendingText # <<>>
    /\ frames' = Append(frames, pendingText) /\ pendingText' = <<>> /\ flushed' = TRUE
    /\ UNCHANGED <<wire, codec, meant, replies, items>>

TelnetNext ==
    \/ \E item \in WorldItems : WorldSends(item)
    \/ \E k \in 1..Len(wire) : ReadChunk(k)
    \/ FlushPrompt

TelnetSpec == TelnetInit /\ [][TelnetNext]_telnetVars

-----------------------------------------------------------------------------
(* Properties *)

\* The frames and what is pending are the text that the world meant: nothing of it is lost,
\* doubled or mixed with control bytes, wherever the chunks were cut and prompts flushed
\* (telnet.py feed, sessions.py TextFramer).
TextIsWhole == FlattenSeq(frames) \o pendingText = meant

\* Without a flush the lines do not depend on how the bytes arrived: they are those of the
\* whole text read at once (sessions.py TextFramer.feed).
ChunksDoNotMatter ==
    ~flushed => /\ frames = FeedFramer(meant).out
                /\ pendingText = FeedFramer(meant).rest

\* The text of a world is what it sent, however the network cut it.
LinesSound == TextIsWhole /\ ChunksDoNotMatter
=============================================================================
