----------------------------- MODULE LlmStream ------------------------------
(***************************************************************************)
(* A streamed completion (wd-llm, stream.rs): the lines of an OpenAI or    *)
(* an Anthropic stream are parsed into chunks, one at a time, and          *)
(* accumulated.                                                            *)
(*                                                                         *)
(* Abstracted: a piece of text or of a tool's arguments is the number of   *)
(* the line that brought it; a line is the fields the parser looks at.     *)
(* The server is external: it sends text and tool calls, then why it       *)
(* stops, then possibly the usage, then the end mark.                      *)
(***************************************************************************)
EXTENDS Naturals, Sequences, Sift

CONSTANTS
  StreamCall,     \* tool calls of one completion
  MaxLines  \* bound: lines before the server stops

ASSUME StreamAssumption == MaxLines \in Nat /\ "" \notin StreamCall

StopReason == {"stop", "tool_use", "length"}
Absent == ""
NoChunk == [type |-> "none"]

VARIABLES
  format,   \* whose stream it is, and whether every delta repeats the call's id
  phase,    \* of the server: body, stopped, closed
  line,     \* lines sent
  text,     \* TextAccumulator
  toolCalls,
  usage,
  finish,
  sent,     \* history: the pieces sent, with the id each was sent under
  reported  \* history: the reason the server gave

streamVars == <<format, phase, line, text, toolCalls, usage, finish, sent, reported>>

TextDelta(n) == [type |-> "delta", piece |-> n]
ToolDelta(id, name, n) == [type |-> "tool", id |-> id, name |-> name, piece |-> n]
UsageChunk == [type |-> "usage"]
DoneChunk(reason) == [type |-> "done", reason |-> reason]

(***************************************************************************)
(* The lines of a server.  A missing field is Absent, {} or 0.             *)
(***************************************************************************)
OpenAi(tools, content, stop, hasUsage) ==
  [mark |-> FALSE, choice |-> TRUE, tools |-> tools, content |-> content, stop |-> stop,
   usage |-> hasUsage]
OpenAiEnd == [OpenAi(<<>>, 0, Absent, FALSE) EXCEPT !.mark = TRUE]
OpenAiUsage == [OpenAi(<<>>, 0, Absent, TRUE) EXCEPT !.choice = FALSE]

\* parse_openai_sse_line: the first field that is there decides, and of several
\* tool deltas the first.
ParseOpenAi(l) ==
  IF l.mark THEN DoneChunk("stop")
  ELSE IF ~ l.choice THEN NoChunk
  ELSE IF l.tools # <<>> THEN l.tools[1]
  ELSE IF l.content # 0 THEN TextDelta(l.content)
  ELSE IF l.stop # Absent THEN DoneChunk(l.stop)
  ELSE IF l.usage THEN UsageChunk ELSE NoChunk

\* parse_anthropic_sse_line.
ParseAnthropic(event) ==
  CASE event.type = "text_delta" -> TextDelta(event.piece)
    [] event.type = "input_json_delta" -> ToolDelta(event.index, Absent, event.piece)
    [] event.type = "tool_use" -> ToolDelta(event.id, event.id, 0)
    [] event.type = "message_delta" -> DoneChunk(event.reason)
    [] event.type = "message_stop" -> DoneChunk("stop")
    [] event.type = "ping" -> NoChunk

(***************************************************************************)
(* TextAccumulator::push and ToolCallAccumulator::apply_delta.             *)
(***************************************************************************)
Fresh(id) == [id |-> id, name |-> Absent, args |-> <<>>]

ApplyDelta(acc, c) ==
  [acc EXCEPT !.name = IF @ = Absent THEN c.name ELSE @,
              !.args = IF c.piece = 0 THEN @ ELSE Append(@, c.piece)]

WithId(id) == {i \in DOMAIN toolCalls : toolCalls[i].id = id}

\* A delta without a name goes to the last accumulator.
PushToolToLast(c) ==
  IF toolCalls = <<>> \/ c.name # Absent THEN Append(toolCalls, ApplyDelta(Fresh(c.id), c))
  ELSE [toolCalls EXCEPT ![Len(toolCalls)] = ApplyDelta(@, c)]

PushTool(c) ==
  IF WithId(c.id) = {} THEN Append(toolCalls, ApplyDelta(Fresh(c.id), c))
  ELSE LET first == CHOOSE i \in WithId(c.id) : \A j \in WithId(c.id) : i <= j
       IN [toolCalls EXCEPT ![first] = ApplyDelta(@, c)]

PushChunk(c) ==
  /\ text' = IF c.type = "delta" THEN Append(text, c.piece) ELSE text
  /\ toolCalls' = IF c.type = "tool" THEN PushTool(c) ELSE toolCalls
  /\ usage' = (usage \/ c.type = "usage")
  /\ finish' = IF c.type = "done" THEN c.reason ELSE finish

StreamInit ==
  /\ format = Absent
  /\ phase = "body"
  /\ line = 0
  /\ text = <<>>
  /\ toolCalls = <<>>
  /\ usage = FALSE
  /\ finish = Absent
  /\ sent = <<>>
  /\ reported = Absent

\* The host opens a stream; a compatible server may repeat ids, OpenAI itself
\* sends the id of a call with its first delta only.
OpenStream ==
  /\ format = Absent
  /\ format' \in {"openai", "repeating", "anthropic"}
  /\ UNCHANGED <<phase, line, text, toolCalls, usage, finish, sent, reported>>

Sending(chunk) ==
  /\ format # Absent
  /\ line' = line + 1
  /\ PushChunk(chunk)
  /\ UNCHANGED format

Started(c) == \E i \in DOMAIN sent : sent[i].call = c

SendText ==
  /\ phase = "body" /\ line < MaxLines
  /\ Sending(IF format = "anthropic"
             THEN ParseAnthropic([type |-> "text_delta", piece |-> line + 1])
             ELSE ParseOpenAi(OpenAi(<<>>, line + 1, Absent, FALSE)))
  /\ sent' = Append(sent, [call |-> Absent, id |-> Absent, piece |-> line + 1])
  /\ UNCHANGED <<phase, reported>>

\* The id under which a later piece of call c travels.
LaterId(c) ==
  CASE format = "openai" -> Absent [] format = "repeating" -> c [] format = "anthropic" -> "index"

StartCall(c) ==
  /\ phase = "body" /\ line < MaxLines
  /\ ~ Started(c)
  /\ Sending(IF format = "anthropic" THEN ParseAnthropic([type |-> "tool_use", id |-> c])
             ELSE ParseOpenAi(OpenAi(<<ToolDelta(c, c, 0)>>, 0, Absent, FALSE)))
  /\ sent' = Append(sent, [call |-> c, id |-> c, piece |-> 0])
  /\ UNCHANGED <<phase, reported>>

ContinueCall(c) ==
  /\ phase = "body" /\ line < MaxLines
  /\ Started(c)
  /\ Sending(IF format = "anthropic"
             THEN ParseAnthropic([type |-> "input_json_delta", index |-> "index",
                                  piece |-> line + 1])
             ELSE ParseOpenAi(OpenAi(<<ToolDelta(LaterId(c), Absent, line + 1)>>, 0, Absent, FALSE)))
  /\ sent' = Append(sent, [call |-> c, id |-> LaterId(c), piece |-> line + 1])
  /\ UNCHANGED <<phase, reported>>

KeepAlive ==
  /\ phase = "body" /\ line < MaxLines
  /\ Sending(NoChunk)
  /\ UNCHANGED <<phase, sent, reported>>

SendReason(r) ==
  /\ phase = "body"
  /\ phase' = "stopped"
  /\ Sending(IF format = "anthropic" THEN ParseAnthropic([type |-> "message_delta", reason |-> r])
             ELSE ParseOpenAi(OpenAi(<<>>, 0, r, FALSE)))
  /\ reported' = r
  /\ UNCHANGED sent

\* OpenAI reports the usage in a line whose list of choices is empty.
SendUsage ==
  /\ phase = "stopped" /\ format # "anthropic"
  /\ phase' = "counted"
  /\ Sending(ParseOpenAi(OpenAiUsage))
  /\ UNCHANGED <<sent, reported>>

SendEnd ==
  /\ phase \in {"stopped", "counted"}
  /\ phase' = "closed"
  /\ Sending(IF format = "anthropic" THEN ParseAnthropic([type |-> "message_stop"])
             ELSE ParseOpenAi(OpenAiEnd))
  /\ UNCHANGED <<sent, reported>>

StreamNext ==
  \/ OpenStream
  \/ SendText
  \/ \E c \in StreamCall : StartCall(c) \/ ContinueCall(c)
  \/ KeepAlive
  \/ \E r \in StopReason : SendReason(r)
  \/ SendUsage
  \/ SendEnd

StreamSpec == StreamInit /\ [][StreamNext]_streamVars

(***************************************************************************)
(* Properties.                                                             *)
(***************************************************************************)
PiecesOf(s) == [i \in DOMAIN s |-> s[i].piece]
TextPlaces == {i \in DOMAIN sent : sent[i].call = Absent}
TextSent == PiecesOf(Sift(sent, TextPlaces))
ArgsPlaces(id) == {i \in DOMAIN sent : sent[i].call # Absent /\ sent[i].id = id /\ sent[i].piece # 0}
ArgsSent(id) == PiecesOf(Sift(sent, ArgsPlaces(id)))

\* However text and the deltas of several calls are interleaved, the text is
\* what was sent, an id has one accumulator, and that holds the pieces sent
\* under the id, in order (stream.rs 73-102).  When the server repeats ids, the
\* accumulator of a call has its name too.
PiecesInPlace ==
  /\ text = TextSent
  /\ \A i \in DOMAIN sent :
       sent[i].call # Absent => \E k \in DOMAIN toolCalls : toolCalls[k].id = sent[i].id
  /\ \A k \in DOMAIN toolCalls :
       /\ WithId(toolCalls[k].id) = {k}
       /\ toolCalls[k].args = ArgsSent(toolCalls[k].id)
       /\ format = "repeating" => toolCalls[k].name = toolCalls[k].id

=============================================================================
