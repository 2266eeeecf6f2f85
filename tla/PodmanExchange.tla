---------------------------- MODULE PodmanExchange ----------------------------
(***************************************************************************)
(* One call of a method of src/src/podman/PodmanApi.ts, event by event:    *)
(* the tar process buildImage waits for, the request and the response of   *)
(* HttpUnixSocketClient.ts, and what the method makes of the answer.  The  *)
(* socket is a file of the same machine: it breaks when podman goes away,  *)
(* which then does nothing more.                                           *)
(***************************************************************************)
EXTENDS Integers, SequencesExt

CONSTANTS
  Parts,    \* the chunks a body is split into
  Base,     \* the values of a byte, 256
  Frames,   \* the logs podman may have to give: sequences of frames
  Char,     \* the characters of a text
  Name,     \* the text that names a stream, '\n[stdout] ' or '\n[stderr] '
  Utf8(_)   \* the text Buffer.toString() makes of some bytes by themselves

Stream == {1, 2}

Byte == 0 .. Base - 1
Frame == [stream : Stream, text : Seq(Byte)]

\* A payload may be of any bytes, and of no more than half of what the four bytes
\* of a size can say: 2 GiB, where the shifts of getContainerLogs get a sign.
ASSUME ExchangeAssumption ==
  /\ Parts \in Nat /\ Base \in Nat /\ Base > 2 /\ Frames # {}
  /\ \A log \in Frames :
       /\ log \in Seq(Frame)
       /\ \A i \in DOMAIN log : 2 * Len(log[i].text) < Base * Base * Base * Base

\* However much there is of a payload, and whatever its bytes, it becomes a text.
ASSUME TextAssumption ==
  /\ Name \in [Stream -> Seq(Char)]
  /\ \A log \in Frames : \A i \in DOMAIN log :
       \A j \in 0 .. Len(log[i].text) : Utf8(SubSeq(log[i].text, 1, j)) \in Seq(Char)

VARIABLES
  method,    \* the method that was called
  frames,    \* what the container has written, for getContainerLogs
  tarFate,   \* what becomes of the tar process
  tarEvent,  \* its events that node has delivered
  podman,    \* whether podman has done what it was asked to
  answer,    \* the answer it gives
  received,  \* the chunks of it in `buffers`
  conn,      \* the connection
  pc,        \* what the call awaits, or how its promise was settled
  result     \* what it is fulfilled with, for getContainerLogs

vars == <<method, frames, tarFate, tarEvent, podman, answer, received, conn, pc, result>>

\* The methods whose answer is JSON of a certain form, and those among them that
\* podman answers with status 200 before it knows how they end.
Json == {"list", "delete", "create", "prune", "pull", "build"}
Streamed == {"pull", "build"}
Method == Json \cup {"start", "wait", "ping", "logs"}
Settled == {"fulfilled", "rejected"}

Checked == Json \cup {"logs"}    \* JSON, or the content type of a log
Answer == [status : {"none", "expected", "other"}, form : {"expected", "other"}, body : Seq(Nat)]
NoAnswer == [status |-> "none", form |-> "other", body |-> <<>>]

ExchangeTypeOK ==
  /\ method \in Method /\ frames \in Frames
  /\ tarFate \in {"succeeds", "fails", "missing"}
  /\ tarEvent \subseteq {"error", "exit", "end"}
  /\ podman \in {"idle", "done", "refused"}
  /\ answer \in Answer
  /\ received \in 0 .. Parts
  /\ conn \in {"none", "open", "broken"}
  /\ pc \in {"tar", "request", "response"} \cup Settled
  /\ result \in Seq(Char)

-----------------------------------------------------------------------------
(***************************************************************************)
(* The frames of a log: eight bytes of header, the first the stream, the   *)
(* last four the size of the payload; and the loop of getContainerLogs.    *)
(***************************************************************************)
SizeBytes(n) ==
  LET n1 == n \div Base
      n2 == n1 \div Base
      n3 == n2 \div Base
  IN  <<n3 % Base, n2 % Base, n1 % Base, n % Base>>
Encoded(f) == <<f.stream, 0, 0, 0>> \o SizeBytes(Len(f.text)) \o f.text
EncodedLog(log) == FlattenSeq([i \in DOMAIN log |-> Encoded(log[i])])

\* A header that is cut off has no byte there: undefined, which shifts to 0.
ByteAt(s, i) == IF i \in DOMAIN s THEN s[i] ELSE 0

\* A wrong FrameSize: only the last byte of the size is looked at.
LastByteOnly(s) == ByteAt(s, 8)
FrameSize(s) ==
  ((ByteAt(s, 5) * Base + ByteAt(s, 6)) * Base + ByteAt(s, 7)) * Base + ByteAt(s, 8)

\* Where the first frame of the bytes s ends, or what there is of it.
FrameEnd(s) == IF 8 + FrameSize(s) < Len(s) THEN 8 + FrameSize(s) ELSE Len(s)

\* The stream is named whenever it changes.
NoStream == -1
Named(stream, last) == IF stream # last THEN stream ELSE NoStream

\* What the loop adds to the text for one frame: a name, if it names the stream,
\* and the bytes of the payload.  A stream that there is not is an error.
Piece == [name : Int, bytes : Seq(Nat)]
UnknownStream == [name |-> -2, bytes |-> <<>>]

\* The pieces of the bytes that are left, if the frame before was of stream last.
Left == [bytes : Seq(Nat), last : Int]
Decode[left \in Left] ==
  LET s == left.bytes
  IN  IF s = <<>> THEN <<>>
      ELSE IF s[1] \notin Stream THEN <<UnknownStream>>
      ELSE <<[name |-> Named(s[1], left.last), bytes |-> SubSeq(s, 9, FrameEnd(s))]>>
             \o Decode[[bytes |-> SubSeq(s, FrameEnd(s) + 1, Len(s)), last |-> s[1]]]

\* The text of a piece: every payload is decoded by itself, so a character split
\* over two frames is not put together again.
Spoken(piece) == (IF piece.name \in Stream THEN Name[piece.name] ELSE <<>>) \o Utf8(piece.bytes)
Said(pieces) == FlattenSeq([i \in DOMAIN pieces |-> Spoken(pieces[i])])

-----------------------------------------------------------------------------
Init ==
  /\ method \in Method
  /\ frames \in Frames /\ (method # "logs" => frames = CHOOSE f \in Frames : TRUE)
  /\ tarFate \in IF method = "build" THEN {"succeeds", "fails", "missing"} ELSE {"succeeds"}
  /\ tarEvent = {} /\ podman = "idle" /\ answer = NoAnswer /\ received = 0 /\ result = <<>>
  /\ IF method = "build" THEN pc = "tar" /\ conn = "none" ELSE pc = "request" /\ conn = "open"

Go(state) == pc' = state

\* tarDirectory.  The promise is settled by the first event that does so: the
\* end of tar's output resolves it, and may come before or after its exit.
TarFails ==
  /\ pc = "tar" /\ tarFate = "missing" /\ tarEvent = {}
  /\ tarEvent' = {"error"} /\ Go("rejected")
  /\ UNCHANGED <<method, frames, tarFate, podman, answer, received, conn, result>>

TarExits ==
  /\ method = "build" /\ tarFate # "missing" /\ "exit" \notin tarEvent
  /\ tarEvent' = tarEvent \cup {"exit"}
  /\ Go(IF pc = "tar" /\ tarFate = "fails" THEN "rejected" ELSE pc)
  /\ UNCHANGED <<method, frames, tarFate, podman, answer, received, conn, result>>

TarEnds ==
  /\ method = "build" /\ tarFate # "missing" /\ "end" \notin tarEvent
  /\ tarEvent' = tarEvent \cup {"end"}
  /\ IF pc = "tar" THEN Go("request") /\ conn' = "open" ELSE UNCHANGED <<pc, conn>>
  /\ UNCHANGED <<method, frames, tarFate, podman, answer, received, result>>

\* Podman acts and answers.  The log may break off anywhere.
PodmanActs ==
  /\ pc = "request" /\ conn = "open" /\ podman = "idle"
  /\ \/ /\ podman' = "done"
        /\ \E form \in IF method \in Checked THEN {"expected", "other"} ELSE {"expected"},
              n \in 0 .. Len(EncodedLog(frames)) :
             answer' = [status |-> "expected", form |-> form,
                        body |-> IF method = "logs" THEN SubSeq(EncodedLog(frames), 1, n) ELSE <<>>]
     \/ /\ podman' = "refused"
        /\ \E status \in IF method \in Streamed THEN {"expected", "other"} ELSE {"other"} :
             answer' = [status |-> status, form |-> "other", body |-> <<>>]
  /\ UNCHANGED <<method, frames, tarFate, tarEvent, received, conn, pc, result>>

\* doGetRequest and its like resolve with the head of the response.
ResponseBegins ==
  /\ pc = "request" /\ conn = "open" /\ podman # "idle"
  /\ Go("response")
  /\ UNCHANGED <<method, frames, tarFate, tarEvent, podman, answer, received, conn, result>>

\* A wrong ResponseData: every chunk is kept twice.
ResponseDataTwice ==
  /\ pc = "response" /\ conn = "open" /\ received < Parts
  /\ received' = received + 2
  /\ UNCHANGED <<method, frames, tarFate, tarEvent, podman, answer, conn, pc, result>>

ResponseData ==
  /\ pc = "response" /\ conn = "open" /\ received < Parts
  /\ received' = received + 1
  /\ UNCHANGED <<method, frames, tarFate, tarEvent, podman, answer, conn, pc, result>>

\* A wrong Accepts: the form of the JSON is not looked at.
AcceptsStatus == answer.status = "expected"

\* Which answers a method takes: the status it expects, and JSON of the form it
\* expects.  JSON that is not whole does not parse.
Accepts ==
  /\ answer.status = "expected"
  /\ method \in Checked => answer.form = "expected"
  /\ method \in Json => received = Parts

\* What a method does with a response that has ended.
Conclude ==
  LET pieces == Decode[[bytes |-> answer.body, last |-> NoStream]]
      taken == Accepts /\ (method = "logs" => \A i \in DOMAIN pieces : pieces[i] # UnknownStream)
  IN  /\ result' = IF method = "logs" /\ taken THEN Said(pieces) ELSE result
      /\ Go(IF taken THEN "fulfilled" ELSE "rejected")

ResponseEnds ==
  /\ pc = "response" /\ conn = "open" /\ received = Parts
  /\ Conclude
  /\ UNCHANGED <<method, frames, tarFate, tarEvent, podman, answer, received, conn>>

\* A wrong ConnectionBreaks: nobody listens to the error of the response.
BreakUnheard ==
  /\ pc \in {"request", "response"} /\ conn = "open"
  /\ conn' = "broken"
  /\ Go(IF pc = "request" THEN "rejected" ELSE pc)
  /\ UNCHANGED <<method, frames, tarFate, tarEvent, podman, answer, received, result>>

\* 'error' of the request, or of the response.
ConnectionBreaks ==
  /\ pc \in {"request", "response"} /\ conn = "open"
  /\ conn' = "broken" /\ Go("rejected")
  /\ UNCHANGED <<method, frames, tarFate, tarEvent, podman, answer, received, result>>

\* Nothing more has to happen.
Over == (pc \in Settled \/ conn = "broken") /\ UNCHANGED vars

Next ==
  \/ TarFails \/ TarExits \/ TarEnds
  \/ PodmanActs \/ ResponseBegins \/ ResponseData \/ ResponseEnds \/ ConnectionBreaks
  \/ Over

Spec == Init /\ [][Next]_vars

\* Tar ends, and podman answers: the program sets no timeout on either.
Fairness ==
  /\ WF_vars(TarFails) /\ WF_vars(TarEnds)
  /\ WF_vars(PodmanActs) /\ WF_vars(ResponseBegins) /\ WF_vars(ResponseData) /\ WF_vars(ResponseEnds)

FairSpec == Spec /\ Fairness

-----------------------------------------------------------------------------
\* What has arrived of a log with its first n bytes: the frames that begin among
\* them, each with as much of its payload.
Offset(log, i) == Len(EncodedLog(SubSeq(log, 1, i - 1)))
Reach(n, f) == IF n <= 8 THEN 0 ELSE IF n <= 8 + Len(f.text) THEN n - 8 ELSE Len(f.text)
Begun(f, n) == [f EXCEPT !.text = SubSeq(f.text, 1, Reach(n, f))]
Counts(log, n) ==
  {k \in 0 .. Len(log) : (k > 0 => Offset(log, k) < n) /\ (k < Len(log) => n <= Offset(log, k + 1))}
Arrived(log, n) ==
  {[i \in 1 .. k |-> Begun(log[i], n - Offset(log, i))] : k \in Counts(log, n)}

\* What getContainerLogs should say of a log, frame by frame.
PieceOf(f, last) == [name |-> Named(f.stream, last), bytes |-> f.text]
PiecesOf(log) ==
  [i \in DOMAIN log |-> PieceOf(log[i], IF i = 1 THEN NoStream ELSE log[i - 1].stream)]

\* getContainerLogs finds the frames of a log again, of any bytes, in any sizes
\* and wherever it breaks off, in the middle of a header too: a good answer is
\* never refused, and the text is what each frame says by itself, in their order,
\* behind the name of its stream where that changes.  It is not that a reader
\* can tell the streams apart: a payload may say what a name says.
LogIsShown ==
  method = "logs" /\ pc \in Settled /\ conn = "open" /\ answer.status = "expected" /\ answer.form = "expected" =>
    /\ pc = "fulfilled"
    /\ \E log \in Arrived(frames, Len(answer.body)) : result = Said(PiecesOf(log))

\* Every method implements the call that PodmanApi.tla takes it for: it is only
\* fulfilled if podman has done what it was asked to, also where podman answers
\* with status 200 and says in the body that it has not.
Call == INSTANCE PodmanCall WITH
  acted <- podman,
  outcome <- IF pc \in Settled THEN pc ELSE "pending"
ImplementsCall == Call!Spec

\* Every call is settled, whether tar is missing, fails or the connection breaks
\* at any time, as long as podman answers.
CallSettles == <>(pc \in Settled)

\* buildImage does not build from the archive of a tar that failed: PodmanApi.ts
\* line 288 rejects with 'tar exited with exit code'.
FailedTarRejects == tarFate = "fails" => pc # "fulfilled"
=============================================================================
