---------------------------- MODULE ZjiotConsole ----------------------------
(***************************************************************************)
(* The ZJIoT bench console: a serial module that learns infrared codes, the *)
(* framed exchange with it, and the learn threads of the console's window.  *)
(* A frame is two reads for a thread, its header and the rest; what is left *)
(* unread stays in the port's buffer for whoever reads next.  The module    *)
(* and the remote control held to it are external.                          *)
(***************************************************************************)
EXTENDS Integers, Sequences

CONSTANTS
    Workers,        \* learn threads: each click on Learn starts one
    Keys,           \* keys of the remote control that is learnt
    MaxAttempts,    \* MAX_ATTEMPTS
    MaxResync,      \* MAX_RESYNC_BYTES
    MaxLearns, MaxPresses, MaxNoise, MaxConnects   \* bounds, MaxNoise on strays and sends

ASSUME ZjiotConstants ==
    /\ MaxAttempts \in Nat \ {0} /\ MaxResync \in Nat \ {0}
    /\ MaxLearns \in Nat /\ MaxPresses \in Nat /\ MaxNoise \in Nat
    /\ MaxConnects \in Nat
    /\ "none" \notin Keys

VARIABLES
    conn,       \* the connection in use, 0 when the port is closed
    connects,   \* connections opened so far
    buffer,     \* what the port has received and nobody has read
    learning,   \* the module is in learn mode
    worker,     \* the learn threads
    last,       \* _last_learn: the key whose code it is, or "none"
    budget,     \* what the bounds leave: clicks, presses, noise
    fresh,      \* history: the learn under way, or the last one, began in order, see StartLearn
    pressed,    \* history: keys the module heard since it was clicked
    strays,     \* history: stray bytes that came since then and are no header
    spoilt,     \* history: since then one came that looks like a header, or a garbled answer
    source      \* history: of the learn that set `last': fresh, the keys, the clicks left

port == <<conn, connects, buffer>>
heard == <<fresh, pressed, strays, spoilt>>
witnesses == <<heard, source>>
consoleVars == <<port, learning, worker, last, budget, witnesses>>

Off == [pc |-> "off", on |-> 0, attempt |-> 0, skipped |-> 0]
Active(w) == worker[w].pc # "off"

\* Pieces of the buffer: a stray byte, a stray byte that looks like a header, and
\* the two parts of a frame.  A frame is the capture of a key or an empty answer.
Stray(looks) == [part |-> looks, of |-> "none"]
Frame(part, of) == [part |-> part, of |-> of]

ConsoleInit ==
    /\ conn = 0 /\ connects = 0 /\ buffer = <<>> /\ learning = FALSE
    /\ worker = [w \in Workers |-> Off] /\ last = "none"
    /\ budget = [learns |-> MaxLearns, presses |-> MaxPresses, noise |-> MaxNoise]
    /\ fresh = FALSE /\ pressed = {} /\ strays = 0 /\ spoilt = FALSE
    /\ source = [fresh |-> FALSE, keys |-> {}, left |-> MaxLearns]

Spend(what) ==
    /\ budget[what] > 0
    /\ budget' = [budget EXCEPT ![what] = @ - 1]

-----------------------------------------------------------------------------
(* The window's thread. *)

\* connect closes what is open; a port that is opened has an empty buffer.
Connect ==
    /\ connects < MaxConnects
    /\ connects' = connects + 1 /\ conn' = connects' /\ buffer' = <<>>
    /\ UNCHANGED <<learning, worker, last, budget, witnesses>>

Disconnect ==
    /\ conn # 0
    /\ conn' = 0 /\ buffer' = <<>>
    /\ UNCHANGED <<connects, learning, worker, last, budget, witnesses>>

\* Nothing is left of an earlier command: no answer, no learn mode, no thread.
InOrder == buffer = <<>> /\ ~learning /\ \A w \in Workers : ~Active(w)

\* The history begins again, and is kept of a learn that begins in order.
HearsAnew(inOrder) == fresh' = inOrder /\ pressed' = {} /\ strays' = 0 /\ spoilt' = FALSE

\* _learn: the button starts another thread whatever the others do.
StartLearn(w) ==
    /\ ~Active(w) /\ Spend("learns")
    /\ worker' = [worker EXCEPT ![w] = IF conn = 0 THEN Off
                                       ELSE [Off EXCEPT !.pc = "write", !.on = conn, !.attempt = 1]]
    /\ HearsAnew(conn # 0 /\ InOrder)
    /\ UNCHANGED <<port, learning, last, source>>

\* Send NEC, Send slot, Send raw, Send selected: one write, no reply is read.
\* The module may answer all the same, and the answer stays in the buffer.
SendOnly ==
    /\ conn # 0 /\ Spend("noise")
    /\ \/ buffer' = buffer \o <<Frame("head", "none"), Frame("body", "none")>>
       \/ buffer' = buffer
    /\ HearsAnew(FALSE)
    /\ UNCHANGED <<conn, connects, learning, worker, last, source>>

-----------------------------------------------------------------------------
(* The module and the wire (external). *)

\* A key is held to the module in learn mode: it answers with its waveform, which
\* the wire may garble, and leaves learn mode.
PressKey(k) ==
    /\ learning /\ Spend("presses")
    /\ learning' = FALSE
    /\ \E garbled \in BOOLEAN :
          /\ buffer' = IF conn = 0 THEN buffer
                       ELSE buffer \o <<Frame("head", k), Frame(IF garbled THEN "garbled" ELSE "body", k)>>
          /\ pressed' = IF fresh /\ conn # 0 /\ ~garbled THEN pressed \union {k} ELSE pressed
          /\ spoilt' = (spoilt \/ (fresh /\ garbled))
    /\ UNCHANGED <<conn, connects, worker, last, fresh, strays, source>>

StrayByte ==
    /\ conn # 0 /\ Spend("noise")
    /\ \E looks \in {"noise", "fake"} :
          /\ buffer' = Append(buffer, Stray(looks))
          /\ strays' = IF fresh /\ looks = "noise" THEN strays + 1 ELSE strays
          /\ spoilt' = (spoilt \/ (fresh /\ looks = "fake"))
    /\ UNCHANGED <<conn, connects, learning, worker, last, fresh, pressed, source>>

-----------------------------------------------------------------------------
(* A learn thread: send_frame and _read_frame. *)

Put(w, new) == worker' = [worker EXCEPT ![w] = new]
Fails(w) == Put(w, Off) /\ UNCHANGED <<last, source>>

\* Bug to catch: the command is repeated until an answer comes.
GiveUpAttempt_Forever(w) ==
    Put(w, [worker[w] EXCEPT !.pc = "write", !.skipped = 0]) /\ UNCHANGED <<last, source>>

\* Once more after 0.05 s, or the error of the last attempt.
GiveUpAttempt(w) ==
    IF worker[w].attempt = MaxAttempts
    THEN Fails(w)
    ELSE /\ Put(w, [worker[w] EXCEPT !.pc = "write", !.attempt = @ + 1, !.skipped = 0])
         /\ UNCHANGED <<last, source>>

\* The port it was started on is still open.
Holds(w) == worker[w].on = conn

WriteLearn(w) ==
    /\ worker[w].pc = "write" /\ Holds(w)
    /\ learning' = TRUE
    /\ Put(w, [worker[w] EXCEPT !.pc = "scan"])
    /\ UNCHANGED <<port, last, budget, witnesses>>

\* A read that finds nothing within ACK_TIMEOUT.
ReadTimeout(w) ==
    /\ worker[w].pc \in {"scan", "rest", "fake"} /\ Holds(w) /\ buffer = <<>>
    /\ GiveUpAttempt(w)
    /\ UNCHANGED <<port, learning, budget, heard>>

\* Bug to catch: three bytes are read at once, and a stray one in front spoils them.
SkipByte_Bails(w) == buffer' = Tail(buffer) /\ GiveUpAttempt(w)

\* One byte that is no header; the last one within the bound ends the attempt.
SkipByte(w) ==
    /\ buffer' = Tail(buffer)
    /\ IF worker[w].skipped + 1 = MaxResync
       THEN GiveUpAttempt(w)
       ELSE Put(w, [worker[w] EXCEPT !.skipped = @ + 1]) /\ UNCHANGED <<last, source>>

\* One that is, or looks like, a header: the rest is read with the length behind it.
Read(part, w) ==
    /\ buffer' = Tail(buffer) /\ Put(w, [worker[w] EXCEPT !.pc = part])
    /\ UNCHANGED <<last, source>>

\* The byte-wise hunt for the header.  The rest of a frame whose header another
\* thread took is many bytes: they are skipped, run into the bound, or hold one
\* that looks like a header.
ScanByte(w) ==
    /\ worker[w].pc = "scan" /\ Holds(w) /\ buffer # <<>>
    /\ CASE Head(buffer).part = "noise" -> SkipByte(w)
         [] Head(buffer).part = "head" -> Read("rest", w)
         [] Head(buffer).part = "fake" -> Read("fake", w)
         [] OTHER -> \/ buffer' = Tail(buffer) /\ UNCHANGED <<worker, last, source>>
                     \/ buffer' = Tail(buffer) /\ GiveUpAttempt(w)
                     \/ Read("fake", w)
    /\ UNCHANGED <<conn, connects, learning, budget, heard>>

\* Bug to catch: the checksum is not compared.
Accepts_Unchecked(piece) == piece.part \in {"body", "garbled"}

\* proto.parse.
Accepts(piece) == piece.part = "body"

\* What a capture of this piece leaves in _last_learn: a garbled one nothing of a key.
Learnt(piece) == IF piece.part = "garbled" THEN "garbled" ELSE piece.of

\* The rest of a frame behind its own header: a reply, or a defect.
ReadRest(w) ==
    /\ worker[w].pc = "rest" /\ Holds(w) /\ buffer # <<>>
    /\ Head(buffer).part \in {"body", "garbled"}
    /\ buffer' = Tail(buffer)
    /\ IF Accepts(Head(buffer))
       THEN /\ last' = Learnt(Head(buffer))
            /\ source' = [fresh |-> fresh, keys |-> pressed, left |-> budget.learns]
            /\ Put(w, Off)
       ELSE GiveUpAttempt(w)
    /\ UNCHANGED <<conn, connects, learning, budget, heard>>

\* A length taken from elsewhere: some of what is there is read with it, and the
\* checksum fails or the read runs into its timeout.
ReadMisaligned(w) ==
    /\ worker[w].pc \in {"rest", "fake"} /\ Holds(w) /\ buffer # <<>>
    /\ worker[w].pc = "rest" => Head(buffer).part \notin {"body", "garbled"}
    /\ \E n \in 1 .. Len(buffer) : buffer' = SubSeq(buffer, n + 1, Len(buffer))
    /\ GiveUpAttempt(w)
    /\ UNCHANGED <<conn, connects, learning, budget, heard>>

\* Its port was closed under it: read or write raises.
PortGone(w) ==
    /\ Active(w) /\ ~Holds(w)
    /\ Fails(w)
    /\ UNCHANGED <<port, learning, budget, heard>>

WorkerStep(w) ==
    \/ WriteLearn(w) \/ ReadTimeout(w) \/ ScanByte(w) \/ ReadRest(w)
    \/ ReadMisaligned(w) \/ PortGone(w)

ConsoleNext ==
    \/ \E w \in Workers : WorkerStep(w) \/ StartLearn(w)
    \/ Connect \/ Disconnect \/ SendOnly
    \/ \E k \in Keys : PressKey(k)
    \/ StrayByte

ConsoleSpec == ConsoleInit /\ [][ConsoleNext]_consoleVars

\* Every read has a timeout and the threads are daemons of a running window.
ConsoleFair == \A w \in Workers : WF_consoleVars(WorkerStep(w))

-----------------------------------------------------------------------------
(* Properties. *)

ConsoleTypeOK ==
    /\ connects \in 0 .. MaxConnects /\ conn \in {0, connects}
    /\ buffer \in Seq([part : {"noise", "fake", "head", "body", "garbled"}, of : Keys \union {"none"}])
    /\ learning \in BOOLEAN
    /\ worker \in [Workers -> [pc : {"off", "write", "scan", "rest", "fake"}, on : 0 .. MaxConnects,
                               attempt : 0 .. MaxAttempts, skipped : 0 .. MaxResync - 1]]
    /\ last \in Keys \union {"none"}
    /\ fresh \in BOOLEAN /\ pressed \subseteq Keys /\ strays \in Nat /\ spoilt \in BOOLEAN
    /\ source \in [fresh : BOOLEAN, keys : SUBSET Keys, left : 0 .. MaxLearns]

\* A learn that was clicked with nothing left of an earlier command captures a key
\* that was held to the module since, through stray bytes, garbled answers, repeated
\* commands and closed ports.  Without that condition it does not: an answer that
\* comes after its timeout is still in the buffer and is taken for the next one.
LearnsWhatWasPressed == source.fresh /\ last # "none" => last \in source.keys

\* Fewer than MAX_RESYNC_BYTES stray bytes cost no reply if none of them looks
\* like a header: a learn that began in order and ended with an error, all alone
\* on its port, was not answered intact (serial_win.py:121-126).  One stray byte
\* that does look like a header can cost the reply (serial_win.py:127-143).
StraysAreSkipped ==
    [][\A w \in Workers :
          (/\ Active(w) /\ ~Active(w)' /\ Holds(w) /\ UNCHANGED source
           /\ fresh /\ ~spoilt /\ strays < MaxResync) => pressed = {}]_consoleVars

\* Every learn thread comes to its end.
LearnEnds == \A w \in Workers : Active(w) ~> ~Active(w)
=============================================================================
