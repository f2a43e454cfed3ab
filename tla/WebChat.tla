-------------------------------- MODULE WebChat --------------------------------
(***************************************************************************)
(* One conversation of the web chat: the input queue and its listener task *)
(* (core/platform/sources/webchat/webchat_queue_mgr.py), the request that  *)
(* puts a message there and streams the answer                             *)
(* (dashboard/services/chat_service.py), the pipeline that answers through *)
(* a back queue of the request (webchat_event.py, core/pipeline/           *)
(* scheduler.py), proactive messages (webchat_adapter.py), and the         *)
(* deletion of the conversation.                                           *)
(*                                                                         *)
(* A step is what a task does between two suspensions.  Names begin with   *)
(* Web where several components would use the same.                        *)
(***************************************************************************)
EXTENDS Naturals, Sequences

CONSTANTS
  MaxMessages,  \* bound: messages, each with its request
  MaxRemovals,  \* bound: deletions of the conversation
  MaxNotices,   \* bound: proactive messages that find a request to go to
  BackSize,     \* back_queue_maxsize
  MaxChunks     \* bound: pieces of an answer

ASSUME WebAssumption ==
  /\ {BackSize, MaxChunks} \subseteq Nat \ {0}
  /\ {MaxMessages, MaxRemovals, MaxNotices} \subseteq Nat

VARIABLES
  on,         \* the adapter has set its callback
  input,      \* queues[c]: the number of the input queue, 0 without one
  made,       \* input queues made
  content,    \* of each input queue
  closed,     \* input queues whose close event is set
  listener,   \* the listener task of each input queue
  holds,      \* the message a listener's callback is busy with
  cancelled,  \* listeners that were cancelled
  known,      \* _listener_tasks[c], as the number of its queue
  back,       \* back_queues: the number of a request's registered queue, 0 without one
  items,      \* what each back queue made for a request holds; its stream reads the first
  stream,     \* the request's task
  answer,     \* the pipeline's task
  left,       \* pieces the pipeline has still to send
  blocked,    \* the back queue on which its put waits, 0 without one
  due,        \* requests to which the proactive message has still to go
  waits,      \* the back queue on which a proactive put to a request waits
  notices,    \* proactive messages begun
  dropped,    \* history: messages that get no answer or whose queue was taken away
  leaked      \* history: messages whose registered back queue lost its stream, or never got one

inputs  == <<on, input, made, content, closed, listener, holds, cancelled, known>>
answers == <<answer, left, blocked>>
sender  == <<due, waits, notices>>
webVars == <<inputs, back, items, stream, answers, sender, dropped, leaked>>

QueueNo == 1..(MaxRemovals + 1)
\* Messages are numbered in the order in which their requests come.
Message == 1..MaxMessages
NoMessage == 0

WebTypeOK ==
  /\ on \in BOOLEAN
  /\ {input, made, known} \subseteq 0..(MaxRemovals + 1)
  /\ content \in [QueueNo -> Seq(Message)]
  /\ {closed, cancelled} \subseteq SUBSET QueueNo
  /\ listener \in [QueueNo -> {"none", "wait", "busy", "ended", "over"}]
  /\ holds \in [QueueNo -> Message \cup {NoMessage}]
  /\ items \in [Message -> Seq(Seq({"piece", "end"}))]
  /\ \A m \in Message :
       /\ {back[m], blocked[m], waits[m]} \subseteq 0..Len(items[m])
       /\ \A o \in 1..Len(items[m]) : Len(items[m][o]) <= BackSize
  /\ stream \in [Message -> {"none", "saving", "open", "closing", "over", "unopened"}]
  /\ answer \in [Message -> {"none", "running", "ended", "raised"}]
  /\ left \in [Message -> 0..MaxChunks]
  /\ {back, blocked, waits} \subseteq [Message -> Nat]
  /\ {due, dropped, leaked} \subseteq SUBSET Message
  /\ notices \in 0..MaxNotices

WebInit ==
  /\ on = FALSE
  /\ input = 0 /\ made = 0 /\ known = 0
  /\ content = [q \in QueueNo |-> <<>>]
  /\ closed = {} /\ cancelled = {}
  /\ listener = [q \in QueueNo |-> "none"]
  /\ holds = [q \in QueueNo |-> NoMessage]
  /\ back = [m \in Message |-> 0]
  /\ items = [m \in Message |-> <<>>]
  /\ stream = [m \in Message |-> "none"]
  /\ answer = [m \in Message |-> "none"]
  /\ left = [m \in Message |-> 0]
  /\ blocked = [m \in Message |-> 0]
  /\ due = {} /\ waits = [m \in Message |-> 0] /\ notices = 0
  /\ dropped = {} /\ leaked = {}

-------------------------------------------------------------------------------
(* Listeners.                                                              *)

Listening(q) == q # 0 /\ listener[q] \in {"wait", "busy"}

\* _start_listener_if_needed, for the conversation's queue q
StartListener(q, callback) ==
  IF callback /\ ~Listening(known) /\ q # 0
  THEN /\ listener' = [listener EXCEPT ![q] = "wait"]
       /\ known' = q
  ELSE UNCHANGED <<listener, known>>

\* The adapter runs: set_listener.
AdapterStarts ==
  /\ ~on
  /\ on' = TRUE
  /\ StartListener(input, TRUE)
  /\ UNCHANGED <<input, made, content, closed, holds, cancelled,
                 back, items, stream, answers, sender, dropped, leaked>>

\* _listen_to_queue takes the first message and calls back ...
Take(q) ==
  /\ listener[q] = "wait"
  /\ q \notin closed \cup cancelled
  /\ content[q] # <<>>
  /\ holds' = [holds EXCEPT ![q] = Head(content[q])]
  /\ content' = [content EXCEPT ![q] = Tail(@)]
  /\ listener' = [listener EXCEPT ![q] = "busy"]
  /\ UNCHANGED <<on, input, made, closed, cancelled, known,
                 back, items, stream, answers, sender, dropped, leaked>>

\* ... which puts an event on the bus: the pipeline starts on an answer of some length.
Commit(q) ==
  /\ listener[q] = "busy"
  /\ q \notin cancelled
  /\ answer' = [answer EXCEPT ![holds[q]] = "running"]
  /\ \E k \in 0..MaxChunks : left' = [left EXCEPT ![holds[q]] = k]
  /\ holds' = [holds EXCEPT ![q] = NoMessage]
  /\ listener' = [listener EXCEPT ![q] = "wait"]
  /\ UNCHANGED <<on, input, made, content, closed, cancelled, known,
                 back, items, stream, blocked, sender, dropped, leaked>>

\* The callback raises; that is logged.
CallbackRaises(q) ==
  /\ listener[q] = "busy"
  /\ q \notin cancelled
  /\ dropped' = dropped \cup {holds[q]}
  /\ holds' = [holds EXCEPT ![q] = NoMessage]
  /\ listener' = [listener EXCEPT ![q] = "wait"]
  /\ UNCHANGED <<on, input, made, content, closed, cancelled, known,
                 back, items, stream, answers, sender, leaked>>

\* The task finds its queue closed, or is cancelled, also within the callback.
ListenerEnds(q) ==
  /\ \/ listener[q] = "wait" /\ q \in closed \cup cancelled
     \/ listener[q] = "busy" /\ q \in cancelled
  /\ dropped' = dropped \cup ({holds[q]} \ {NoMessage})
  /\ holds' = [holds EXCEPT ![q] = NoMessage]
  /\ listener' = [listener EXCEPT ![q] = "ended"]
  /\ UNCHANGED <<on, input, made, content, closed, cancelled, known,
                 back, items, stream, answers, sender, leaked>>

\* Its done-callback pops the conversation's entry, whichever task that is.
ListenerDone(q) ==
  /\ listener[q] = "ended"
  /\ listener' = [listener EXCEPT ![q] = "over"]
  /\ known' = 0
  /\ UNCHANGED <<on, input, made, content, closed, holds, cancelled,
                 back, items, stream, answers, sender, dropped, leaked>>

-------------------------------------------------------------------------------
(* Back queues: WebChatQueueMgr.get_or_create_back_queue and its callers.  *)

HasBackQueue(m) == back[m] # 0

\* The stream whose finally removes the back queue has not ended.
Attended(m) == stream[m] \in {"saving", "open", "closing"}

\* The back queue a caller gets: the registered one, or a new one.
Target(m)  == IF HasBackQueue(m) THEN back[m] ELSE Len(items[m]) + 1
Fresh(m)   == IF HasBackQueue(m) THEN items ELSE [items EXCEPT ![m] = Append(@, <<>>)]
Targets(m) == /\ back' = [back EXCEPT ![m] = Target(m)]
              /\ leaked' = IF HasBackQueue(m) \/ Attended(m) THEN leaked ELSE leaked \cup {m}

\* remove_back_queue: by the request's number, whichever queue that is.
RemoveBackQueue(m) == back' = [back EXCEPT ![m] = 0]

\* Mutant: a full queue takes one more.
RoomForOneMore(m, o) == Len(items[m][o]) <= BackSize

Room(m, o) == Len(items[m][o]) < BackSize

-------------------------------------------------------------------------------
(* A request: build_chat_stream.                                           *)

\* The back queue is registered, under a new number, and the message put into the
\* input queue, which is made, with its listener, when there is none; then the user's
\* record is saved.
Post(m) ==
  LET q == IF input = 0 THEN made + 1 ELSE input IN
  /\ stream[m] = "none" /\ ~HasBackQueue(m)
  /\ \A n \in Message : n < m => stream[n] # "none"
  /\ back' = [back EXCEPT ![m] = Target(m)]
  /\ items' = Fresh(m)
  /\ content' = [content EXCEPT ![q] = Append(@, m)]
  /\ IF input = 0
     THEN /\ input' = q /\ made' = q
          /\ StartListener(q, on)
     ELSE UNCHANGED <<input, made, listener, known>>
  /\ stream' = [stream EXCEPT ![m] = "saving"]
  /\ UNCHANGED <<on, closed, holds, cancelled, answers, sender, dropped, leaked>>

StreamAt(m, from, to) == stream[m] = from /\ stream' = [stream EXCEPT ![m] = to]

\* The stream begins ...
Opens(m) ==
  /\ StreamAt(m, "saving", "open")
  /\ UNCHANGED <<inputs, back, items, answers, sender, dropped, leaked>>

\* The stream is gone and the back queue, if it is registered, left behind.
LeavesQueue(m) ==
  /\ leaked' = IF HasBackQueue(m) THEN leaked \cup {m} ELSE leaked
  /\ UNCHANGED <<inputs, back, items, answers, sender, dropped>>

\* ... or never does, because the record could not be saved or the client left:
\* then no finally removes the back queue.
NeverOpens(m) == StreamAt(m, "saving", "unopened") /\ LeavesQueue(m)

\* The stream reads the queue it was given, until the end of the answer.
Reads(m) ==
  /\ stream[m] = "open"
  /\ items[m][1] # <<>>
  /\ items' = [items EXCEPT ![m][1] = Tail(@)]
  /\ IF Head(items[m][1]) = "end"
     THEN StreamAt(m, "open", "closing")
     ELSE UNCHANGED stream
  /\ UNCHANGED <<inputs, back, answers, sender, dropped, leaked>>

\* The client disconnects.
Disconnects(m) ==
  /\ StreamAt(m, "open", "closing")
  /\ UNCHANGED <<inputs, back, items, answers, sender, dropped, leaked>>

\* Mutant: the queue is removed only after the end of an answer.
ClosesKeeping(m) ==
  /\ StreamAt(m, "closing", "over")
  /\ UNCHANGED <<inputs, back, items, answers, sender, dropped, leaked>>

\* The finally saves what is unsaved, or logs that it could not, and removes the queue ...
Closes(m) ==
  /\ StreamAt(m, "closing", "over")
  /\ RemoveBackQueue(m)
  /\ UNCHANGED <<inputs, items, answers, sender, dropped, leaked>>

\* ... but a cancellation of that save is no Exception and leaves before the removal.
SaveCancelled(m) == StreamAt(m, "closing", "over") /\ LeavesQueue(m)

-------------------------------------------------------------------------------
(* The pipeline: WebChatMessageEvent._send, PipelineScheduler.execute.     *)

\* A put of a piece, or of the end after the last piece.
Item(m) == IF left[m] > 0 THEN "piece" ELSE "end"
ItemSent(m) ==
  IF left[m] > 0
  THEN left' = [left EXCEPT ![m] = @ - 1] /\ UNCHANGED answer
  ELSE answer' = [answer EXCEPT ![m] = "ended"] /\ UNCHANGED left

Sends(m) ==
  /\ answer[m] = "running"
  /\ blocked[m] = 0
  /\ Targets(m)
  /\ IF HasBackQueue(m) => Room(m, back[m])
     THEN /\ items' = [Fresh(m) EXCEPT ![m][Target(m)] = Append(@, Item(m))]
          /\ ItemSent(m)
          /\ UNCHANGED blocked
     ELSE /\ blocked' = [blocked EXCEPT ![m] = Target(m)]
          /\ UNCHANGED <<items, answer, left>>
  /\ UNCHANGED <<inputs, stream, sender, dropped>>

\* Mutant: a put that had to wait is given up.
GoesOnWithoutItem(m) ==
  /\ answer[m] = "running"
  /\ blocked[m] # 0
  /\ Room(m, blocked[m])
  /\ ItemSent(m)
  /\ blocked' = [blocked EXCEPT ![m] = 0]
  /\ UNCHANGED <<inputs, back, items, stream, sender, dropped, leaked>>

\* The put goes on once the object on which it waits has room, registered or not.
GoesOn(m) ==
  /\ answer[m] = "running"
  /\ blocked[m] # 0
  /\ Room(m, blocked[m])
  /\ items' = [items EXCEPT ![m][blocked[m]] = Append(@, Item(m))]
  /\ ItemSent(m)
  /\ blocked' = [blocked EXCEPT ![m] = 0]
  /\ UNCHANGED <<inputs, back, stream, sender, dropped, leaked>>

\* A stage raises: execute sends no end.
Raises(m) ==
  /\ answer[m] = "running"
  /\ blocked[m] = 0
  /\ answer' = [answer EXCEPT ![m] = "raised"]
  /\ dropped' = dropped \cup {m}
  /\ UNCHANGED <<inputs, back, items, stream, left, blocked, sender, leaked>>

-------------------------------------------------------------------------------
(* Proactive messages and deletion.                                        *)

\* send_by_session lists the registered requests and gets the back queue of one of
\* them; without any the message goes into the history.  One proactive message at a
\* time is on its way.
Announces(m) ==
  /\ \A n \in Message : waits[n] = 0
  /\ notices < MaxNotices
  /\ HasBackQueue(m)
  /\ due' = { n \in Message : HasBackQueue(n) } \ {m}
  /\ waits' = [waits EXCEPT ![m] = back[m]]
  /\ notices' = notices + 1
  /\ UNCHANGED <<inputs, back, items, stream, answers, dropped, leaked>>

\* When the file in the message is converted, and there is room, it puts the message,
\* whose components count as one, into the queue it got, registered or not, and gets
\* the next request's: a new one where that request's is gone.
Notifies(m) ==
  /\ waits[m] # 0
  /\ Room(m, waits[m])
  /\ \/ /\ due = {}
        /\ waits' = [waits EXCEPT ![m] = 0]
        /\ items' = [items EXCEPT ![m][waits[m]] = Append(@, "piece")]
        /\ UNCHANGED <<due, back, leaked>>
     \/ \E n \in due :
        /\ Targets(n)
        /\ waits' = [waits EXCEPT ![m] = 0, ![n] = Target(n)]
        /\ items' = [Fresh(n) EXCEPT ![m][waits[m]] = Append(@, "piece")]
        /\ due' = due \ {n}
  /\ UNCHANGED <<inputs, stream, answers, notices, dropped>>

\* Mutant: the listener's task is cancelled and left in the dictionary.
RemoveQueueKeepingTask ==
  /\ input' = 0
  /\ closed' = closed \cup {input}
  /\ cancelled' = IF known # 0 THEN cancelled \cup {known} ELSE cancelled
  /\ UNCHANGED known

\* remove_queue
RemoveQueue ==
  /\ input' = 0
  /\ closed' = closed \cup {input}
  /\ cancelled' = IF known # 0 THEN cancelled \cup {known} ELSE cancelled
  /\ known' = 0

\* delete_session_internal, delete_threads_by_ids: remove_queues.
DeleteConversation ==
  /\ input # 0 /\ made <= MaxRemovals
  /\ back' = [m \in Message |-> 0]
  /\ dropped' = dropped \cup { m \in Message : HasBackQueue(m) }
                  \cup { content[input][i] : i \in 1..Len(content[input]) }
  /\ leaked' = {}
  /\ RemoveQueue
  /\ UNCHANGED <<on, made, content, listener, holds, items, stream, answers, sender>>

Listen(q) == Take(q) \/ Commit(q) \/ CallbackRaises(q) \/ ListenerEnds(q) \/ ListenerDone(q)
Follow(m) == Opens(m) \/ NeverOpens(m) \/ Reads(m) \/ Closes(m) \/ SaveCancelled(m)
Pipeline(m) == Sends(m) \/ GoesOn(m) \/ Raises(m)

WebNext ==
  \/ AdapterStarts
  \/ \E q \in QueueNo : Listen(q)
  \/ \E m \in Message : Post(m) \/ Follow(m) \/ Disconnects(m) \/ Pipeline(m)
  \/ \E m \in Message : Announces(m) \/ Notifies(m)
  \/ DeleteConversation

WebSpec == WebInit /\ [][WebNext]_webVars

\* The adapter is started, and every task that can go on does; nothing is assumed
\* of users: neither that they write nor that they disconnect.
WebFairness ==
  /\ WF_webVars(AdapterStarts)
  /\ \A q \in QueueNo : WF_webVars(Listen(q))
  /\ \A m \in Message : WF_webVars(Follow(m)) /\ WF_webVars(Pipeline(m))

-------------------------------------------------------------------------------
(* Properties.                                                             *)

\* While the adapter runs, the input queue of a conversation has a listener that
\* will take its messages: neither the deletion of an earlier queue nor the late
\* end of its listener leaves the next queue without one.
QueueServed ==
  on /\ input # 0 => Listening(input) /\ input \notin closed \cup cancelled

\* A registered back queue has a stream that has still to remove it.  Left without
\* one are exactly the three ways the code lets it be: a stream that never began, a
\* save cancelled in the stream's finally, and a put after the stream's end, which
\* makes the queue anew; deleting the conversation mends all of them.
BackQueueReleased ==
  /\ \A m \in Message : HasBackQueue(m) => Attended(m) \/ m \in leaked
  /\ \A m \in leaked : HasBackQueue(m) /\ ~Attended(m)

\* The stream of a message ends, unless the message was lost, its pipeline raised or
\* the conversation was deleted; and the pipeline ends as long as the client stays:
\* after any state comes one with nothing unfinished.
Unfinished(m) ==
  /\ m \notin dropped
  /\ \/ stream[m] = "open"
     \/ answer[m] = "running" /\ stream[m] \notin {"closing", "over", "unopened"}

ExchangeEnds == []<>(\A m \in Message : ~Unfinished(m))
===============================================================================
