------------------------------ MODULE ChatPage ------------------------------
(***************************************************************************)
(* The script of a deployed chatbot page (src/api/chatbot_page.py): the    *)
(* conversations a visitor may return to, the one on screen, the message   *)
(* being sent, and the files that go with it.                              *)
(*                                                                         *)
(* The script runs on one thread, so a step is what it does between two    *)
(* awaits.  While a request is under way the visitor may press any button; *)
(* a request is answered, or fails, at any time, also after the server has *)
(* done its part.  A message is its number; the order of a thread and the  *)
(* titles of conversations are left out.  A session that was created while *)
(* its answer was lost is never heard of again, and is left out too.       *)
(***************************************************************************)
EXTENDS Integers, Sequences, FiniteSets, Functions

CONSTANTS
    Sessions,       \* ids the server may give
    Files,
    Nothing,
    MaxMessages,    \* bound: messages typed
    MaxLoads        \* bound: histories under way at once

ASSUME PageAssumption ==
    /\ MaxMessages \in Nat /\ MaxLoads \in Nat
    /\ Nothing \notin Sessions

VARIABLES
    transcripts,    \* the server's sessions, each with its messages
    made,           \* every session the server created
    deletes,        \* requests to delete under way
    chats, activeId,                \* the list, and the conversation on screen
    messages,       \* the thread on screen
    busy, sending,  \* the message under way, and how far it is
    loads,          \* histories under way
    staged,         \* files chosen but not yet sent
    keepHistory, kept,              \* the setting, and what localStorage holds
    typedIn,        \* the conversation each message was typed in (bookkeeping)
    uploaded,       \* files indexed, each with its session and message (bookkeeping)
    chosen,         \* files chosen on this page and not taken back (bookkeeping)
    removed         \* conversations the visitor removed (bookkeeping)

server == <<transcripts, made>>
list   == <<chats, activeId, keepHistory, kept>>
files  == <<staged, uploaded, chosen>>
pageVars   == <<server, deletes, list, messages, busy, sending, loads, files, typedIn, removed>>

NoChats == [chats |-> {}, active |-> Nothing]

PageInit ==
    /\ transcripts = <<>> /\ made = {} /\ deletes = {}
    /\ chats = {} /\ activeId = Nothing /\ messages = {}
    /\ busy = FALSE /\ sending = Nothing /\ loads = {}
    /\ staged = {} /\ uploaded = {} /\ chosen = {}
    /\ keepHistory = TRUE /\ kept = NoChats
    /\ typedIn = <<>> /\ removed = {}

-----------------------------------------------------------------------------
(* Storage                                                                 *)

\* Fault: written whatever the setting.
PersistAlways == kept' = [chats |-> chats', active |-> activeId']

persist == kept' = IF keepHistory' THEN [chats |-> chats', active |-> activeId'] ELSE kept

-----------------------------------------------------------------------------
(* Sending                                                                 *)

\* Where a message is once its session is known.
Onward(n, session) ==
    [n |-> n, session |-> session, at |-> IF staged = {} THEN "asking" ELSE "uploading", files |-> staged]

\* send, up to the first answer it needs
Send ==
    LET n == Len(typedIn) + 1
    IN  /\ ~busy /\ n <= MaxMessages
        /\ busy' = TRUE
        /\ messages' = messages \cup {<<"user", n>>}
        /\ typedIn' = Append(typedIn, activeId)
        /\ sending' = IF activeId # Nothing THEN Onward(n, activeId)
                      ELSE [n |-> n, session |-> Nothing, at |-> "creating", files |-> {}]
        /\ UNCHANGED <<server, deletes, list, loads, files, removed>>

At(place) == busy /\ sending.at = place

\* ensureSession
Create ==
    /\ At("creating")
    /\ \E s \in Sessions \ made :
        /\ made' = made \cup {s}
        /\ transcripts' = [r \in DOMAIN transcripts \cup {s} |-> IF r = s THEN {} ELSE transcripts[r]]
        /\ activeId' = s
        /\ chats' = chats \cup {s}
        /\ sending' = Onward(sending.n, s)
    /\ UNCHANGED keepHistory
    /\ persist
    /\ UNCHANGED <<deletes, messages, busy, loads, files, typedIn, removed>>

Index(fs) == uploaded' = uploaded \cup {[session |-> sending.session, n |-> sending.n, file |-> f] : f \in fs}

\* uploadStaged, all files indexed
Upload ==
    /\ At("uploading")
    /\ Index(sending.files)
    /\ staged' = {}
    /\ sending' = [sending EXCEPT !.at = "reading"]
    /\ UNCHANGED <<server, deletes, list, messages, busy, loads, chosen, typedIn, removed>>

\* withAttachmentContext goes on whatever it is answered.
Read ==
    /\ At("reading")
    /\ sending' = [sending EXCEPT !.at = "asking"]
    /\ UNCHANGED <<server, deletes, list, messages, busy, loads, files, typedIn, removed>>

Told(session, entries) ==
    IF session \in DOMAIN transcripts THEN [transcripts EXCEPT ![session] = @ \cup entries] ELSE transcripts

\* Fault: the message goes to the conversation on screen.
ArriveOnScreen ==
    /\ At("asking") /\ activeId \in DOMAIN transcripts
    /\ transcripts' = Told(activeId, {<<"user", sending.n>>})
    /\ sending' = [sending EXCEPT !.at = "running"]
    /\ UNCHANGED <<made, deletes, list, messages, busy, loads, files, typedIn, removed>>

\* The server takes the message ...
Arrive ==
    /\ At("asking") /\ sending.session \in DOMAIN transcripts
    /\ transcripts' = Told(sending.session, {<<"user", sending.n>>})
    /\ sending' = [sending EXCEPT !.at = "running"]
    /\ UNCHANGED <<made, deletes, list, messages, busy, loads, files, typedIn, removed>>

\* ... and answers it.
Answer ==
    /\ At("running")
    /\ transcripts' = Told(sending.session, {<<"assistant", sending.n>>})
    /\ sending' = [sending EXCEPT !.at = "answered"]
    /\ UNCHANGED <<made, deletes, list, messages, busy, loads, files, typedIn, removed>>

Rest(entry) ==
    /\ messages' = messages \cup {entry}
    /\ busy' = FALSE
    /\ sending' = Nothing

\* The answer of the server reaches the page.
Reply ==
    /\ At("answered")
    /\ Rest(<<"assistant", sending.n>>)
    /\ UNCHANGED <<chats, activeId, keepHistory>>
    /\ IF sending.session \in chats THEN persist ELSE UNCHANGED kept
    /\ UNCHANGED <<server, deletes, loads, files, typedIn, removed>>

\* What the server may still make of a message nobody waits for.
Leftovers ==
    IF At("asking") \/ At("running")
    THEN {Told(sending.session, entries) :
            entries \in {{}, {<<"user", sending.n>>}, {<<"user", sending.n>>, <<"assistant", sending.n>>}}}
    ELSE {transcripts}

\* Fault: an error leaves the composer disabled.
FailBusy ==
    /\ busy
    /\ messages' = messages \cup {<<"error", sending.n>>}
    /\ sending' = [sending EXCEPT !.at = "failed"]
    /\ transcripts' \in Leftovers
    /\ UNCHANGED <<made, deletes, list, busy, loads, files, typedIn, removed>>

\* A request fails, or is refused.
Fail ==
    /\ busy
    /\ Rest(<<"error", sending.n>>)
    /\ transcripts' \in Leftovers
    /\ UNCHANGED <<made, deletes, list, loads, files, typedIn, removed>>

\* uploadStaged, some files not indexed: send fails, and they stay staged, but
\* not those the server stored under another name as theirs was taken.
UploadPartly ==
    /\ At("uploading")
    /\ Rest(<<"error", sending.n>>)
    /\ \E failed \in SUBSET sending.files \ {{}} : \E renamed \in SUBSET failed :
        /\ Index(sending.files \ failed)
        /\ staged' = staged \cap (failed \ renamed)
    /\ UNCHANGED <<server, deletes, list, loads, chosen, typedIn, removed>>

-----------------------------------------------------------------------------
(* Opening                                                                 *)

Load(s) == [of |-> s, answer |-> Nothing]

\* openChat, up to its request
OpenChat(s) ==
    /\ s \in chats /\ Load(s) \notin loads /\ Cardinality(loads) < MaxLoads
    /\ activeId' = s
    /\ loads' = loads \cup {Load(s)}
    /\ UNCHANGED <<chats, keepHistory>>
    /\ persist
    /\ UNCHANGED <<server, deletes, messages, busy, sending, files, typedIn, removed>>

\* The server reads the transcript.
LoadAnswers(load) ==
    /\ load.answer = Nothing
    /\ loads' = (loads \ {load}) \cup
         {[of |-> load.of,
           answer |-> IF load.of \in DOMAIN transcripts THEN [found |-> TRUE, shown |-> transcripts[load.of]]
                      ELSE [found |-> FALSE, shown |-> {}]]}
    /\ UNCHANGED <<server, deletes, list, messages, busy, sending, files, typedIn, removed>>

\* loadHistory: what the server sent replaces the thread; a session it does
\* not know leaves the list.
Loaded(load) ==
    /\ load.answer # Nothing
    /\ loads' = loads \ {load}
    /\ messages' = load.answer.shown
    /\ IF load.answer.found THEN UNCHANGED list
       ELSE /\ chats' = chats \ {load.of}
            /\ activeId' = (IF activeId = load.of THEN Nothing ELSE activeId)
            /\ UNCHANGED keepHistory
            /\ persist
    /\ UNCHANGED <<server, deletes, busy, sending, files, typedIn, removed>>

LoadFails(load) ==
    /\ loads' = loads \ {load}
    /\ messages' = {}
    /\ UNCHANGED <<server, deletes, list, busy, sending, files, typedIn, removed>>

-----------------------------------------------------------------------------
(* The buttons                                                             *)

NewChat ==
    /\ activeId' = Nothing
    /\ messages' = {}
    /\ UNCHANGED <<chats, keepHistory>>
    /\ persist
    /\ UNCHANGED <<server, deletes, busy, sending, loads, files, typedIn, removed>>

\* Fault: the list is not persisted.
ForgetToPersist(s) ==
    /\ s \in chats
    /\ chats' = chats \ {s}
    /\ deletes' = deletes \cup {s}
    /\ removed' = removed \cup {s}
    /\ IF activeId = s THEN activeId' = Nothing /\ messages' = {} ELSE UNCHANGED <<activeId, messages>>
    /\ UNCHANGED <<server, keepHistory, kept, busy, sending, loads, files, typedIn>>

RemoveChat(s) ==
    /\ s \in chats
    /\ chats' = chats \ {s}
    /\ deletes' = deletes \cup {s}
    /\ removed' = removed \cup {s}
    /\ IF activeId = s THEN activeId' = Nothing /\ messages' = {} ELSE UNCHANGED <<activeId, messages>>
    /\ UNCHANGED keepHistory
    /\ persist
    /\ UNCHANGED <<server, busy, sending, loads, files, typedIn>>

ClearAll ==
    /\ chats' = {} /\ activeId' = Nothing /\ messages' = {}
    /\ deletes' = deletes \cup chats
    /\ removed' = removed \cup chats
    /\ UNCHANGED keepHistory
    /\ persist
    /\ UNCHANGED <<server, busy, sending, loads, files, typedIn>>

\* A request to delete arrives, or is lost.
DeleteSession(s) ==
    /\ s \in deletes
    /\ deletes' = deletes \ {s}
    /\ transcripts' \in {transcripts, Restrict(transcripts, DOMAIN transcripts \ {s})}
    /\ UNCHANGED <<made, list, messages, busy, sending, loads, files, typedIn, removed>>

SetKeepHistory ==
    /\ keepHistory' = ~keepHistory
    /\ UNCHANGED <<chats, activeId>>
    /\ IF keepHistory' THEN persist ELSE kept' = NoChats
    /\ UNCHANGED <<server, deletes, messages, busy, sending, loads, files, typedIn, removed>>

\* The picker is disabled while a message is under way; dropping a file on
\* the page is not.
ChooseFile(f) ==
    /\ f \notin chosen
    /\ staged' = staged \cup {f}
    /\ chosen' = chosen \cup {f}
    /\ UNCHANGED <<server, deletes, list, messages, busy, sending, loads, uploaded, typedIn, removed>>

TakeBack(f) ==
    /\ f \in staged
    /\ staged' = staged \ {f}
    /\ chosen' = chosen \ {f}
    /\ UNCHANGED <<server, deletes, list, messages, busy, sending, loads, uploaded, typedIn, removed>>

\* The page is loaded anew, and opens the conversation it had.
Reload ==
    /\ messages' = {} /\ busy' = FALSE /\ sending' = Nothing
    /\ chats' = (IF keepHistory THEN kept.chats ELSE {})
    /\ activeId' = (IF keepHistory THEN kept.active ELSE Nothing)
    /\ loads' = (IF activeId' = Nothing THEN {} ELSE {Load(activeId')})
    /\ staged' = {} /\ chosen' = {}
    /\ transcripts' \in Leftovers
    /\ UNCHANGED <<made, deletes, keepHistory, kept, uploaded, typedIn, removed>>

-----------------------------------------------------------------------------
Request == Create \/ Upload \/ UploadPartly \/ Read \/ Arrive \/ Answer \/ Reply \/ Fail

PageNext ==
    \/ Send \/ Request
    \/ NewChat \/ ClearAll \/ SetKeepHistory \/ Reload
    \/ \E s \in Sessions : OpenChat(s) \/ RemoveChat(s) \/ DeleteSession(s)
    \/ \E load \in loads : LoadAnswers(load) \/ Loaded(load) \/ LoadFails(load)
    \/ \E f \in Files : ChooseFile(f) \/ TakeBack(f)

\* A request is answered or fails some time.
PageFairness == WF_pageVars(Request)
PageSpec == PageInit /\ [][PageNext]_pageVars /\ PageFairness

-----------------------------------------------------------------------------
\* A message, and the files sent with it, go to the conversation it was typed
\* in, or to one made for it, whatever the visitor opened, started or removed
\* while its requests were under way (send, ensureSession, uploadStaged).
GoesWhereItWasTyped ==
    /\ \A s \in DOMAIN transcripts : \A n \in DOMAIN typedIn : <<"user", n>> \in transcripts[s] =>
        IF typedIn[n] # Nothing THEN typedIn[n] = s
        ELSE \A m \in DOMAIN typedIn : <<"user", m>> \in transcripts[s] => m >= n
    /\ \A u \in uploaded : typedIn[u.n] \in {u.session, Nothing}

\* A conversation the visitor removed is not listed, opened or kept again, by
\* an answer still under way, a reload or a change of settings (removeChat).
RemovedStaysRemoved == removed \cap (chats \cup kept.chats \cup {activeId, kept.active}) = {}

\* While history is off nothing about conversations stays on the device
\* (persist, the keep-history setting).
OffMeansOff == ~keepHistory => kept = NoChats

\* What the visitor removed or switched off is forgotten for good.
ForgottenStaysForgotten == RemovedStaysRemoved /\ OffMeansOff

\* Whatever is under way, the page does what the visitor asked for, with what
\* was typed and with what was removed.
VisitorIsObeyed == GoesWhereItWasTyped /\ ForgottenStaysForgotten

\* Whatever fails, the composer is enabled again (send).
ComposerComesBack == busy ~> ~busy

\* "The messages themselves come from the API, which stays the single source
\* of truth": an answer on screen belongs to the conversation on screen, once
\* all histories have been loaded.  This does not hold (README, Divergences).
ThreadIsTheConversation ==
    loads = {} /\ activeId \in DOMAIN transcripts =>
        \A n \in DOMAIN typedIn : <<"assistant", n>> \in messages => <<"assistant", n>> \in transcripts[activeId]

\* "Files chosen but not yet sent": a file stays staged until it was sent or
\* the visitor took it back.  This does not hold (README, Divergences).
ChosenFilesAreKept == chosen \subseteq staged \cup {u.file : u \in uploaded}
=============================================================================
