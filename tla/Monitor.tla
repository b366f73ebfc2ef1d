------------------------------ MODULE Monitor ------------------------------
(***************************************************************************)
(* How the memory statistics of the servers reach the pages of the web UI. *)
(*                                                                         *)
(*   server --MEM_CHANGE--> epoll thread of the watcher --apps_info-->     *)
(*   inform thread --TCP--> Netty handler --WebSocket--> page              *)
(*                                                                         *)
(* The epoll thread stores a report into apps_info entry by entry, and the *)
(* inform thread, every two seconds and without a lock, makes a JSON text  *)
(* of apps_info, writes it as a buffer of fixed size, whose tail is what   *)
(* earlier texts left there, and waits for an answer.  The web server cuts *)
(* what it receives at each newline, parses it, remembers the result and   *)
(* sends it to all sessions one after the other; a page that opens its     *)
(* session is sent what is remembered by another thread.                   *)
(*                                                                         *)
(* The sizes in a report are abstracted by the number of the report: entry *)
(* j of report k is k.  A JSON text is a sequence of tokens: its braces,   *)
(* and two tokens, its DRAM and its NVM, for each app of each server, with *)
(* the name of the app.                                                    *)
(***************************************************************************)
EXTENDS Integers, FiniteSets, Sequences, FiniteSetsExt, SequencesExt

CONSTANTS
  Nets,        \* config.nets_cnt, the number of servers
  Pages,       \* the pages of the web UI
  MaxApps,     \* bound: clients of a server at a time
  MaxClients,  \* DHMP_MAX_CLIENT_NUM, the entries of apps_info[i]
  Buf,         \* BUFSIZ-1 in tokens
  Pipe,        \* the buffers the TCP connection takes before write blocks
  MaxReports,  \* bound: reports of a server
  MaxInbox     \* the messages a session's connection takes before it blocks

Servers == 1 .. Nets

ASSUME NetsAssumption == Nets \in Nat \ {0}
ASSUME AppsAssumption ==
  MaxApps \in Nat /\ MaxClients \in Nat /\ MaxApps <= MaxClients
ASSUME BufAssumption == Buf \in Nat
ASSUME BoundAssumption ==
  MaxReports \in Nat /\ MaxInbox \in Nat \ {0} /\ Pipe \in Nat \ {0}
\* With more apps than this the text would be written past send_buff.
ASSUME FitAssumption == 2 * Nets * MaxApps + 4 <= Buf

VARIABLES
  reported,    \* the reports of each server: how many apps each of them lists
  taken,       \* how many of them the watcher has handled
  storing,     \* the report being stored: its server, the next entry
  info,        \* watcher->apps_info
  num,         \* watcher->cur_app_num
  informer,    \* where the inform thread is
  draft,       \* the JSON text it is making, and the server it is at
  sendBuff,    \* watcher->send_buff
  stream,      \* what the web server's decoder has not cut yet
  replied,     \* whether there is an answer to read
  pre,         \* preMemoryInfos
  casting,     \* the message the Netty handler is in broadCastInfo with, if any
  todo,        \* the sessions it has still to look at
  sessions,    \* WebSocketServer.sessions, in their order
  page,        \* where the session of each page is
  hello,       \* what its open() is about to send
  busy,        \* who is in sendText of the session
  inbox,       \* the messages under way to the page
  rows,        \* the table of the page: the apps of each server in it
  cards        \* the cards that are open, and what each shows

watch == <<taken, storing, info, num>>
inform == <<informer, draft, sendBuff>>
netty == <<pre, casting, todo>>
web == <<sessions, page, hello, busy>>
shown == <<rows, cards>>
vars == <<reported, watch, inform, stream, replied, netty, web, inbox, shown>>

Reports == 1 .. MaxReports
Nobody == [server |-> 0, entry |-> 0]
NoDraft == [text |-> [i \in Servers |-> <<>>], at |-> 1]
Nothing == <<>>              \* a map without entries
Lists == Seq(Reports \cup {0})
\* A token of a text: a figure of an app of a server, or a character
Token(kind, i, j, used) == [kind |-> kind, server |-> i, app |-> j, used |-> used]
Mark(kind) == Token(kind, 0, 0, 0)
\* A map from servers to the apps of each
IsMemory(m) == DOMAIN m \subseteq Servers /\ \A i \in DOMAIN m : m[i] \in Lists

Init ==
  /\ reported = [i \in Servers |-> <<>>]
  /\ taken = [i \in Servers |-> 0]
  /\ storing = Nobody
  /\ info = [i \in Servers |-> [j \in 1 .. MaxClients |-> 0]]
  /\ num = 0
  /\ informer = "json"
  /\ draft = NoDraft
  /\ sendBuff = [k \in 1 .. Buf |-> Mark("nul")]
  /\ stream = <<>>
  /\ replied = FALSE
  /\ pre = Nothing /\ casting = <<>> /\ todo = <<>>
  /\ sessions = <<>>
  /\ page = [b \in Pages |-> "none"]
  /\ hello = [b \in Pages |-> Nothing]
  /\ busy = [b \in Pages |-> "nobody"]
  /\ inbox = [b \in Pages |-> <<>>]
  /\ rows = [b \in Pages |-> Nothing]
  /\ cards = [b \in Pages |-> Nothing]

----------------------------------------------------------------------------
\* The servers (module Connections), as far as the watcher sees them

AppsIn(i) == IF reported[i] = <<>> THEN 0 ELSE Last(reported[i])

\* dhmp_inform_watcher_func, which is called when a pair has gone or an
\* account has changed: any number of pairs may have come since the last call.
Report(i) == \E n \in 0 .. MaxApps :
  /\ Len(reported[i]) < MaxReports
  /\ n >= AppsIn(i) - 1
  /\ reported' = [reported EXCEPT ![i] = Append(@, n)]
  /\ UNCHANGED <<watch, inform, stream, replied, netty, web, inbox, shown>>

----------------------------------------------------------------------------
\* The watcher

\* dhmp_mem_change_handle, in the epoll thread: the entries, one by one ...
Take(i) ==
  /\ storing = Nobody /\ taken[i] < Len(reported[i])
  /\ taken' = [taken EXCEPT ![i] = @ + 1]
  /\ storing' = [server |-> i, entry |-> 1]
  /\ UNCHANGED <<reported, info, num, inform, stream, replied, netty, web,
                 inbox, shown>>

StoreEntry ==
  /\ storing # Nobody
  /\ LET i == storing.server
         j == storing.entry
     IN  /\ j <= reported[i][taken[i]]
         /\ info' = [info EXCEPT ![i][j] = taken[i]]
         /\ storing' = [storing EXCEPT !.entry = j + 1]
  /\ UNCHANGED <<reported, taken, num, inform, stream, replied, netty, web,
                 inbox, shown>>

\* ... and then the one cur_app_num there is for all servers.
StoreNum ==
  /\ storing # Nobody
  /\ LET n == reported[storing.server][taken[storing.server]]
     IN  /\ storing.entry = n + 1
         /\ num' = n
  /\ storing' = Nobody
  /\ UNCHANGED <<reported, taken, info, inform, stream, replied, netty, web,
                 inbox, shown>>

\* dhmp_get_json_data: the apps of a server while j<cur_app_num, then the
\* next server.  Before the first of these steps the thread reads its timer.
SlipCounted(j) == j <= num + 1
Counted(j) == j <= num

ReadInfo ==
  /\ informer = "json" /\ draft.at \in Servers
  /\ LET i == draft.at
         j == Len(draft.text[i]) + 1
     IN  draft' = IF Counted(j)
                  THEN [draft EXCEPT !.text[i] = Append(@, info[i][j])]
                  ELSE [draft EXCEPT !.at = i + 1]
  /\ UNCHANGED <<reported, watch, informer, sendBuff, stream, replied, netty,
                 web, inbox, shown>>

\* The tokens of a text
AppTokens(i, apps) ==
  FlattenSeq([j \in DOMAIN apps |-> <<Token("dram", i, j, apps[j]),
                                      Token("nvm", i, j, apps[j])>>])
Json(text) ==
  <<Mark("begin")>> \o FlattenSeq([i \in Servers |-> AppTokens(i, text[i])])
    \o <<Mark("end")>>

\* memcpy, the newline, the NUL; the rest of the buffer stays.
Fill(buff, s) ==
  [k \in DOMAIN buff |->
     IF k <= Len(s) THEN s[k]
     ELSE IF k = Len(s) + 1 THEN Mark("nl")
     ELSE IF k = Len(s) + 2 THEN Mark("nul")
     ELSE buff[k]]

\* dhmp_inform_tcp_server up to write; read waits for an answer.
Write ==
  /\ informer = "json" /\ draft.at \notin Servers
  /\ Len(stream) < Pipe * Buf
  /\ sendBuff' = Fill(sendBuff, Json(draft.text))
  /\ stream' = stream \o sendBuff'
  /\ informer' = "reading"
  /\ draft' = NoDraft
  /\ UNCHANGED <<reported, watch, replied, netty, web, inbox, shown>>

ReadReply ==
  /\ informer = "reading" /\ replied
  /\ informer' = "json"
  /\ replied' = FALSE
  /\ UNCHANGED <<reported, watch, draft, sendBuff, stream, netty, web, inbox,
                 shown>>

----------------------------------------------------------------------------
\* The Netty handler

Newlines == {k \in DOMAIN stream : stream[k] = Mark("nl")}

\* String.trim removes what is not above a blank, and so the NULs.
SlipTrimmed(s) == s
Trimmed(s) ==
  LET kept == {k \in DOMAIN s : s[k] # Mark("nul")}
  IN  IF kept = {} THEN <<>> ELSE SubSeq(s, Min(kept), Max(kept))

\* A tail of a text is not a map of maps, whatever brace it begins with.
Parses(s) == Len(s) >= 2 /\ Head(s) = Mark("begin") /\ Last(s) = Mark("end")
AppsOf(s, i) ==
  LET mine == {t \in ToSet(s) : t.kind = "nvm" /\ t.server = i}
  IN  [j \in {t.app : t \in mine} |-> (CHOOSE t \in mine : t.app = j).used]
FormatMsg(s) == [i \in Servers |-> AppsOf(s, i)]

\* The message is made of preMemoryInfos, which has been assigned before.
SlipBroadcast(s) == <<pre>>
Broadcast(s) == <<FormatMsg(s)>>

\* The next frame: what does not parse is answered with an error, and
\* what does is remembered before it is broadcast.
Refuse == replied' = TRUE

ChannelRead ==
  /\ casting = <<>> /\ Newlines # {}
  /\ LET n == Min(Newlines)
     IN  \E msg \in {Trimmed(SubSeq(stream, 1, n - 1))} :
           /\ stream' = SubSeq(stream, n + 1, Len(stream))
           /\ IF Parses(msg)
              THEN /\ pre' = FormatMsg(msg)
                   /\ casting' = Broadcast(msg) /\ todo' = sessions
                   /\ UNCHANGED replied
              ELSE Refuse /\ UNCHANGED netty
  /\ UNCHANGED <<reported, watch, inform, web, inbox, shown>>

Session == Head(todo)
IsOpen(b) == page[b] \in {"added", "wrapped", "open"}

\* broadCastInfo passes a session that is closed, ...
Skip ==
  /\ casting # <<>> /\ todo # <<>> /\ ~IsOpen(Session)
  /\ busy[Session] # "push"
  /\ todo' = Tail(todo)
  /\ UNCHANGED <<reported, watch, inform, stream, replied, pre, casting, web,
                 inbox, shown>>

\* ... and is in sendText of one that is open.
BeginPush ==
  /\ casting # <<>> /\ todo # <<>> /\ IsOpen(Session)
  /\ busy[Session] = "nobody"
  /\ busy' = [busy EXCEPT ![Session] = "push"]
  /\ UNCHANGED <<reported, watch, inform, stream, replied, netty, sessions,
                 page, hello, inbox, shown>>

\* sendText blocks while the connection takes no more; one that has been
\* closed meanwhile makes it throw an IOException, which is logged.
SlipRoom(b) == TRUE
Room(b) == Len(inbox[b]) < MaxInbox
Deliver(b, kind, data) ==
  inbox' = [inbox EXCEPT ![b] = Append(@, [kind |-> kind, data |-> data])]
EndPush ==
  /\ casting # <<>> /\ todo # <<>> /\ busy[Session] = "push"
  /\ \/ IsOpen(Session) /\ Room(Session) /\ Deliver(Session, "push", casting[1])
     \/ ~IsOpen(Session) /\ UNCHANGED inbox
  /\ busy' = [busy EXCEPT ![Session] = "nobody"]
  /\ todo' = Tail(todo)
  /\ UNCHANGED <<reported, watch, inform, stream, replied, pre, casting,
                 sessions, page, hello, shown>>

\* A session that another thread is sending on throws an
\* IllegalStateException, which ends the broadcast.
Collide ==
  /\ casting # <<>> /\ todo # <<>> /\ IsOpen(Session) /\ busy[Session] = "hello"
  /\ casting' = <<>> /\ todo' = <<>>
  /\ Refuse
  /\ UNCHANGED <<reported, watch, inform, stream, pre, web, inbox, shown>>

Success ==
  /\ casting # <<>> /\ todo = <<>>
  /\ casting' = <<>>
  /\ replied' = TRUE
  /\ UNCHANGED <<reported, watch, inform, stream, pre, todo, web, inbox,
                 shown>>

----------------------------------------------------------------------------
\* The sessions

\* WebSocketServer.open: the session is added, ...
Open(b) ==
  /\ page[b] = "none"
  /\ page' = [page EXCEPT ![b] = "added"]
  /\ sessions' = Append(sessions, b)
  /\ UNCHANGED <<reported, watch, inform, stream, replied, netty, hello, busy,
                 inbox, shown>>

\* ... then preMemoryInfos is read ...
Wrap(b) ==
  /\ page[b] = "added"
  /\ page' = [page EXCEPT ![b] = "wrapped"]
  /\ hello' = [hello EXCEPT ![b] = pre]
  /\ UNCHANGED <<reported, watch, inform, stream, replied, netty, sessions,
                 busy, inbox, shown>>

\* ... and sent, unless a broadcast is sending: then the container closes the
\* session.
BeginHello(b) ==
  /\ page[b] = "wrapped" /\ busy[b] # "hello"
  /\ \/ /\ busy[b] = "nobody"
        /\ busy' = [busy EXCEPT ![b] = "hello"]
        /\ UNCHANGED <<page, hello>>
     \/ /\ busy[b] = "push"
        /\ page' = [page EXCEPT ![b] = "closed"]
        /\ hello' = [hello EXCEPT ![b] = Nothing]
        /\ UNCHANGED busy
  /\ UNCHANGED <<reported, watch, inform, stream, replied, netty, sessions,
                 inbox, shown>>

EndHello(b) ==
  /\ busy[b] = "hello" /\ Room(b)
  /\ page' = [page EXCEPT ![b] = "open"]
  /\ busy' = [busy EXCEPT ![b] = "nobody"]
  /\ hello' = [hello EXCEPT ![b] = Nothing]
  /\ Deliver(b, "hello", hello[b])
  /\ UNCHANGED <<reported, watch, inform, stream, replied, netty, sessions,
                 shown>>

\* The user leaves the page; close() leaves the session in sessions.
Close(b) ==
  /\ page[b] = "open"
  /\ page' = [page EXCEPT ![b] = "closed"]
  /\ inbox' = [inbox EXCEPT ![b] = <<>>]
  /\ rows' = [rows EXCEPT ![b] = Nothing]
  /\ cards' = [cards EXCEPT ![b] = Nothing]
  /\ UNCHANGED <<reported, watch, inform, stream, replied, netty, sessions,
                 hello, busy>>

----------------------------------------------------------------------------
\* The page

\* addOrUpdateTableRow keeps one row for each server.
TableAfter(b, data) ==
  [i \in DOMAIN rows[b] \cup DOMAIN data |->
     IF i \in DOMAIN data THEN data[i] ELSE rows[b][i]]

\* updateCard: of the servers in the message, those whose card is open.
SlipCardsAfter(b, data) ==
  [i \in DOMAIN cards[b] |->
     IF i \in DOMAIN data /\ data[i] # <<>> THEN data[i] ELSE cards[b][i]]
CardsAfter(b, data) ==
  [i \in DOMAIN cards[b] |->
     IF i \in DOMAIN data THEN data[i] ELSE cards[b][i]]

\* onmessage, and handlerMsg
OnMessage(b) ==
  /\ inbox[b] # <<>>
  /\ inbox' = [inbox EXCEPT ![b] = Tail(@)]
  /\ LET data == Head(inbox[b]).data
     IN  /\ rows' = [rows EXCEPT ![b] = TableAfter(b, data)]
         /\ cards' = [cards EXCEPT ![b] = CardsAfter(b, data)]
  /\ UNCHANGED <<reported, watch, inform, stream, replied, netty, web>>

\* A click on ShowApps, and on the x of a card
ShowApps(b, i) ==
  /\ i \in DOMAIN rows[b] \ DOMAIN cards[b]
  /\ cards' = [cards EXCEPT ![b] =
                 [k \in DOMAIN @ \cup {i} |->
                    IF k = i THEN rows[b][i] ELSE @[k]]]
  /\ UNCHANGED <<reported, watch, inform, stream, replied, netty, web, inbox,
                 rows>>

RemoveCard(b, i) ==
  /\ i \in DOMAIN cards[b]
  /\ cards' = [cards EXCEPT ![b] = [k \in DOMAIN @ \ {i} |-> @[k]]]
  /\ UNCHANGED <<reported, watch, inform, stream, replied, netty, web, inbox,
                 rows>>

----------------------------------------------------------------------------

EpollSteps == StoreEntry \/ StoreNum \/ \E i \in Servers : Take(i)
InformSteps == ReadInfo \/ Write \/ ReadReply
NettySteps == ChannelRead \/ Skip \/ BeginPush \/ EndPush \/ Collide \/ Success
OpenSteps(b) == Wrap(b) \/ BeginHello(b) \/ EndHello(b)

Next ==
  \/ \E i \in Servers : Report(i)
  \/ EpollSteps \/ InformSteps \/ NettySteps
  \/ \E b \in Pages :
       \/ Open(b) \/ OpenSteps(b) \/ Close(b) \/ OnMessage(b)
       \/ \E i \in Servers : ShowApps(b, i) \/ RemoveCard(b, i)

Spec == Init /\ [][Next]_vars

\* Threads run, the timer fires, and a page handles its messages; nobody has
\* to report, to open or close a page, or to click.
FairSpec ==
  /\ Spec
  /\ WF_vars(EpollSteps) /\ WF_vars(InformSteps) /\ WF_vars(NettySteps)
  /\ \A b \in Pages : WF_vars(OpenSteps(b)) /\ WF_vars(OnMessage(b))

----------------------------------------------------------------------------
\* Properties

\* Every variable has its type.
TypeOK ==
  /\ reported \in [Servers -> Seq(0 .. MaxApps)]
  /\ taken \in [Servers -> 0 .. MaxReports]
  /\ storing \in [server : {0} \cup Servers, entry : 0 .. MaxApps + 1]
  /\ info \in [Servers -> [1 .. MaxClients -> {0} \cup Reports]]
  /\ num \in 0 .. MaxApps
  /\ informer \in {"json", "reading"}
  /\ draft.text \in [Servers -> Lists] /\ draft.at \in 1 .. Nets + 1
  /\ DOMAIN sendBuff = 1 .. Buf /\ DOMAIN stream = 1 .. Len(stream)
  /\ replied \in BOOLEAN
  /\ IsMemory(pre) /\ \A k \in DOMAIN casting : IsMemory(casting[k])
  /\ todo \in Seq(Pages) /\ sessions \in Seq(Pages)
  /\ page \in [Pages -> {"none", "added", "wrapped", "open", "closed"}]
  /\ busy \in [Pages -> {"nobody", "hello", "push"}]
  /\ \A b \in Pages :
       /\ IsMemory(hello[b]) /\ IsMemory(rows[b]) /\ IsMemory(cards[b])
       /\ Len(inbox[b]) <= MaxInbox
       /\ \A k \in DOMAIN inbox[b] : IsMemory(inbox[b][k].data)

\* Every figure on a page is one that the server has reported for this app:
\* neither the tail of an older text, nor what was in apps_info before.
NothingInvented == \A b \in Pages : \A i \in DOMAIN rows[b] :
  \A j \in DOMAIN rows[b][i] :
    /\ rows[b][i][j] \in DOMAIN reported[i]
    /\ j <= reported[i][rows[b][i][j]]

\* An open card shows what the row of its server shows.
CardFollowsRow == \A b \in Pages :
  \A i \in DOMAIN cards[b] : i \in DOMAIN rows[b] /\ cards[b][i] = rows[b][i]

\* A figure on a page goes back to an older report only by what open() sends
\* to it, which may have been read before a broadcast and sent after it.
BackOnlyByHello == [][
  \A b \in Pages : \A i \in DOMAIN rows[b] \cap DOMAIN rows'[b] :
    \A j \in DOMAIN rows[b][i] \cap DOMAIN rows'[b][i] :
      rows'[b][i][j] < rows[b][i][j] => Head(inbox[b]).kind = "hello"]_vars

\* What the last reports of the servers say.
Latest(i) ==
  [j \in 1 .. AppsIn(i) |-> Len(reported[i])]

\* A page that stays open comes to show what each server reported last, and
\* that for good: no torn text, aborted broadcast or late hello outlives the
\* next round of the timer, and the inform thread always gets its answer.
PageCatchesUp == \A b \in Pages : <>[](page[b] = "open" =>
  \A i \in Servers : reported[i] # <<>> =>
    i \in DOMAIN rows[b] /\ rows[b][i] = Latest(i))

\* When the watcher has stored all reports, what it sends of each server is
\* what this server's clients use now: no figure of an older report, though
\* entries that were never set may count nothing.
UsedIsCurrent ==
  storing = Nobody /\ (\A i \in Servers : taken[i] = Len(reported[i])) =>
    \A i \in Servers : \A j \in 1 .. num :
      info[i][j] \in {0, Len(reported[i])}
=============================================================================
