--------------------------- MODULE ChatWorkspace ---------------------------
(***************************************************************************)
(* The chat window of one signed-in user: the friend model (UserMgr) with   *)
(* its paged lists, the chat list and the contact list (ChatDialog,         *)
(* ContactUserList), the open conversation (ChatPage) and the navigation    *)
(* between them.  Everything runs on the UI thread: a handler is one step,  *)
(* and what interleaves are the user, the network's signals and the timers. *)
(* A conversation is kept three times: in the friend model, in the row of   *)
(* the chat list, which copies it when it is created, and as bubbles on the *)
(* page.                                                                    *)
(***************************************************************************)
EXTENDS Integers, Sequences, FiniteSets, SequencesExt

CONSTANTS Users,        \* accounts that are or become friends of the user
          Friends,      \* the friend list the login answer carried
          PageSize,     \* CHAT_COUNT_PER_PAGE
          MaxHistory,   \* MAX_CHAT_HISTORY_MESSAGES
          MaxTexts      \* bound: messages of this session

VARIABLES friends,       \* _friend_list
          hist,          \* _chat_msgs of each FriendInfo
          chatLoaded,    \* _chat_loaded
          contactLoaded, \* _contact_loaded
          rows,          \* the chat list, top first: [uid, msgs]
          added,         \* keys of _chat_items_added
          contacts,      \* the contact list below its heading
          cur,           \* _cur_chat_uid, 0 at first
          page,          \* ChatPage::_user_info: whose conversation is open
          shown,         \* the text bubbles of the page
          texts,         \* messages so far (names the next one)
          loading,       \* _b_loading
          chatWait,      \* _load_pending of the chat list
          contactWait,   \* _load_pending of the contact list
          state,         \* _state
          mode,          \* _mode: which list is visible
          text,          \* the search line is not empty
          pending,       \* SearchList::_send_pending
          stack,         \* chat_data_stacked: the page on the right
          last,          \* _last_widget
          info,          \* the friend on the profile page
          app            \* the event loop runs, or has been told to quit

model == <<friends, hist, chatLoaded, contactLoaded, texts>>
lists == <<rows, added, contacts>>
open  == <<cur, page, shown>>
loads == <<loading, chatWait, contactWait>>
nav   == <<state, mode, text, pending, stack, last, info>>
vars  == <<model, lists, open, loads, nav, app>>

NoUser == 0
Running == app = "running"

-----------------------------------------------------------------------------
(* The friend model. *)

IsFriend(u) == Contains(friends, u)

\* AppendBoundedChatMessage for each message of a batch
AppendBounded(msgs, new) ==
  LET all == msgs \o new
  IN  SubSeq(all, IF Len(all) > MaxHistory THEN Len(all) - MaxHistory + 1 ELSE 1, Len(all))

LoadedAfter(loaded) == IF loaded + PageSize > Len(friends) THEN Len(friends) ELSE loaded + PageSize
UpdateChatLoadedCount == chatLoaded' = LoadedAfter(chatLoaded)
UpdateContactLoadedCount == contactLoaded' = LoadedAfter(contactLoaded)

NextPage(loaded) == SubSeq(friends, loaded + 1, LoadedAfter(loaded))
GetChatListPerPage == NextPage(chatLoaded)
GetConListPerPage == NextPage(contactLoaded)

AppendFriendChatMsg(u, new) ==
  hist' = IF IsFriend(u) THEN [hist EXCEPT ![u] = AppendBounded(@, new)] ELSE hist

AddFriend(u) ==
  /\ friends' = Append(friends, u)
  /\ hist' = [hist EXCEPT ![u] = <<>>]

-----------------------------------------------------------------------------
(* The lists and the page. *)

RowOf(u) == CHOOSE i \in DOMAIN rows : rows[i].uid = u
FriendRow(u) == [uid |-> u, msgs |-> hist[u]]
EmptyRow(u) == [uid |-> u, msgs |-> <<>>]

\* insertItem(0) and _chat_items_added.insert
InsertRow(row) ==
  /\ rows' = <<row>> \o rows
  /\ added' = added \cup {row.uid}

AppendToRow(u, new) ==
  /\ rows' = [rows EXCEPT ![RowOf(u)].msgs = AppendBounded(@, new)]
  /\ UNCHANGED added

\* addChatUserList, LoadMoreChatWid: the rows of a page that are not there yet
PageRows(list, have) == LET fresh == SelectSeq(list, LAMBDA u : u \notin have)
                        IN  [i \in DOMAIN fresh |-> FriendRow(fresh[i])]

\* ContactUserList: below the heading
InsertContact(u) == contacts' = <<u>> \o contacts

\* ChatPage
SetUserInfo(row) == page' = row.uid /\ shown' = row.msgs
AppendChatMsg(new) == shown' = shown \o new

SetSelectChatItem(row) == cur' = row.uid
SetSelectChatPage(row) == SetUserInfo(row)
OpenConversation(row) == SetSelectChatItem(row) /\ SetSelectChatPage(row)

UpdateChatMsg(u, new) == IF u = cur THEN AppendChatMsg(new) ELSE UNCHANGED shown

\* ShowSearch(false): back to the list of the current side
HideSearch(side) == mode' = side

\* slot_side_chat
SideChat ==
  /\ stack' = "chat"
  /\ state' = "chat"
  /\ text' = FALSE
  /\ HideSearch("chat")
  /\ UNCHANGED <<last, info>>

\* slot_jump_chat, slot_jump_chat_again: neither copies the friend's history.
JumpTo(u) ==
  /\ \/ /\ u \in added
        /\ OpenConversation(rows[RowOf(u)])
        /\ UNCHANGED <<rows, added>>
     \/ /\ u \notin added
        /\ InsertRow(EmptyRow(u))
        /\ OpenConversation(EmptyRow(u))
  /\ SideChat
  /\ UNCHANGED contacts

-----------------------------------------------------------------------------
(* Signals of the network. *)

Fresh(k) == [i \in 1 .. k |-> texts + i]

\* slot_chat_msg_changed
TextArrives(u, k) ==
  /\ Running /\ texts + k <= MaxTexts
  /\ texts' = texts + k
  /\ \/ /\ u \in added
        /\ AppendToRow(u, Fresh(k))
        /\ UpdateChatMsg(u, Fresh(k))
        /\ AppendFriendChatMsg(u, Fresh(k))
     \/ /\ u \notin added /\ IsFriend(u)
        /\ InsertRow([FriendRow(u) EXCEPT !.msgs = AppendBounded(@, Fresh(k))])
        /\ AppendFriendChatMsg(u, Fresh(k))
        /\ UNCHANGED shown
     \/ /\ u \notin added /\ ~IsFriend(u)
        /\ UNCHANGED <<rows, added, shown, hist>>
  /\ UNCHANGED <<friends, chatLoaded, contactLoaded, contacts, cur, page, loads, nav, app>>

\* Mutant: ChatDialog's slot runs first, so ContactUserList finds the friend known.
NewFriendModelFirst(u) ==
  /\ Running /\ ~IsFriend(u)
  /\ AddFriend(u)
  /\ InsertRow(EmptyRow(u))
  /\ UNCHANGED <<chatLoaded, contactLoaded, texts, contacts, open, loads, nav, app>>

\* ContactUserList, connected first, adds its row before ChatDialog adds the friend to
\* the model.
NewFriend(u) ==
  /\ Running /\ ~IsFriend(u)
  /\ InsertContact(u)
  /\ AddFriend(u)
  /\ InsertRow(EmptyRow(u))
  /\ UNCHANGED <<chatLoaded, contactLoaded, texts, open, loads, nav, app>>

\* The peer accepted, or a snapshot of the friend list names the peer.
SlotAddAuthFriend(u) == NewFriend(u)
\* This user accepted.
SlotAuthRsp(u) == NewFriend(u)

\* transferAvailable: a file from a friend makes the row its summary is shown on.
FileAvailable(u) ==
  /\ Running /\ IsFriend(u) /\ u \notin added
  /\ InsertRow(FriendRow(u))
  /\ UNCHANGED <<model, contacts, open, loads, nav, app>>

\* SearchList::slot_user_search.  Answers carry no query: any account may come,
\* or none.
SearchAnswer(u) ==
  /\ Running /\ pending
  /\ pending' = FALSE
  /\ \/ IsFriend(u) /\ JumpTo(u)
     \/ ~IsFriend(u) /\ UNCHANGED <<lists, open, state, mode, text, stack, last, info>>
  /\ UNCHANGED <<model, loads, app>>

-----------------------------------------------------------------------------
(* The user. *)

\* The early returns are excluded by CopiesAgree: the open conversation has a row.
SlotAppendSendChatMsg(new) == AppendToRow(cur, new) /\ AppendFriendChatMsg(cur, new)

\* ChatPage::on_send_btn_clicked
SendText ==
  /\ Running /\ page # NoUser /\ stack = "chat" /\ texts < MaxTexts
  /\ texts' = texts + 1
  /\ SlotAppendSendChatMsg(Fresh(1))
  /\ AppendChatMsg(Fresh(1))
  /\ UNCHANGED <<friends, chatLoaded, contactLoaded, contacts, cur, page, loads, nav, app>>

\* ChatDialog::slot_item_clicked
ClickRow(i) ==
  /\ Running /\ mode = "chat"
  /\ OpenConversation(rows[i])
  /\ UNCHANGED <<model, lists, loads, nav, app>>

SlotSwitchFriendInfoPage(u) == info' = u /\ stack' = "info" /\ last' = "info"

\* ContactUserList::slot_item_clicked
ClickContact(i) ==
  /\ Running /\ mode = "contact"
  /\ SlotSwitchFriendInfoPage(contacts[i])
  /\ UNCHANGED <<model, lists, open, loads, state, mode, text, pending, app>>

\* slot_switch_apply_friend_page
ClickNewFriends ==
  /\ Running /\ mode = "contact"
  /\ stack' = "apply" /\ last' = "apply"
  /\ UNCHANGED <<model, lists, open, loads, state, mode, text, pending, info, app>>

\* The button of FriendInfoPage and slot_jump_chat_again
StartChat ==
  /\ Running /\ stack = "info"
  /\ JumpTo(info)
  /\ UNCHANGED <<model, loads, pending, app>>

\* ChatWindow::showMessages
ShowMessages ==
  /\ Running /\ SideChat
  /\ UNCHANGED <<model, lists, open, loads, pending, app>>

\* slot_side_contact, and slot_switch_apply_friend_page when an application waits
SideContact(badge) ==
  /\ last' = IF badge \/ last = "none" THEN "apply" ELSE last
  /\ stack' = last'
  /\ state' = "contact"
  /\ text' = FALSE
  /\ HideSearch("contact")

\* ChatWindow::showContacts
ShowContacts(badge) ==
  /\ Running /\ SideContact(badge)
  /\ UNCHANGED <<model, lists, open, loads, pending, info, app>>

\* textChanged of the search line
TypeSearch ==
  /\ Running /\ ~text
  /\ text' = TRUE /\ mode' = "search"
  /\ UNCHANGED <<model, lists, open, loads, state, pending, stack, last, info, app>>

\* The clear action, and handleglobeQmousePress outside the result list
LeaveSearch ==
  /\ Running /\ mode = "search"
  /\ text' = FALSE /\ HideSearch(state)
  /\ UNCHANGED <<model, lists, open, loads, state, pending, stack, last, info, app>>

\* The + button and ApplyFriendPage's button
OpenSearch ==
  /\ Running /\ mode' = "search"
  /\ UNCHANGED <<model, lists, open, loads, state, text, pending, stack, last, info, app>>

\* SearchList::search, and the ten seconds of waitPending
Search ==
  /\ Running /\ mode = "search" /\ text /\ ~pending
  /\ pending' = TRUE
  /\ UNCHANGED <<model, lists, open, loads, state, mode, text, stack, last, info, app>>

SearchTimeout ==
  /\ Running /\ pending
  /\ pending' = FALSE
  /\ UNCHANGED <<model, lists, open, loads, state, mode, text, stack, last, info, app>>

-----------------------------------------------------------------------------
(* Paging. *)

SlotLoadingChatUser == loading' = TRUE

\* ChatUserList::eventFilter at the bottom
ScrollChats ==
  /\ Running /\ mode = "chat"
  /\ chatLoaded < Len(friends) /\ ~chatWait
  /\ chatWait' = TRUE
  /\ SlotLoadingChatUser
  /\ UNCHANGED <<model, lists, open, contactWait, nav, app>>

\* The 100 ms timer of ChatUserList also tells the application to quit.
ChatWaitOver ==
  /\ chatWait
  /\ chatWait' = FALSE
  /\ app' = "quitting"
  /\ UNCHANGED <<model, lists, open, loading, contactWait, nav>>

\* The 500 ms timer and LoadMoreChatWid.  It is due after the other one; both run only
\* when they fall into one pass of the event loop.
LoadMoreChats ==
  /\ loading /\ ~chatWait
  /\ LET new == PageRows(GetChatListPerPage, added)
     IN  /\ rows' = rows \o new
         /\ added' = added \cup {new[i].uid : i \in DOMAIN new}
  /\ UpdateChatLoadedCount
  /\ loading' = FALSE
  /\ UNCHANGED <<friends, hist, contactLoaded, texts, contacts, open, chatWait, contactWait, nav, app>>

LoadMoreConWid ==
  /\ contacts' = contacts \o SelectSeq(GetConListPerPage, LAMBDA u : ~Contains(contacts, u))
  /\ UpdateContactLoadedCount

SlotLoadingContactUser ==
  \/ loading /\ UNCHANGED <<contacts, contactLoaded>>
  \/ ~loading /\ LoadMoreConWid

\* ContactUserList::eventFilter at the bottom
ScrollContacts ==
  /\ Running /\ mode = "contact"
  /\ contactLoaded < Len(friends) /\ ~contactWait
  /\ contactWait' = TRUE
  /\ SlotLoadingContactUser
  /\ UNCHANGED <<friends, hist, chatLoaded, texts, rows, added, open, loading, chatWait, nav, app>>

ContactWaitOver ==
  /\ Running /\ contactWait
  /\ contactWait' = FALSE
  /\ UNCHANGED <<model, lists, open, loading, chatWait, nav, app>>

-----------------------------------------------------------------------------
\* ContactUserList::addContactUserList
AddContactUserList == contactLoaded = LoadedAfter(0) /\ contacts = NextPage(0)

\* The login handler fills the model; the constructors load the first page and open
\* the first conversation.
Init ==
  /\ friends = Friends
  /\ hist = [u \in Users |-> IF Contains(Friends, u) THEN <<0>> ELSE <<>>]
  /\ AddContactUserList
  /\ chatLoaded = LoadedAfter(0) /\ rows = PageRows(NextPage(0), {})
  /\ added = ToSet(NextPage(0))
  /\ IF rows = <<>> THEN cur = NoUser /\ page = NoUser /\ shown = <<>>
     ELSE cur = rows[1].uid /\ page = rows[1].uid /\ shown = rows[1].msgs
  /\ texts = 0
  /\ loading = FALSE /\ chatWait = FALSE /\ contactWait = FALSE
  /\ state = "chat" /\ mode = "chat" /\ text = FALSE /\ pending = FALSE
  /\ stack = "chat" /\ last = "none" /\ info = NoUser
  /\ app = "running"

Next ==
  \/ \E u \in Users, k \in 1 .. 2 : TextArrives(u, k)
  \/ \E u \in Users : SlotAddAuthFriend(u) \/ SlotAuthRsp(u) \/ FileAvailable(u)
  \/ \E u \in Users \cup {NoUser} : SearchAnswer(u)
  \/ SendText \/ StartChat
  \/ \E i \in DOMAIN rows : ClickRow(i)
  \/ \E i \in DOMAIN contacts : ClickContact(i)
  \/ ClickNewFriends \/ ShowMessages \/ \E badge \in BOOLEAN : ShowContacts(badge)
  \/ TypeSearch \/ LeaveSearch \/ OpenSearch \/ Search \/ SearchTimeout
  \/ ScrollChats \/ ChatWaitOver \/ LoadMoreChats \/ ScrollContacts \/ ContactWaitOver

Spec == Init /\ [][Next]_vars

\* Timers fire.
Timers == WF_vars(ChatWaitOver) /\ WF_vars(LoadMoreChats) /\ WF_vars(ContactWaitOver)
TimedSpec == Spec /\ Timers

-----------------------------------------------------------------------------
\* Every variable has its type.
TypeOK ==
  /\ friends \in Seq(Users) /\ hist \in [Users -> Seq(0 .. MaxTexts)]
  /\ chatLoaded \in 0 .. Len(friends) /\ contactLoaded \in 0 .. Len(friends)
  /\ rows \in Seq([uid : Users, msgs : Seq(0 .. MaxTexts)]) /\ added \subseteq Users
  /\ contacts \in Seq(Users)
  /\ cur \in Users \cup {NoUser} /\ page \in Users \cup {NoUser} /\ shown \in Seq(0 .. MaxTexts)
  /\ texts \in 0 .. MaxTexts
  /\ loading \in BOOLEAN /\ chatWait \in BOOLEAN /\ contactWait \in BOOLEAN
  /\ state \in {"chat", "contact"} /\ mode \in {"chat", "contact", "search"}
  /\ text \in BOOLEAN /\ pending \in BOOLEAN
  /\ stack \in {"chat", "apply", "info"} /\ last \in {"none", "apply", "info"}
  /\ info \in Users \cup {NoUser} /\ app \in {"running", "quitting"}

\* Paging skips nobody: a friend who is in the part of the friend list that counts as
\* loaded, or who became one during the session, is in the list.
NobodyIsSkipped ==
  \A i \in DOMAIN friends :
    /\ i <= contactLoaded \/ i > Len(Friends) => Contains(contacts, friends[i])
    /\ i <= chatLoaded \/ i > Len(Friends) => friends[i] \in added

\* docs/ARCHITECTURE.md: the login restores the recent messages of every friend.  A
\* conversation opened in the chat list shows the history the model holds.
HistoryIsShown == \A i \in DOMAIN rows : rows[i].msgs = hist[rows[i].uid]

\* ChatUserList: reaching the bottom loads more conversations, and the list goes on
\* from there.
ScrollLoadsMore == chatWait ~> (~loading /\ Running)
=============================================================================
