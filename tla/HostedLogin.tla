----------------------------- MODULE HostedLogin -----------------------------
(***************************************************************************)
(* Signing in to a hosted hub: a browser through the identity provider,    *)
(* and a desktop through a ticket somebody approves in a browser           *)
(* (packages/hub/auth.js, apps/desktop/account.js).                        *)
(*                                                                         *)
(* A handler that waits (for a body, for the provider) is two steps; so is *)
(* a request of the desktop: the hub handles it, and the answer arrives    *)
(* later or is lost.  A ticket's secret is in the hands of the desktop that*)
(* started it, and its code in those of whoever looks at its screen.       *)
(***************************************************************************)
EXTENDS Integers, FiniteSets

CONSTANTS
  People,     \* who may sign in
  NoPerson,   \* nobody yet
  Tickets,    \* sign-ins of the desktop, each started once
  NoTicket,   \* no sign-in
  Logins,     \* sign-ins of browsers, each started once
  MaxTokens,  \* bound: sessions
  MaxPolls    \* bound: polls in flight

ASSUME LoginAssumption ==
  NoPerson \notin People /\ NoTicket \notin Tickets \cup Logins /\ Tickets \cap Logins = {} /\ {MaxTokens, MaxPolls} \subseteq Nat

VARIABLES
  ticket,    \* hub: sign-ins of desktops
  token,     \* hub: sessions
  login,     \* hub: sign-ins of browsers
  approving, \* hub: approvals whose body is being read
  sockets,   \* hub: sessions with an open socket
  account,   \* desktop: what it waits for and what it keeps
  polls,     \* desktop: polls in flight
  typed,     \* history: who typed the code of which ticket
  left       \* history: sessions signed out

loginVars == <<ticket, token, login, approving, sockets, account, polls, typed, left>>

TokenIds == 1..MaxTokens
NoCall == [pc |-> "idle", of |-> NoTicket, k |-> 0, reply |-> "none"]

LoginInit ==
  /\ ticket = [t \in Tickets |-> [pc |-> "none", user |-> NoPerson]]
  /\ token = [k \in TokenIds |-> [pc |-> "none", user |-> NoPerson, via |-> NoTicket]]
  /\ login = [l \in Logins |-> "none"] /\ approving = {} /\ sockets = {}
  /\ account = [pending |-> NoTicket, saved |-> 0, start |-> NoCall, check |-> NoCall, leave |-> NoCall]
  /\ polls = [i \in 1..MaxPolls |-> NoCall] /\ typed = {} /\ left = {}

(* account: a session that has not run out.                                *)
Live(k) == k # 0 /\ token[k].pc = "live"
SignedIn(p) == \E k \in TokenIds : Live(k) /\ token[k].user = p
FreeTokens == {k \in TokenIds : token[k].pc = "none"}
NewToken == CHOOSE k \in FreeTokens : \A j \in FreeTokens : k <= j
Issued(p, via) == token' = [token EXCEPT ![NewToken] = [pc |-> "live", user |-> p, via |-> via]]

(* A browser signs in.  The state is used up before the provider is asked. *)
LoginStarts(l) ==
  /\ login[l] = "none" /\ login' = [login EXCEPT ![l] = "open"]
  /\ UNCHANGED <<ticket, token, approving, sockets, account, polls, typed, left>>
LoginCallsBack(l) ==
  /\ login[l] = "open" /\ login' = [login EXCEPT ![l] = "asking"]
  /\ UNCHANGED <<ticket, token, approving, sockets, account, polls, typed, left>>
LoginEnds(l, p, ok) ==
  /\ login[l] = "asking" /\ FreeTokens # {} /\ login' = [login EXCEPT ![l] = "used"]
  /\ IF ok THEN Issued(p, l) ELSE UNCHANGED token
  /\ UNCHANGED <<ticket, approving, sockets, account, polls, typed, left>>

-----------------------------------------------------------------------------
(* The desktop asks for a ticket, and somebody approves it.                *)

StartHandled(t) ==
  /\ ticket[t].pc = "none" /\ account.start.pc = "idle"
  /\ ticket' = [ticket EXCEPT ![t].pc = "open"] /\ account' = [account EXCEPT !.start = [NoCall EXCEPT !.pc = "sent", !.of = t]]
  /\ UNCHANGED <<token, login, approving, sockets, polls, typed, left>>
StartReturns(lost) ==
  /\ account.start.pc = "sent"
  /\ account' = [account EXCEPT !.start = NoCall, !.pending = IF lost THEN @ ELSE account.start.of]
  /\ UNCHANGED <<ticket, token, login, approving, sockets, polls, typed, left>>

(* Whether it is approved already is asked before the body is read.        *)
ApprovalBegins(p, t) ==
  /\ SignedIn(p) /\ ticket[t].pc = "open" /\ ticket[t].user = NoPerson
  /\ approving' = approving \cup {<<p, t>>}
  /\ UNCHANGED <<ticket, token, login, sockets, account, polls, typed, left>>
ApprovalEnds(p, t, right) ==
  /\ <<p, t>> \in approving /\ approving' = approving \ {<<p, t>>}
  /\ IF right THEN ticket' = [ticket EXCEPT ![t].user = p] /\ typed' = typed \cup {<<p, t>>} ELSE UNCHANGED <<ticket, typed>>
  /\ UNCHANGED <<token, login, sockets, account, polls, left>>

TicketExpires(t) ==
  /\ ticket[t].pc = "open" /\ ticket' = [ticket EXCEPT ![t].pc = "gone"]
  /\ UNCHANGED <<token, login, approving, sockets, account, polls, typed, left>>

-----------------------------------------------------------------------------
(* The desktop exchanges the ticket for a session.                         *)

PollSent(i) ==
  /\ polls[i].pc = "idle" /\ account.pending # NoTicket
  /\ polls' = [polls EXCEPT ![i] = [NoCall EXCEPT !.pc = "sent", !.of = account.pending]]
  /\ UNCHANGED <<ticket, token, login, approving, sockets, account, typed, left>>

PollAnswered(i, reply, k) == polls' = [polls EXCEPT ![i].pc = "back", ![i].reply = reply, ![i].k = k]

(* Mutant: an exchanged ticket stays.                                      *)
ExchangedAgain(i) ==
  LET t == polls[i].of IN
  /\ polls[i].pc = "sent"
  /\ \/ ticket[t].pc # "open" /\ PollAnswered(i, "error", 0) /\ UNCHANGED <<ticket, token>>
     \/ ticket[t].pc = "open" /\ ticket[t].user = NoPerson /\ PollAnswered(i, "pending", 0) /\ UNCHANGED <<ticket, token>>
     \/ /\ ticket[t].pc = "open" /\ ticket[t].user # NoPerson /\ FreeTokens # {}
        /\ UNCHANGED ticket /\ Issued(ticket[t].user, t) /\ PollAnswered(i, "token", NewToken)
  /\ UNCHANGED <<login, approving, sockets, account, typed, left>>

(* exchange: the ticket goes with its session.                             *)
Exchanged(i) ==
  LET t == polls[i].of IN
  /\ polls[i].pc = "sent"
  /\ \/ ticket[t].pc # "open" /\ PollAnswered(i, "error", 0) /\ UNCHANGED <<ticket, token>>
     \/ ticket[t].pc = "open" /\ ticket[t].user = NoPerson /\ PollAnswered(i, "pending", 0) /\ UNCHANGED <<ticket, token>>
     \/ /\ ticket[t].pc = "open" /\ ticket[t].user # NoPerson /\ FreeTokens # {}
        /\ ticket' = [ticket EXCEPT ![t].pc = "gone"] /\ Issued(ticket[t].user, t) /\ PollAnswered(i, "token", NewToken)
  /\ UNCHANGED <<login, approving, sockets, account, typed, left>>

(* A session for a sign-in that is not the one waited for any more is      *)
(* thrown away, and so is one whose answer is lost.                        *)
PollReturns(i, lost) ==
  /\ polls[i].pc = "back" /\ polls' = [polls EXCEPT ![i] = NoCall]
  /\ account' = IF ~lost /\ polls[i].reply = "token" /\ account.pending = polls[i].of
                THEN [account EXCEPT !.saved = polls[i].k, !.pending = NoTicket] ELSE account
  /\ UNCHANGED <<ticket, token, login, approving, sockets, typed, left>>

-----------------------------------------------------------------------------
(* What the desktop does with a session it keeps.                          *)

CallSent(name) ==
  /\ name \in {"check", "leave"} /\ account[name].pc = "idle" /\ account.saved # 0
  /\ account' = [account EXCEPT ![name] = [NoCall EXCEPT !.pc = "sent", !.k = account.saved]]
  /\ UNCHANGED <<ticket, token, login, approving, sockets, polls, typed, left>>

(* session: a refusal removes the file, whatever is in it by then.         *)
CheckHandled ==
  /\ account.check.pc = "sent"
  /\ account' = [account EXCEPT !.check.pc = "back", !.check.reply = IF Live(account.check.k) THEN "yes" ELSE "no"]
  /\ UNCHANGED <<ticket, token, login, approving, sockets, polls, typed, left>>
CheckReturns(lost) ==
  /\ account.check.pc = "back"
  /\ account' = [account EXCEPT !.check = NoCall, !.saved = IF account.check.reply = "no" /\ ~lost THEN 0 ELSE @]
  /\ UNCHANGED <<ticket, token, login, approving, sockets, polls, typed, left>>

(* logout: the session and its sockets end, then the file is removed.      *)
LogoutHandled ==
  LET k == account.leave.k IN
  /\ account.leave.pc = "sent" /\ account' = [account EXCEPT !.leave.pc = "back"]
  /\ token' = [token EXCEPT ![k].pc = "dead"] /\ sockets' = sockets \ {k} /\ left' = left \cup {k}
  /\ UNCHANGED <<ticket, login, approving, polls, typed>>
LogoutReturns(lost) ==
  /\ account.leave.pc = "back"
  /\ account' = IF lost THEN [account EXCEPT !.leave = NoCall] ELSE [account EXCEPT !.leave = NoCall, !.saved = 0, !.pending = NoTicket]
  /\ UNCHANGED <<ticket, token, login, approving, sockets, polls, typed, left>>

(* A socket says hello with a session; it is closed when the session ends. *)
SocketOpens(k) ==
  /\ Live(k) /\ k \notin sockets /\ sockets' = sockets \cup {k}
  /\ UNCHANGED <<ticket, token, login, approving, account, polls, typed, left>>
TokenExpires(k) ==
  /\ Live(k) /\ token' = [token EXCEPT ![k].pc = "dead"] /\ sockets' = sockets \ {k}
  /\ UNCHANGED <<ticket, login, approving, account, polls, typed, left>>

LoginNext ==
  \/ \E l \in Logins : LoginStarts(l) \/ LoginCallsBack(l) \/ \E p \in People, ok \in BOOLEAN : LoginEnds(l, p, ok)
  \/ \E t \in Tickets : StartHandled(t) \/ TicketExpires(t)
  \/ \E p \in People, t \in Tickets : ApprovalBegins(p, t) \/ \E right \in BOOLEAN : ApprovalEnds(p, t, right)
  \/ \E lost \in BOOLEAN : StartReturns(lost) \/ CheckReturns(lost) \/ LogoutReturns(lost)
  \/ \E i \in 1..MaxPolls : PollSent(i) \/ Exchanged(i) \/ \E lost \in BOOLEAN : PollReturns(i, lost)
  \/ \E name \in {"check", "leave"} : CallSent(name)
  \/ CheckHandled \/ LogoutHandled
  \/ \E k \in TokenIds : SocketOpens(k) \/ TokenExpires(k)

LoginSpec == LoginInit /\ [][LoginNext]_loginVars

-----------------------------------------------------------------------------
(* Every variable has its shape.                                           *)
LoginTypeOK ==
  /\ \A t \in Tickets : ticket[t].pc \in {"none", "open", "gone"} /\ ticket[t].user \in People \cup {NoPerson}
  /\ \A k \in TokenIds : token[k].pc \in {"none", "live", "dead"} /\ token[k].via \in Tickets \cup Logins \cup {NoTicket}
  /\ login \in [Logins -> {"none", "open", "asking", "used"}] /\ approving \subseteq People \X Tickets
  /\ sockets \subseteq TokenIds /\ account.saved \in 0..MaxTokens /\ account.pending \in Tickets \cup {NoTicket}

(* A sign-in makes one session at most, for somebody who typed the code    *)
(* the desktop shows; the desktop keeps only such a session, and none that *)
(* was thrown away for another sign-in comes back; once signed out, a      *)
(* session opens nothing and nothing stays open with it                    *)
(* (auth.js:169-192, 196-199, account.js:46-55, server.js:95-97).          *)
OneSessionEach ==
  /\ \A j, k \in TokenIds : j # k /\ token[j].pc # "none" => token[j].via # token[k].via
  /\ \A k \in TokenIds : token[k].via \in Tickets => <<token[k].user, token[k].via>> \in typed
  /\ account.saved # 0 => token[account.saved].via \in Tickets
  /\ \A k \in left : ~Live(k) /\ k \notin sockets

=============================================================================
