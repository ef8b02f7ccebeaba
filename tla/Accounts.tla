------------------------------ MODULE Accounts ------------------------------
(***************************************************************************)
(* The accounts of a server: the handlers of REGISTRATION, AUTHORISATION   *)
(* and SAVE_SETTINGS, the list of accounts, the map of passwords and the   *)
(* file they are written to, and the restart of the program.  A connection *)
(* may log in, register and save in any order and as often as it likes:    *)
(* no handler tests it.  Its fields stay when it changes the account.      *)
(*                                                                         *)
(* loginList_, passwordList_ and credentialList_ are pushed to together    *)
(* and are one sequence of records here.  A handler is up to three steps:  *)
(* the tests, the changes in memory and the rewriting of the file, and up  *)
(* to Threads handlers are between their steps at the same time.  The      *)
(* program may end at any point, also while the file is being written.     *)
(***************************************************************************)
EXTENDS Integers, Sequences, FiniteSets

CONSTANTS
  Client,       \* the client programs
  Login, Password,
  Text,         \* what users write in their profiles
  Blank,        \* the empty string, "#" in messages
  NoPassword,   \* stands for no entry in the map of passwords
  NumFields,    \* fields of a profile, 6 in the code
  Threads,      \* handlers that may run at the same time
  MaxRestarts   \* bound: restarts in a run

ASSUME NumFieldsAssumption == NumFields \in Nat \ {0}
ASSUME NamesAssumption ==
  /\ Blank \notin Text \cup Login
  /\ {Blank, NoPassword} \cap Password = {}
  /\ Blank # NoPassword
ASSUME AccountBounds == Threads \in Nat \ {0} /\ MaxRestarts \in Nat

VARIABLES
  list,        \* Server::loginList_, passwordList_, credentialList_
  credentials, \* Server::credentials, the map of passwords
  file,        \* the file PATH_TO_CREDENTIALS
  session,     \* login and password of the Player of a client
  profile,     \* the other fields of Player::credential_
  at,          \* the step a handler is before, "idle" if none runs
  want,        \* the arguments of the running handler
  restarts,
  accepted,    \* accounts whose owner has been let in, and shown the rooms
  lost,        \* accounts that a write which did not finish has cut off
  saved        \* what was filled in last for an account: registered with, or saved

players == <<session, profile>>
handler == <<at, want>>
history == <<restarts, accepted, lost, saved>>
vars == <<list, credentials, file, players, handler, history>>

Account == Login \X Password
NoAccount == <<>>
Guest == <<"guest">>   \* login and password "guest", which nobody may register
Field == Text \cup Login \cup {Blank}
Profile == [1 .. NumFields -> Field]
EmptyProfile == [f \in 1 .. NumFields |-> Blank]
Credential == UNION {[1 .. n -> Field] : n \in 0 .. NumFields}
Entry == [account : Login \X (Password \cup {Blank}), credential : Credential]

(* Variant: a space at the end makes one more token.                       *)
OneTokenMore(p) == Append(p, Blank)

(* Player::getCredentail and Formatter::split: the last token is not there *)
(* when the last field is empty.                                           *)
Tokens(p) == IF p[NumFields] = Blank THEN SubSeq(p, 1, NumFields - 1) ELSE p

(* Variant: the cases of the switch do not fall through.                   *)
SetOneField(p, tokens) ==
  [f \in 1 .. NumFields |-> IF f = Len(tokens) THEN tokens[f] ELSE p[f]]

(* Player::setCredential: as many fields as there are tokens.              *)
SetFields(p, tokens) ==
  [f \in 1 .. NumFields |-> IF f <= Len(tokens) THEN tokens[f] ELSE p[f]]

(* Variant: the loop ends one entry too early.                             *)
UpdateButLast(entries, account, p) ==
  [i \in 1 .. Len(entries) |->
     IF i < Len(entries) /\ entries[i].account = account
     THEN [entries[i] EXCEPT !.credential = Tokens(p)]
     ELSE entries[i]]

(* Server::updatePlayerCredential, without the file.                       *)
UpdateEntries(entries, account, p) ==
  [i \in 1 .. Len(entries) |->
     IF entries[i].account = account
     THEN [entries[i] EXCEPT !.credential = Tokens(p)]
     ELSE entries[i]]

Init ==
  /\ list = <<>>
  /\ credentials = [l \in Login |-> NoPassword]
  /\ file = <<>>
  /\ session = [c \in Client |-> NoAccount]
  /\ profile = [c \in Client |-> EmptyProfile]
  /\ at = [c \in Client |-> "idle"]
  /\ want = [c \in Client |-> NoAccount]
  /\ restarts = 0
  /\ accepted = {}
  /\ lost = {}
  /\ saved = [a \in Account |-> EmptyProfile]

Running == {c \in Client : at[c] # "idle"}
Quiet == Running = {}

Ready(c) == at[c] = "idle" /\ Cardinality(Running) < Threads

Begin(c, step, account) ==
  /\ at' = [at EXCEPT ![c] = step]
  /\ want' = [want EXCEPT ![c] = account]

End(c) == Begin(c, "idle", NoAccount)

-----------------------------------------------------------------------------
(* Variant: two users may have one login if their passwords differ.        *)
IsBusyWithPassword(account) == credentials[account[1]] = account[2]

IsBusyLogin(account) == credentials[account[1]] # NoPassword

IsRegistrated(account) == credentials[account[1]] = account[2]

(* registerPlayer, of a connection that may have saved a profile or logged *)
(* in before.  A busy login is answered with LOGIN_IS_BUSY, which changes  *)
(* nothing.                                                                *)
TestRegistration(c, account) ==
  /\ Ready(c)
  /\ ~IsBusyLogin(account)
  /\ Begin(c, "register", account)
  /\ UNCHANGED <<list, credentials, file, players, history>>

(* addPlayerCredential in memory.  The account gets what the connection    *)
(* has filled in so far.                                                   *)
AddPlayerCredential(c) ==
  /\ at[c] = "register"
  /\ session' = [session EXCEPT ![c] = want[c]]
  /\ credentials' = [credentials EXCEPT ![want[c][1]] = want[c][2]]
  /\ list' = Append(list, [account |-> want[c], credential |-> Tokens(profile[c])])
  /\ saved' = [saved EXCEPT ![want[c]] = profile[c]]
  /\ Begin(c, "write", want[c])
  /\ UNCHANGED <<file, profile, restarts, accepted, lost>>

(* authorizePlayer.  A wrong password is answered with WRONG_PASSWORD,     *)
(* which changes nothing.                                                  *)
TestAuthorisation(c, account) ==
  /\ Ready(c)
  /\ account \in {Guest} \cup {a \in Account : IsRegistrated(a)}
  /\ Begin(c, "load", account)
  /\ UNCHANGED <<list, credentials, file, players, history>>

(* loadPlayer.  A field without a token keeps what the connection had in   *)
(* it, and what comes of it is stored.  Entries of the same account are    *)
(* given the profile that the first of them has loaded; without one        *)
(* nothing is written.                                                     *)
LoadPlayer(c) ==
  LET own == {i \in 1 .. Len(list) : list[i].account = want[c]}
  IN  /\ at[c] = "load"
      /\ session' = [session EXCEPT ![c] = want[c]]
      /\ \/ /\ own = {}
            /\ End(c)
            /\ UNCHANGED <<profile, list>>
         \/ \E i \in own :
              /\ \A j \in own : i <= j
              /\ profile' = [profile EXCEPT ![c] = SetFields(@, list[i].credential)]
              /\ list' = UpdateEntries(list, want[c], profile'[c])
              /\ Begin(c, "write", want[c])
      /\ UNCHANGED <<file, credentials, history>>

(* SAVE_SETTINGS, also before login and from a guest, whom no entry names. *)
(* More tokens than there are fields set none of them.                     *)
SaveCredentials(c, tokens) ==
  /\ Ready(c)
  /\ profile' = [profile EXCEPT ![c] = SetFields(@, tokens)]
  /\ list' = UpdateEntries(list, session[c], profile'[c])
  /\ Begin(c, "write", NoAccount)
  /\ UNCHANGED <<file, credentials, session, history>>

(* Variant: the answer is sent, and the file is not written.               *)
AnswerOnly(c) ==
  /\ at[c] = "write"
  /\ accepted' = accepted \cup ({want[c]} \cap Account)
  /\ End(c)
  /\ UNCHANGED <<list, credentials, file, players, restarts, lost, saved>>

(* updateCredentialsFile, and the room list as the answer to a login or a  *)
(* registration.  A saved profile is not answered.                         *)
UpdateCredentialsFile(c) ==
  /\ at[c] = "write"
  /\ file' = list
  /\ accepted' = accepted \cup ({want[c]} \cap Account)
  /\ saved' = [a \in Account |-> IF want[c] = NoAccount /\ a = session[c] THEN profile[c]
                                 ELSE saved[a]]
  /\ End(c)
  /\ UNCHANGED <<list, credentials, players, restarts, lost>>

(* The connection ends, and with it the Player.                            *)
Disconnect(c) ==
  /\ Ready(c)
  /\ session' = [session EXCEPT ![c] = NoAccount]
  /\ profile' = [profile EXCEPT ![c] = EmptyProfile]
  /\ UNCHANGED <<list, credentials, file, handler, history>>

(* Server::start reads three lines for an account and puts the first of    *)
(* them, the login, where the third belongs.                               *)
ReadFile(lines) ==
  [i \in 1 .. Len(lines) |-> [lines[i] EXCEPT !.credential = <<lines[i].account[1]>>]]

ReadPassword(entries, l) ==
  LET own == {i \in 1 .. Len(entries) : entries[i].account[1] = l}
  IN  IF own = {} THEN NoPassword
      ELSE entries[CHOOSE i \in own : \A j \in own : j <= i].account[2]

Start ==
  /\ restarts < MaxRestarts
  /\ restarts' = restarts + 1
  /\ list' = ReadFile(file')
  /\ credentials' = [l \in Login |-> ReadPassword(list', l)]
  /\ session' = [c \in Client |-> NoAccount]
  /\ profile' = [c \in Client |-> EmptyProfile]
  /\ at' = [c \in Client |-> "idle"]
  /\ want' = [c \in Client |-> NoAccount]
  /\ UNCHANGED <<accepted, saved>>

(* The program ends, possibly between the steps of handlers, and starts.   *)
Restart ==
  /\ UNCHANGED <<file, lost>>
  /\ Start

(* It ends while updateCredentialsFile writes the lines, each flushed by   *)
(* endl, to the file it has truncated.  A login without the line of its    *)
(* password is read with an empty one.                                     *)
CrashInWrite(c) ==
  /\ at[c] = "write"
  /\ \E n \in 1 .. Len(list) :
       LET whole == SubSeq(list, 1, n - 1)
       IN  file' \in {whole, Append(whole, [list[n] EXCEPT !.account[2] = Blank])}
  /\ lost' = lost \cup {a \in Account : /\ \E i \in 1 .. Len(list) : list[i].account = a
                                       /\ \A i \in 1 .. Len(file') : file'[i].account # a}
  /\ Start

Next ==
  \/ \E c \in Client :
       \/ \E account \in Account : TestRegistration(c, account)
       \/ \E account \in Account \cup {Guest} : TestAuthorisation(c, account)
       \/ AddPlayerCredential(c)
       \/ LoadPlayer(c)
       \/ UpdateCredentialsFile(c)
       \/ CrashInWrite(c)
       \/ \E tokens \in UNION {[1 .. n -> Text \cup {Blank}] : n \in 0 .. NumFields} :
            SaveCredentials(c, tokens)
       \/ Disconnect(c)
  \/ Restart

Spec == Init /\ [][Next]_vars

-----------------------------------------------------------------------------
TypeOK ==
  /\ list \in Seq(Entry)
  /\ file \in Seq(Entry)
  /\ credentials \in [Login -> Password \cup {NoPassword, Blank}]
  /\ session \in [Client -> Account \cup {NoAccount, Guest}]
  /\ profile \in [Client -> Profile]
  /\ at \in [Client -> {"idle", "register", "load", "write"}]
  /\ want \in [Client -> Account \cup {NoAccount, Guest}]
  /\ restarts \in 0 .. MaxRestarts
  /\ accepted \cup lost \subseteq Account
  /\ saved \in [Account -> Profile]

(* The profile that an entry of the list shows.                            *)
Shown(entry) ==
  [f \in 1 .. NumFields |->
     IF f <= Len(entry.credential) THEN entry.credential[f] ELSE Blank]

(* Who has been let in can log in with his login and password ever after,  *)
(* also after the program has been restarted at any point; only a write    *)
(* that did not finish loses accounts (command.cpp:129-163,                *)
(* server.cpp:184-203, 245-260).  Holds when handlers do not overlap.      *)
AcceptedCanLogIn == \A account \in accepted \ lost : IsRegistrated(account)

(* The two memories of the server agree: the map that decides who may log  *)
(* in, and the list profiles are loaded from (server.cpp:239-243,          *)
(* 262-289): every login has at most one entry, with the password of the   *)
(* map, also after a part of the file has been read.  Holds when           *)
(* registrations do not overlap.                                           *)
OneEntryPerLogin ==
  \A l \in Login :
    /\ {list[i].account[2] : i \in {j \in 1 .. Len(list) : list[j].account[1] = l}}
         = {credentials[l]} \ {NoPassword}
    /\ \A i, j \in 1 .. Len(list) :
         list[i].account[1] = l /\ list[j].account[1] = l => i = j

(* Until the program is restarted, what the user of an account has filled  *)
(* in when he registered or saved is what the list has for him, whoever    *)
(* has logged in to his account or left it since; only a last field that   *)
(* he left empty may show something else (player.cpp:150-187,              *)
(* server.cpp:262-310).                                                    *)
SavedProfileIsKept ==
  Quiet /\ restarts = 0 =>
    \A i \in 1 .. Len(list), f \in 1 .. NumFields :
      f < NumFields \/ saved[list[i].account][f] # Blank =>
        Shown(list[i])[f] = saved[list[i].account][f]

(* What a user has filled in survives the program: the list read from the  *)
(* file shows it (README.md:11, server.cpp:184-203).                       *)
SavedProfileSurvives ==
  Quiet => \A i \in 1 .. Len(list), f \in 1 .. NumFields :
    list[i].account \in Account /\ saved[list[i].account][f] # Blank =>
      Shown(list[i])[f] = saved[list[i].account][f]

(* Logging in, registering and leaving change no field that is stored,     *)
(* although loadPlayer writes back what it has read (server.cpp:262-289),  *)
(* whatever the connection has filled in before, and also after a restart  *)
(* has put other tokens there.  Fields behind the last stored token change *)
(* only in the account that is logged in to.                               *)
LoginKeepsProfiles ==
  [][restarts' = restarts /\ (\A c \in Client : at[c] = "idle" => at'[c] # "write") =>
       \A i \in 1 .. Len(list), f \in 1 .. NumFields :
         \/ Shown(list'[i])[f] = Shown(list[i])[f]
         \/ /\ f > Len(list[i].credential)
            /\ \E c \in Client : at[c] = "load" /\ want[c] = list[i].account]_vars
=============================================================================
