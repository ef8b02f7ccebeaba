--------------------------- MODULE Accounts_proofs ---------------------------
(***************************************************************************)
(* Theorems about Accounts: for any number of clients, logins, passwords,  *)
(* texts, fields and restarts, whatever users write and wherever the       *)
(* program ends.                                                           *)
(*                                                                         *)
(* The types hold however handlers overlap.  The other theorems are about  *)
(* handlers that do not (Threads = 1); with two threads they are false.    *)
(***************************************************************************)
EXTENDS Accounts, TLAPS, SequenceTheorems, WellFoundedInduction, FiniteSetTheorems

(* A registration is for an account that somebody may have.                *)
Registering == \A c \in Client : at[c] = "register" => want[c] \in Account

TypeInv == TypeOK /\ Registering

(* The accounts of a list or of the file, and that no login has two.       *)
AccountsOf(entries) == {entries[i].account : i \in 1 .. Len(entries)}
LoginsDiffer(entries) ==
  \A i, j \in 1 .. Len(entries) : entries[i].account[1] = entries[j].account[1] => i = j

(* One handler runs at a time.                                             *)
OneAtATime == \A c, d \in Client : at[c] # "idle" /\ at[d] # "idle" => c = d

(* The map and the list agree: an entry has the password of the map, and   *)
(* a login with a password has an entry.                                   *)
MapAgrees ==
  /\ LoginsDiffer(list)
  /\ \A i \in 1 .. Len(list) : credentials[list[i].account[1]] = list[i].account[2]
  /\ \A l \in Login : credentials[l] # NoPassword =>
       \E i \in 1 .. Len(list) : list[i].account[1] = l

(* The file is behind by at most what a handler is about to write, and     *)
(* who was let in is in both.                                              *)
FileAgrees ==
  /\ LoginsDiffer(file)
  /\ accepted \ lost \subseteq AccountsOf(list) \cap AccountsOf(file)

(* What the running handler has found out still holds: the login is free,  *)
(* or the account is in the list.                                          *)
FoundHolds ==
  /\ \A c \in Client : at[c] = "register" => credentials[want[c][1]] = NoPassword
  /\ \A c \in Client : at[c] \in {"register", "load"} => want[c] # NoAccount
  /\ \A c \in Client : at[c] \in {"load", "write"} /\ want[c] \in Account =>
       want[c] \in AccountsOf(list)
  /\ \A c \in Client : session[c] \in Account => session[c] \in AccountsOf(list)

(* Until a restart an entry has a token for every field but an empty last  *)
(* one, and shows what was saved last, or what is about to be.             *)
Saving(c) == at[c] = "write" /\ want[c] = NoAccount
Kept(entry, p) ==
  \A f \in 1 .. NumFields : f < NumFields \/ p[f] # Blank => Shown(entry)[f] = p[f]
ProfilesAgree ==
  restarts = 0 =>
    \A i \in 1 .. Len(list) :
      /\ list[i].account \in Account
      /\ Len(list[i].credential) >= NumFields - 1
      /\ \A c \in Client : Saving(c) /\ session[c] = list[i].account =>
           Shown(list[i]) = profile[c]
      /\ (\A c \in Client : ~(Saving(c) /\ session[c] = list[i].account)) =>
           Kept(list[i], saved[list[i].account])

SerialInv == OneAtATime /\ MapAgrees /\ FileAgrees /\ FoundHolds /\ ProfilesAgree


-----------------------------------------------------------------------------
(* Profiles and lists.                                                     *)

(* A non-empty set of natural numbers has a least element.                 *)
LEMMA LeastNumber ==
  ASSUME NEW S, S \subseteq Nat, S # {}
  PROVE  \E x \in S : \A y \in S : x <= y
  <1> DEFINE R == OpToRel(<, Nat)
  <1>1. PICK x \in S : \A y \in S : ~(<<y, x>> \in R)
    BY WFMin, NatLessThanWellFounded
  <1>2. \A y \in S : <<y, x>> \in R <=> y < x
    BY DEF OpToRel
  <1> HIDE DEF R
  <1>3. \A y \in S : ~(y < x)
    BY <1>1, <1>2
  <1> QED BY <1>3

(* A function on 1 .. n is a sequence of length n.                         *)
LEMMA FunctionIsSeq ==
  ASSUME NEW S, NEW n \in Nat, NEW f \in [1 .. n -> S]
  PROVE  f \in Seq(S) /\ Len(f) = n
  BY SeqDef

(* A credential is a sequence of at most NumFields fields.                 *)
LEMMA CredentialLength ==
  ASSUME NEW t \in Credential
  PROVE  /\ Len(t) \in 0 .. NumFields
         /\ \A f \in 1 .. Len(t) : t[f] \in Field
  <1>1. PICK n \in 0 .. NumFields : t \in [1 .. n -> Field]
    BY DEF Credential
  <1>2. n \in Nat /\ n <= NumFields
    BY NumFieldsAssumption
  <1>3. t \in Seq(Field) /\ Len(t) = n
    BY <1>1, <1>2, FunctionIsSeq
  <1> QED BY <1>1, <1>2, <1>3

(* Setting fields makes a profile of a profile.                            *)
LEMMA SetFieldsFits ==
  ASSUME NEW p \in Profile, NEW t \in Credential
  PROVE  SetFields(p, t) \in Profile
  <1>1. /\ Len(t) \in Nat
        /\ \A f \in 1 .. Len(t) : t[f] \in Field
    BY CredentialLength, NumFieldsAssumption
  <1>2. \A f \in 1 .. NumFields : f <= Len(t) => t[f] \in Field
    BY <1>1, NumFieldsAssumption
  <1> QED BY <1>2 DEF SetFields, Profile

(* What is stored of a profile, and that nothing is lost by that: only an  *)
(* empty last field is not stored.                                         *)
LEMMA TokensFit ==
  ASSUME NEW p \in Profile
  PROVE  /\ Tokens(p) \in Credential
         /\ Len(Tokens(p)) >= NumFields - 1
         /\ \A e : e.credential = Tokens(p) => Shown(e) = p
  <1> DEFINE m == NumFields - 1
  <1>1. /\ NumFields \in Nat /\ m \in Nat /\ m \in 0 .. NumFields /\ NumFields \in 0 .. NumFields
        /\ m + 1 = NumFields
    BY NumFieldsAssumption
  <1>2. p \in [1 .. NumFields -> Field] /\ p \in Seq(Field) /\ Len(p) = NumFields
    BY <1>1, FunctionIsSeq DEF Profile
  <1>3. CASE p[NumFields] # Blank
    <2>1. Tokens(p) = p
      BY <1>3 DEF Tokens
    <2>2. p \in Credential
      BY <1>1, <1>2 DEF Credential
    <2>3. \A e : e.credential = p => Shown(e) = p
      BY <1>1, <1>2 DEF Shown
    <2>4. Len(p) >= NumFields - 1
      BY <1>1, <1>2
    <2> QED BY <2>1, <2>2, <2>3, <2>4
  <1>4. CASE p[NumFields] = Blank
    <2>1. Tokens(p) = SubSeq(p, 1, m)
      BY <1>4 DEF Tokens
    <2>2. \A i \in 1 .. m : p[i] \in Field
      BY <1>1, <1>2
    <2>3. /\ SubSeq(p, 1, m) \in Seq(Field)
          /\ Len(SubSeq(p, 1, m)) = m
          /\ \A i \in 1 .. m : SubSeq(p, 1, m)[i] = p[i]
      <3>1. /\ SubSeq(p, 1, m) \in Seq(Field)
            /\ Len(SubSeq(p, 1, m)) = IF 1 <= m THEN m - 1 + 1 ELSE 0
            /\ \A i \in 1 .. m - 1 + 1 : SubSeq(p, 1, m)[i] = p[1 + i - 1]
        BY <1>1, <2>2, SubSeqProperties
      <3>2. (IF 1 <= m THEN m - 1 + 1 ELSE 0) = m /\ m - 1 + 1 = m
        BY <1>1
      <3>3. \A i \in 1 .. m : 1 + i - 1 = i
        BY <1>1
      <3> QED BY <3>1, <3>2, <3>3
    <2>4. SubSeq(p, 1, m) \in [1 .. m -> Field]
      BY <2>3, LenProperties
    <2>5. SubSeq(p, 1, m) \in Credential
      BY <1>1, <2>4 DEF Credential
    <2>6. ASSUME NEW e, e.credential = SubSeq(p, 1, m) PROVE Shown(e) = p
      <3>1. \A f \in 1 .. NumFields : f <= m => f \in 1 .. m
        BY <1>1
      <3>2. \A f \in 1 .. NumFields : ~(f <= m) => f = NumFields
        BY <1>1
      <3>3. \A f \in 1 .. NumFields :
              (IF f <= Len(e.credential) THEN e.credential[f] ELSE Blank) = p[f]
        BY <1>4, <2>3, <2>6, <3>1, <3>2
      <3> HIDE DEF m
      <3> QED BY <1>2, <3>3 DEF Shown
    <2>7. Len(SubSeq(p, 1, m)) >= NumFields - 1
      BY <1>1, <2>3
    <2> QED BY <2>1, <2>5, <2>6, <2>7
  <1> QED BY <1>3, <1>4

(* A profile that is loaded has the fields that the entry has tokens for.  *)
LEMMA LoadedIsShown ==
  ASSUME NEW p, NEW e, NEW f \in 1 .. NumFields, f <= Len(e.credential)
  PROVE  SetFields(p, e.credential)[f] = Shown(e)[f]
  BY DEF SetFields, Shown

(* A field without a token shows nothing.                                  *)
LEMMA BehindIsBlank ==
  ASSUME NEW e, NEW f \in 1 .. NumFields, ~(f <= Len(e.credential))
  PROVE  Shown(e)[f] = Blank
  BY DEF Shown

(* An entry that shows what is kept.                                       *)
LEMMA ShownIsKept ==
  ASSUME NEW e, NEW p, Shown(e) = p
  PROVE  Kept(e, p)
  BY DEF Kept

(* Entries of other accounts are left alone by updatePlayerCredential.     *)
LEMMA UpdateKeepsAccounts ==
  ASSUME NEW entries \in Seq(Entry), NEW account, NEW p \in Profile,
         NEW new, new = UpdateEntries(entries, account, p)
  PROVE  /\ new \in Seq(Entry)
         /\ Len(new) = Len(entries)
         /\ \A i \in 1 .. Len(entries) :
              /\ new[i].account = entries[i].account
              /\ entries[i].account # account => new[i] = entries[i]
              /\ entries[i].account = account =>
                   Shown(new[i]) = p /\ Len(new[i].credential) >= NumFields - 1
  <1>1. /\ Len(entries) \in Nat
        /\ \A i \in 1 .. Len(entries) : entries[i] \in Entry
    BY LenProperties, ElementOfSeq
  <1>2. \A i \in 1 .. Len(entries) :
          new[i] = IF entries[i].account = account
                   THEN [entries[i] EXCEPT !.credential = Tokens(p)] ELSE entries[i]
    BY DEF UpdateEntries
  <1>3. ASSUME NEW e \in Entry
        PROVE  /\ [e EXCEPT !.credential = Tokens(p)] \in Entry
               /\ [e EXCEPT !.credential = Tokens(p)].account = e.account
               /\ [e EXCEPT !.credential = Tokens(p)].credential = Tokens(p)
    BY TokensFit DEF Entry
  <1>4. new \in [1 .. Len(entries) -> Entry]
    BY <1>1, <1>3 DEF UpdateEntries
  <1>5. new \in Seq(Entry) /\ Len(new) = Len(entries)
    BY <1>1, <1>4, FunctionIsSeq
  <1>6. ASSUME NEW i \in 1 .. Len(entries)
        PROVE  /\ new[i].account = entries[i].account
               /\ entries[i].account # account => new[i] = entries[i]
               /\ entries[i].account = account =>
                    Shown(new[i]) = p /\ Len(new[i].credential) >= NumFields - 1
    <2>1. CASE entries[i].account # account
      BY <1>2, <2>1
    <2>2. CASE entries[i].account = account
      <3>1. new[i].credential = Tokens(p) /\ new[i].account = entries[i].account
        BY <1>1, <1>2, <1>3, <2>2
      <3> QED BY <2>2, <3>1, TokensFit
    <2> QED BY <2>1, <2>2
  <1> QED BY <1>5, <1>6

(* The list read at a start has the accounts of the file.                  *)
LEMMA ReadFileKeepsAccounts ==
  ASSUME NEW lines \in Seq(Entry), NEW new, new = ReadFile(lines)
  PROVE  /\ new \in Seq(Entry)
         /\ Len(new) = Len(lines)
         /\ \A i \in 1 .. Len(lines) : new[i].account = lines[i].account
  <1>1. /\ Len(lines) \in Nat
        /\ \A i \in 1 .. Len(lines) : lines[i] \in Entry
    BY LenProperties, ElementOfSeq
  <1>2. ASSUME NEW e \in Entry
        PROVE  /\ [e EXCEPT !.credential = <<e.account[1]>>] \in Entry
               /\ [e EXCEPT !.credential = <<e.account[1]>>].account = e.account
    <2>1. e.account[1] \in Field /\ 1 \in 0 .. NumFields
      BY NumFieldsAssumption DEF Entry, Field
    <2>2. <<e.account[1]>> \in [1 .. 1 -> Field]
      BY <2>1
    <2>3. <<e.account[1]>> \in Credential
      BY <2>1, <2>2 DEF Credential
    <2> QED BY <2>3 DEF Entry
  <1>3. new \in [1 .. Len(lines) -> Entry]
    BY <1>1, <1>2 DEF ReadFile
  <1>4. new \in Seq(Entry) /\ Len(new) = Len(lines)
    BY <1>1, <1>3, FunctionIsSeq
  <1>5. \A i \in 1 .. Len(lines) : new[i].account = lines[i].account
    BY <1>1, <1>2 DEF ReadFile
  <1> QED BY <1>4, <1>5

(* Two lists with the same accounts, entry by entry.                       *)
LEMMA SameAccounts ==
  ASSUME NEW l, NEW m, Len(m) = Len(l),
         \A i \in 1 .. Len(l) : m[i].account = l[i].account
  PROVE  /\ AccountsOf(m) = AccountsOf(l)
         /\ LoginsDiffer(l) => LoginsDiffer(m)
  BY DEF AccountsOf, LoginsDiffer

-----------------------------------------------------------------------------
(* The types, however the handlers overlap.                                *)

(* What a message of SAVE_SETTINGS may set are tokens.                     *)
Message == UNION {[1 .. n -> Text \cup {Blank}] : n \in 0 .. NumFields}

(* A message holds what it is sent for.                                    *)
LEMMA MessageIsCredential == Message \subseteq Credential
  <1>1. \A n \in 0 .. NumFields :
          [1 .. n -> Text \cup {Blank}] \subseteq [1 .. n -> Field]
    BY DEF Field
  <1> QED BY <1>1 DEF Message, Credential

(* A handler begins or ends.                                               *)
LEMMA BeginTypes ==
  ASSUME at \in [Client -> {"idle", "register", "load", "write"}],
         want \in [Client -> Account \cup {NoAccount, Guest}], Registering,
         NEW c \in Client, NEW step \in {"idle", "register", "load", "write"},
         NEW account \in Account \cup {NoAccount, Guest},
         step = "register" => account \in Account,
         Begin(c, step, account)
  PROVE  /\ at' \in [Client -> {"idle", "register", "load", "write"}]
         /\ want' \in [Client -> Account \cup {NoAccount, Guest}]
         /\ Registering'
  BY DEF Begin, Registering

(* The two tests.                                                          *)
LEMMA TestTypes ==
  ASSUME TypeInv, NEW c \in Client, NEW account \in Account \cup {Guest},
         \/ account \in Account /\ TestRegistration(c, account)
         \/ TestAuthorisation(c, account)
  PROVE  TypeInv'
  <1>1. \E step \in {"register", "load"} :
          Begin(c, step, account) /\ (step = "register" => account \in Account)
    BY DEF TestRegistration, TestAuthorisation
  <1>2. UNCHANGED <<list, credentials, file, session, profile, restarts, accepted, lost, saved>>
    BY DEF TestRegistration, TestAuthorisation, players, history
  <1> QED BY <1>1, <1>2, BeginTypes DEF TypeInv, TypeOK

(* addPlayerCredential.                                                    *)
LEMMA AddTypes ==
  ASSUME TypeInv, NEW c \in Client, AddPlayerCredential(c)
  PROVE  TypeInv'
  <1>1. /\ at[c] = "register" /\ want[c] \in Account
        /\ session' = [session EXCEPT ![c] = want[c]]
        /\ credentials' = [credentials EXCEPT ![want[c][1]] = want[c][2]]
        /\ list' = Append(list, [account |-> want[c], credential |-> Tokens(profile[c])])
        /\ Begin(c, "write", want[c])
        /\ saved' = [saved EXCEPT ![want[c]] = profile[c]]
        /\ UNCHANGED <<file, profile, restarts, accepted, lost>>
    BY DEF AddPlayerCredential, TypeInv, Registering
  <1>2. [account |-> want[c], credential |-> Tokens(profile[c])] \in Entry
    BY <1>1, TokensFit DEF Entry, Account, TypeInv, TypeOK
  <1>3. list' \in Seq(Entry)
    BY <1>1, <1>2, AppendProperties DEF TypeInv, TypeOK
  <1>4. /\ session' \in [Client -> Account \cup {NoAccount, Guest}]
        /\ credentials' \in [Login -> Password \cup {NoPassword, Blank}]
        /\ saved' \in [Account -> Profile]
    BY <1>1 DEF TypeInv, TypeOK, Account
  <1> QED BY <1>1, <1>3, <1>4, BeginTypes DEF TypeInv, TypeOK

(* loadPlayer.                                                             *)
LEMMA LoadTypes ==
  ASSUME TypeInv, NEW c \in Client, LoadPlayer(c)
  PROVE  TypeInv'
  <1>1. /\ session' = [session EXCEPT ![c] = want[c]]
        /\ UNCHANGED <<file, credentials, restarts, accepted, lost, saved>>
        /\ want[c] \in Account \cup {NoAccount, Guest}
    BY DEF LoadPlayer, history, TypeInv, TypeOK
  <1>2. CASE Begin(c, "idle", NoAccount) /\ UNCHANGED <<profile, list>>
    BY <1>1, <1>2, BeginTypes DEF TypeInv, TypeOK
  <1>3. ASSUME NEW i \in 1 .. Len(list),
               profile' = [profile EXCEPT ![c] = SetFields(@, list[i].credential)],
               list' = UpdateEntries(list, want[c], profile'[c]),
               Begin(c, "write", want[c])
        PROVE  TypeInv'
    <2>1. list[i] \in Entry /\ list[i].credential \in Credential
      <3>1. list[i] \in Entry
        BY ElementOfSeq DEF TypeInv, TypeOK
      <3> QED BY <3>1 DEF Entry
    <2>2. profile' \in [Client -> Profile]
      BY <1>3, <2>1, SetFieldsFits DEF TypeInv, TypeOK
    <2>3. list' \in Seq(Entry)
      BY <1>3, <2>2, UpdateKeepsAccounts DEF TypeInv, TypeOK
    <2> QED BY <1>1, <1>3, <2>2, <2>3, BeginTypes DEF TypeInv, TypeOK
  <1> QED BY <1>2, <1>3 DEF LoadPlayer, End

(* SAVE_SETTINGS.                                                          *)
LEMMA SaveTypes ==
  ASSUME TypeInv, NEW c \in Client, NEW tokens \in Message, SaveCredentials(c, tokens)
  PROVE  TypeInv'
  <1>1. /\ profile' = [profile EXCEPT ![c] = SetFields(@, tokens)]
        /\ list' = UpdateEntries(list, session[c], profile'[c])
        /\ Begin(c, "write", NoAccount)
        /\ UNCHANGED <<file, credentials, session, restarts, accepted, lost, saved>>
    BY DEF SaveCredentials, history
  <1>2. profile' \in [Client -> Profile]
    BY <1>1, MessageIsCredential, SetFieldsFits DEF TypeInv, TypeOK
  <1>3. list' \in Seq(Entry)
    BY <1>1, <1>2, UpdateKeepsAccounts DEF TypeInv, TypeOK
  <1> QED BY <1>1, <1>2, <1>3, BeginTypes DEF TypeInv, TypeOK

(* The file is written.                                                    *)
LEMMA WriteTypes ==
  ASSUME TypeInv, NEW c \in Client, UpdateCredentialsFile(c)
  PROVE  TypeInv'
  <1>1. /\ file' = list
        /\ accepted' = accepted \cup ({want[c]} \cap Account)
        /\ saved' = [a \in Account |-> IF want[c] = NoAccount /\ a = session[c] THEN profile[c]
                                       ELSE saved[a]]
        /\ Begin(c, "idle", NoAccount)
        /\ UNCHANGED <<list, credentials, session, profile, restarts, lost>>
    BY DEF UpdateCredentialsFile, End, players
  <1>2. saved' \in [Account -> Profile]
    BY <1>1 DEF TypeInv, TypeOK
  <1> QED BY <1>1, <1>2, BeginTypes DEF TypeInv, TypeOK

(* A connection ends.                                                      *)
LEMMA DisconnectTypes ==
  ASSUME TypeInv, NEW c \in Client, Disconnect(c)
  PROVE  TypeInv'
  <1>1. EmptyProfile \in Profile
    BY DEF EmptyProfile, Profile, Field
  <1> QED BY <1>1 DEF Disconnect, handler, history, TypeInv, TypeOK, Registering

(* The program starts and reads a file.                                    *)
LEMMA StartTypes ==
  ASSUME TypeInv, Start, file' \in Seq(Entry), lost' \subseteq Account
  PROVE  TypeInv'
  <1>1. list' \in Seq(Entry)
    BY ReadFileKeepsAccounts DEF Start
  <1>2. ASSUME NEW l \in Login
        PROVE  ReadPassword(list', l) \in Password \cup {NoPassword, Blank}
    <2> DEFINE own == {i \in 1 .. Len(list') : list'[i].account[1] = l}
    <2>1. ASSUME own # {}
          PROVE  \E i \in own : \A j \in own : j <= i
      <3>1. Len(list') \in Nat
        BY <1>1, LenProperties
      <3> DEFINE gaps == {Len(list') - i : i \in own}
      <3>2. gaps \subseteq Nat /\ gaps # {}
        BY <2>1, <3>1
      <3>3. PICK g \in gaps : \A k \in gaps : g <= k
        BY <3>2, LeastNumber
      <3>4. PICK i \in own : g = Len(list') - i
        BY <3>3
      <3>5. ASSUME NEW j \in own PROVE j <= i
        <4>1. Len(list') - j \in gaps
          OBVIOUS
        <4>2. g <= Len(list') - j
          BY <3>3, <4>1
        <4>3. i \in Int /\ j \in Int
          OBVIOUS
        <4> HIDE DEF own, gaps
        <4> QED BY <3>1, <3>4, <4>2, <4>3
      <3> QED BY <3>5
    <2>2. CASE own = {}
      BY <2>2 DEF ReadPassword
    <2>3. CASE own # {}
      <3>1. (CHOOSE i \in own : \A j \in own : j <= i) \in own
        BY <2>1, <2>3
      <3>2. PICK i \in own : ReadPassword(list', l) = list'[i].account[2]
        BY <2>3, <3>1 DEF ReadPassword
      <3>3. list'[i] \in Entry
        BY <1>1, ElementOfSeq
      <3> QED BY <3>2, <3>3 DEF Entry
    <2> QED BY <2>2, <2>3
  <1>3. credentials' \in [Login -> Password \cup {NoPassword, Blank}]
    BY <1>2 DEF Start
  <1>4. EmptyProfile \in Profile
    BY DEF EmptyProfile, Profile, Field
  <1>5. restarts' \in 0 .. MaxRestarts
    BY AccountBounds DEF Start, TypeInv, TypeOK
  <1>6. /\ session' \in [Client -> Account \cup {NoAccount, Guest}]
        /\ profile' \in [Client -> Profile]
        /\ at' \in [Client -> {"idle", "register", "load", "write"}]
        /\ want' \in [Client -> Account \cup {NoAccount, Guest}]
        /\ Registering'
    BY <1>4 DEF Start, Registering
  <1> QED BY <1>1, <1>3, <1>5, <1>6 DEF Start, TypeInv, TypeOK

(* A connection that ends, a start and a crash of the program.             *)
LEMMA CrashTypes ==
  ASSUME TypeInv, NEW c \in Client, CrashInWrite(c)
  PROVE  /\ TypeInv'
         /\ LoginsDiffer(list) => LoginsDiffer(file')
  <1>1. PICK n \in 1 .. Len(list) :
          file' \in {SubSeq(list, 1, n - 1),
                     Append(SubSeq(list, 1, n - 1), [list[n] EXCEPT !.account[2] = Blank])}
    BY DEF CrashInWrite
  <1> DEFINE m == n - 1
             whole == SubSeq(list, 1, m)
             half == [list[n] EXCEPT !.account[2] = Blank]
  <1>2. /\ list \in Seq(Entry) /\ Len(list) \in Nat
        /\ n \in Nat /\ m \in Nat /\ m + 1 = n /\ n <= Len(list)
        /\ \A i \in 1 .. Len(list) : list[i] \in Entry
    BY LenProperties, ElementOfSeq DEF TypeInv, TypeOK
  <1>3. half \in Entry /\ half.account[1] = list[n].account[1]
    <2>1. PICK l \in Login, w \in Password \cup {Blank} : list[n].account = <<l, w>>
      BY <1>2 DEF Entry
    <2>2. [list[n].account EXCEPT ![2] = Blank] = <<l, Blank>>
      BY <2>1
    <2>3. half = [list[n] EXCEPT !.account = <<l, Blank>>]
      BY <1>2, <2>2 DEF Entry
    <2> QED BY <1>2, <2>1, <2>3 DEF Entry
  <1>4. /\ whole \in Seq(Entry) /\ Len(whole) = m
        /\ \A i \in 1 .. m : whole[i] = list[i]
    <2>1. \A i \in 1 .. m : list[i] \in Entry
      BY <1>2
    <2>2. /\ whole \in Seq(Entry)
          /\ Len(whole) = IF 1 <= m THEN m - 1 + 1 ELSE 0
          /\ \A i \in 1 .. m - 1 + 1 : whole[i] = list[1 + i - 1]
      BY <1>2, <2>1, SubSeqProperties
    <2>3. /\ (IF 1 <= m THEN m - 1 + 1 ELSE 0) = m
          /\ m - 1 + 1 = m
          /\ \A i \in 1 .. m : 1 + i - 1 = i
      BY <1>2
    <2> QED BY <2>2, <2>3
  <1>5. /\ Append(whole, half) \in Seq(Entry)
        /\ Len(Append(whole, half)) = m + 1
        /\ \A i \in 1 .. m : Append(whole, half)[i] = list[i]
        /\ Append(whole, half)[m + 1] = half
    BY <1>3, <1>4, AppendProperties
  <1>6. /\ file' \in Seq(Entry)
        /\ Len(file') \in 0 .. n
        /\ \A i \in 1 .. Len(file') : /\ i \in 1 .. Len(list)
                                      /\ file'[i].account[1] = list[i].account[1]
    <2> HIDE DEF whole, half, m
    <2>1. CASE file' = whole
      BY <1>2, <1>4, <2>1
    <2>2. CASE file' = Append(whole, half)
      <3>1. \A i \in 1 .. n : i \in 1 .. m \/ i = n
        BY <1>2
      <3> QED BY <1>2, <1>3, <1>5, <2>2, <3>1
    <2> QED BY <1>1, <2>1, <2>2 DEF whole, half, m
  <1>7. LoginsDiffer(list) => LoginsDiffer(file')
    BY <1>6 DEF LoginsDiffer
  <1>8. lost' \subseteq Account /\ Start
    BY DEF CrashInWrite, TypeInv, TypeOK
  <1> QED BY <1>6, <1>7, <1>8, StartTypes

(* Every step keeps the types.                                             *)
LEMMA NextTypes == ASSUME TypeInv, [Next]_vars PROVE TypeInv'
  <1>1. ASSUME Restart PROVE TypeInv'
    BY <1>1, StartTypes DEF Restart, TypeInv, TypeOK
  <1>2. CASE UNCHANGED vars
    BY <1>2 DEF vars, players, handler, history, TypeInv, TypeOK, Registering
  <1> QED
    BY <1>1, <1>2, TestTypes, AddTypes, LoadTypes, SaveTypes, WriteTypes, DisconnectTypes,
       CrashTypes DEF Next, Message

(* The server starts with nobody connected and nothing running.            *)
LEMMA InitTypes == ASSUME Init PROVE TypeInv
  <1>1. <<>> \in Seq(Entry)
    BY EmptySeq
  <1>2. EmptyProfile \in Profile
    BY DEF EmptyProfile, Profile, Field
  <1>3. 0 \in 0 .. MaxRestarts
    BY AccountBounds
  <1> QED BY <1>1, <1>2, <1>3 DEF Init, TypeInv, TypeOK, Registering

(* Every variable keeps its type, however the handlers overlap and         *)
(* wherever the program ends.                                              *)
THEOREM AccountTypes == Spec => []TypeOK
  <1>1. Spec => []TypeInv
    BY InitTypes, NextTypes, PTL DEF Spec
  <1>2. TypeInv => TypeOK
    BY DEF TypeInv
  <1> QED BY <1>1, <1>2, PTL

-----------------------------------------------------------------------------
(* Handlers that do not overlap.                                           *)

(* A guest and nobody are no accounts; no password means no account.       *)
LEMMA NamesDiffer ==
  /\ Guest \notin Account /\ NoAccount \notin Account /\ Guest # NoAccount
  /\ \A e \in Entry : e.account[2] # NoPassword /\ e.account # Guest /\ e.account # NoAccount
  BY NamesAssumption DEF Guest, NoAccount, Account, Entry

(* A handler that begins is alone.                                         *)
LEMMA BeginsAlone ==
  ASSUME Threads = 1, OneAtATime, NEW c \in Client, Ready(c)
  PROVE  \A d \in Client : at[d] = "idle"
  <1> SUFFICES ASSUME NEW d \in Client, at[d] # "idle" PROVE FALSE
    OBVIOUS
  <1>1. Running = {d}
    BY DEF Running, OneAtATime
  <1>2. Cardinality({d}) = 1
    BY FS_Singleton
  <1> QED BY <1>1, <1>2 DEF Ready

(* The last password of a login in a list is its only one.                 *)
LEMMA ReadPasswordFinds ==
  ASSUME NEW entries, LoginsDiffer(entries), NEW i \in 1 .. Len(entries)
  PROVE  ReadPassword(entries, entries[i].account[1]) = entries[i].account[2]
  <1> DEFINE own == {j \in 1 .. Len(entries) : entries[j].account[1] = entries[i].account[1]}
  <1>1. own = {i}
    BY DEF LoginsDiffer
  <1>2. (CHOOSE k \in own : \A j \in own : j <= k) = i
    BY <1>1
  <1> QED BY <1>1, <1>2 DEF ReadPassword

(* The program starts with a list and a map that agree.                    *)
LEMMA StartSerial ==
  ASSUME TypeInv, Start, file' \in Seq(Entry), LoginsDiffer(file'),
         accepted \ lost' \subseteq AccountsOf(file')
  PROVE  SerialInv'
  <1>1. /\ list' = ReadFile(file')
        /\ credentials' = [l \in Login |-> ReadPassword(list', l)]
        /\ session' = [c \in Client |-> NoAccount]
        /\ at' = [c \in Client |-> "idle"]
        /\ accepted' = accepted /\ restarts' = restarts + 1 /\ restarts \in Nat
    BY DEF Start, TypeInv, TypeOK
  <1>2. /\ list' \in Seq(Entry) /\ Len(list') = Len(file')
        /\ \A i \in 1 .. Len(file') : list'[i].account = file'[i].account
    BY <1>1, ReadFileKeepsAccounts
  <1>3. AccountsOf(list') = AccountsOf(file') /\ LoginsDiffer(list')
    BY <1>2, SameAccounts
  <1>4. \A i \in 1 .. Len(list') : list'[i] \in Entry
    BY <1>2, ElementOfSeq
  <1>5. MapAgrees'
    <2>1. \A i \in 1 .. Len(list') : credentials'[list'[i].account[1]] = list'[i].account[2]
      BY <1>1, <1>3, <1>4, ReadPasswordFinds DEF Entry
    <2>2. \A l \in Login : credentials'[l] # NoPassword =>
            \E i \in 1 .. Len(list') : list'[i].account[1] = l
      BY <1>1 DEF ReadPassword
    <2> QED BY <1>3, <2>1, <2>2 DEF MapAgrees
  <1>6. OneAtATime' /\ FileAgrees' /\ FoundHolds'
    BY <1>1, <1>3, NamesDiffer DEF OneAtATime, FileAgrees, FoundHolds
  <1>7. ProfilesAgree'
    BY <1>1 DEF ProfilesAgree
  <1> QED BY <1>5, <1>6, <1>7 DEF SerialInv

(* A handler begins with a test, and what it has found holds.              *)
LEMMA TestSerial ==
  ASSUME Threads = 1, TypeInv, SerialInv, NEW c \in Client, NEW account \in Account \cup {Guest},
         \/ account \in Account /\ TestRegistration(c, account)
         \/ TestAuthorisation(c, account)
  PROVE  SerialInv'
  <1>1. /\ UNCHANGED <<list, credentials, file, session, profile, restarts, accepted, lost, saved>>
        /\ Ready(c)
        /\ \E step \in {"register", "load"} :
             /\ Begin(c, step, account)
             /\ step = "register" => credentials[account[1]] = NoPassword
             /\ step = "load" /\ account \in Account => credentials[account[1]] = account[2]
    BY NamesDiffer DEF TestRegistration, TestAuthorisation, IsBusyLogin, IsRegistrated, players, history
  <1>2. PICK step \in {"register", "load"} :
          /\ at' = [at EXCEPT ![c] = step]
          /\ want' = [want EXCEPT ![c] = account]
          /\ step = "register" => credentials[account[1]] = NoPassword
          /\ step = "load" /\ account \in Account => credentials[account[1]] = account[2]
    BY <1>1 DEF Begin
  <1>3. \A d \in Client : at[d] = "idle"
    BY <1>1, BeginsAlone DEF SerialInv
  <1>4. /\ at'[c] = step /\ want'[c] = account
        /\ \A d \in Client : d # c => at'[d] = "idle" /\ want'[d] = want[d]
    BY <1>2, <1>3 DEF TypeInv, TypeOK
  <1>5. OneAtATime'
    BY <1>4 DEF OneAtATime
  <1>6. MapAgrees' /\ FileAgrees'
    BY <1>1 DEF SerialInv, MapAgrees, FileAgrees, LoginsDiffer, AccountsOf
  <1>7. FoundHolds'
    <2>1. ASSUME step = "load", account \in Account PROVE account \in AccountsOf(list)
      <3>1. account = <<account[1], account[2]>> /\ account[1] \in Login /\ account[2] # NoPassword
        BY <2>1, NamesAssumption DEF Account
      <3>2. PICK i \in 1 .. Len(list) : list[i].account[1] = account[1]
        BY <1>2, <2>1, <3>1 DEF SerialInv, MapAgrees
      <3>3. list[i].account[2] = account[2]
        BY <1>2, <2>1, <3>2 DEF SerialInv, MapAgrees
      <3>4. list[i].account = <<list[i].account[1], list[i].account[2]>>
        <4>1. list[i] \in Entry
          BY ElementOfSeq DEF TypeInv, TypeOK
        <4> QED BY <4>1 DEF Entry
      <3> QED BY <3>1, <3>2, <3>3, <3>4 DEF AccountsOf
    <2>2. account # NoAccount
      BY NamesDiffer
    <2>3. AccountsOf(list)' = AccountsOf(list) /\ session' = session /\ credentials' = credentials
      BY <1>1 DEF AccountsOf
    <2> QED BY <1>2, <1>4, <2>1, <2>2, <2>3 DEF SerialInv, FoundHolds
  <1>8. ProfilesAgree'
    <2>1. \A d \in Client : ~Saving(d) /\ ~Saving(d)'
      BY <1>2, <1>3, <1>4 DEF Saving
    <2> QED BY <1>1, <2>1 DEF SerialInv, ProfilesAgree, Kept, Shown
  <1> QED BY <1>5, <1>6, <1>7, <1>8 DEF SerialInv

(* A registration puts a login that is free into both memories.            *)
LEMMA AddSerial ==
  ASSUME TypeInv, TypeInv', SerialInv, NEW c \in Client, AddPlayerCredential(c)
  PROVE  SerialInv'
  <1> DEFINE e == [account |-> want[c], credential |-> Tokens(profile[c])]
             n == Len(list)
  <1>1. /\ at[c] = "register" /\ want[c] \in Account
        /\ session' = [session EXCEPT ![c] = want[c]]
        /\ credentials' = [credentials EXCEPT ![want[c][1]] = want[c][2]]
        /\ list' = Append(list, e)
        /\ at' = [at EXCEPT ![c] = "write"]
        /\ want' = [want EXCEPT ![c] = want[c]]
        /\ saved' = [saved EXCEPT ![want[c]] = profile[c]]
        /\ UNCHANGED <<file, profile, restarts, accepted, lost>>
    BY DEF AddPlayerCredential, Begin, TypeInv, Registering
  <1>2. /\ want[c][1] \in Login /\ want[c][2] \in Password
        /\ credentials[want[c][1]] = NoPassword
        /\ profile[c] \in Profile
    BY <1>1 DEF SerialInv, FoundHolds, Account, TypeInv, TypeOK
  <1>3. /\ n \in Nat /\ list \in Seq(Entry)
        /\ \A i \in 1 .. n : list[i] \in Entry
    BY LenProperties, ElementOfSeq DEF TypeInv, TypeOK
  <1>4. e \in Entry /\ e.account = want[c] /\ e.credential = Tokens(profile[c])
    BY <1>1, TokensFit DEF Entry, Account, TypeInv, TypeOK
  <1>5. /\ Len(list') = n + 1
        /\ \A i \in 1 .. n : list'[i] = list[i]
        /\ list'[n + 1] = e
    BY <1>1, <1>3, <1>4, AppendProperties
  <1> HIDE DEF e, n
  <1>6. \A i \in 1 .. Len(list') : i \in 1 .. n \/ i = n + 1
    BY <1>3, <1>5
  <1>7. \A i \in 1 .. n : i \in 1 .. Len(list') /\ i # n + 1
    BY <1>3, <1>5
  <1>8. n + 1 \in 1 .. Len(list')
    BY <1>3, <1>5
  <1>9. \A i \in 1 .. n : list[i].account[1] # want[c][1]
    BY <1>2, <1>3, NamesDiffer DEF SerialInv, MapAgrees, n
  <1>10. AccountsOf(list') = AccountsOf(list) \cup {want[c]}
    BY <1>4, <1>5, <1>6, <1>7, <1>8 DEF AccountsOf, n
  <1>11. MapAgrees'
    <2>1. LoginsDiffer(list')
      <3>1. \A i \in 1 .. n : list'[i].account[1] # list'[n + 1].account[1]
        BY <1>4, <1>5, <1>9
      <3>2. \A i, j \in 1 .. n : list'[i].account[1] = list'[j].account[1] => i = j
        BY <1>5 DEF SerialInv, MapAgrees, LoginsDiffer, n
      <3> QED BY <1>6, <3>1, <3>2 DEF LoginsDiffer
    <2>2. \A i \in 1 .. Len(list') : credentials'[list'[i].account[1]] = list'[i].account[2]
      <3>1. credentials'[want[c][1]] = want[c][2]
        BY <1>1, <1>2 DEF TypeInv, TypeOK
      <3>2. \A i \in 1 .. n : credentials'[list[i].account[1]] = list[i].account[2]
        BY <1>1, <1>9 DEF SerialInv, MapAgrees, n, TypeInv, TypeOK
      <3> QED BY <1>4, <1>5, <1>6, <3>1, <3>2
    <2>3. ASSUME NEW l \in Login, credentials'[l] # NoPassword
          PROVE  \E i \in 1 .. Len(list') : list'[i].account[1] = l
      <3>1. CASE l = want[c][1]
        BY <1>4, <1>5, <1>8, <3>1
      <3>2. CASE l # want[c][1]
        <4>1. credentials[l] # NoPassword
          BY <1>1, <2>3, <3>2 DEF TypeInv, TypeOK
        <4>2. PICK i \in 1 .. n : list[i].account[1] = l
          BY <4>1 DEF SerialInv, MapAgrees, n
        <4> QED BY <1>5, <1>7, <4>2
      <3> QED BY <3>1, <3>2
    <2> QED BY <2>1, <2>2, <2>3 DEF MapAgrees
  <1>12. \A d \in Client : d # c => at[d] = "idle" /\ at'[d] = "idle"
    BY <1>1 DEF SerialInv, OneAtATime, TypeInv, TypeOK
  <1>13. OneAtATime' /\ FileAgrees' /\ FoundHolds'
    <2>1. OneAtATime'
      BY <1>12 DEF OneAtATime
    <2>2. FileAgrees'
      BY <1>1, <1>10 DEF SerialInv, FileAgrees, AccountsOf, LoginsDiffer
    <2>3. at'[c] = "write" /\ want'[c] = want[c]
      BY <1>1 DEF TypeInv, TypeOK
    <2>4. \A d \in Client : session'[d] \in Account => session'[d] \in AccountsOf(list')
      BY <1>1, <1>10 DEF SerialInv, FoundHolds, TypeInv, TypeOK
    <2>5. \A d \in Client : at'[d] \in {"load", "write"} /\ want'[d] \in Account =>
            want'[d] \in AccountsOf(list')
      BY <1>10, <1>12, <2>3
    <2>6. \A d \in Client : at'[d] \notin {"register", "load"}
      BY <1>12, <2>3
    <2> QED BY <2>1, <2>2, <2>4, <2>5, <2>6 DEF FoundHolds
  <1>14. ProfilesAgree'
    <2>1. \A d \in Client : ~Saving(d) /\ ~Saving(d)'
      BY <1>1, <1>12, NamesDiffer DEF Saving, TypeInv, TypeOK
    <2> SUFFICES ASSUME restarts = 0, NEW i \in 1 .. Len(list')
                 PROVE  /\ list'[i].account \in Account
                        /\ Len(list'[i].credential) >= NumFields - 1
                        /\ Kept(list'[i], saved'[list'[i].account])
      BY <1>1, <2>1 DEF ProfilesAgree, Kept, Shown
    <2>2. CASE i = n + 1
      <3>1. saved'[want[c]] = profile[c]
        BY <1>1 DEF TypeInv, TypeOK
      <3>2. Shown(e) = profile[c] /\ Len(e.credential) >= NumFields - 1
        BY <1>2, <1>4, TokensFit
      <3> QED BY <1>1, <1>4, <1>5, <2>2, <3>1, <3>2, ShownIsKept
    <2>3. CASE i \in 1 .. n
      <3>1. /\ list[i].account \in Account
            /\ Len(list[i].credential) >= NumFields - 1
            /\ Kept(list[i], saved[list[i].account])
        BY <2>1, <2>3 DEF SerialInv, ProfilesAgree, n
      <3>2. list[i].account # want[c]
        BY <1>9, <2>3
      <3>3. saved'[list[i].account] = saved[list[i].account]
        BY <1>1, <3>1, <3>2 DEF TypeInv, TypeOK
      <3> QED BY <1>5, <2>3, <3>1, <3>3
    <2> QED BY <1>6, <2>2, <2>3
  <1> QED BY <1>11, <1>13, <1>14 DEF SerialInv

(* What a list shows after a login of c: what it has shown, in all fields  *)
(* but those behind the last token of the account.                         *)
ShowsTheSame(c) ==
  \A i \in 1 .. Len(list), f \in 1 .. NumFields :
    \/ Shown(list'[i])[f] = Shown(list[i])[f]
    \/ f > Len(list[i].credential) /\ want[c] = list[i].account

(* A profile is loaded, and what has a token is written back as it was.    *)
LEMMA LoadSerial ==
  ASSUME TypeInv, TypeInv', SerialInv, NEW c \in Client, LoadPlayer(c)
  PROVE  SerialInv' /\ ShowsTheSame(c) /\ at[c] = "load"
  <1> DEFINE own == {i \in 1 .. Len(list) : list[i].account = want[c]}
  <1>0. \A i \in 1 .. Len(list) : Len(list[i].credential) \in Nat
    <2>1. \A i \in 1 .. Len(list) : list[i] \in Entry
      BY ElementOfSeq DEF TypeInv, TypeOK
    <2>2. \A i \in 1 .. Len(list) : list[i].credential \in Credential
      BY <2>1 DEF Entry
    <2> QED BY <2>2, CredentialLength, NumFieldsAssumption
  <1>1. /\ at[c] = "load" /\ want[c] # NoAccount
        /\ want[c] \in Account => want[c] \in AccountsOf(list)
        /\ session' = [session EXCEPT ![c] = want[c]]
        /\ UNCHANGED <<file, credentials, restarts, accepted, lost, saved>>
    BY DEF LoadPlayer, history, SerialInv, FoundHolds
  <1>2. /\ Len(list') = Len(list)
        /\ ShowsTheSame(c)
        /\ \A i \in 1 .. Len(list) :
             /\ list'[i].account = list[i].account
             /\ list'[i] = list[i] \/ Len(list'[i].credential) >= NumFields - 1
    <2>1. CASE UNCHANGED list
      BY <2>1 DEF ShowsTheSame, Shown
    <2>2. ASSUME NEW i \in own,
                 profile' = [profile EXCEPT ![c] = SetFields(@, list[i].credential)],
                 list' = UpdateEntries(list, want[c], profile'[c])
          PROVE  /\ Len(list') = Len(list)
                 /\ ShowsTheSame(c)
                 /\ \A j \in 1 .. Len(list) :
                      /\ list'[j].account = list[j].account
                      /\ list'[j] = list[j] \/ Len(list'[j].credential) >= NumFields - 1
      <3>1. profile'[c] = SetFields(profile[c], list[i].credential)
        BY <2>2 DEF TypeInv, TypeOK
      <3>2. profile'[c] \in Profile /\ list \in Seq(Entry)
        BY DEF TypeInv, TypeOK
      <3>3. /\ Len(list') = Len(list)
            /\ \A j \in 1 .. Len(list) :
                 /\ list'[j].account = list[j].account
                 /\ list[j].account # want[c] => list'[j] = list[j]
                 /\ list[j].account = want[c] =>
                      Shown(list'[j]) = profile'[c] /\ Len(list'[j].credential) >= NumFields - 1
        BY <2>2, <3>2, UpdateKeepsAccounts
      <3>4. \A j \in 1 .. Len(list) : list[j].account = want[c] => j = i
        BY DEF SerialInv, MapAgrees, LoginsDiffer
      <3>5. ASSUME NEW j \in 1 .. Len(list), NEW f \in 1 .. NumFields
            PROVE  \/ Shown(list'[j])[f] = Shown(list[j])[f]
                   \/ f > Len(list[j].credential) /\ want[c] = list[j].account
        <4>1. CASE list[j].account # want[c]
          BY <3>3, <4>1 DEF Shown
        <4>2. CASE list[j].account = want[c] /\ f <= Len(list[j].credential)
          <5>1. j = i /\ Shown(list'[j]) = profile'[c]
            BY <3>3, <3>4, <4>2
          <5>2. SetFields(profile[c], list[i].credential)[f] = Shown(list[i])[f]
            BY <4>2, <5>1, LoadedIsShown
          <5> QED BY <3>1, <5>1, <5>2
        <4>3. CASE list[j].account = want[c] /\ ~(f <= Len(list[j].credential))
          BY <1>0, <4>3, NumFieldsAssumption
        <4> QED BY <4>1, <4>2, <4>3
      <3> QED BY <3>3, <3>5 DEF ShowsTheSame
    <2> QED BY <2>1, <2>2 DEF LoadPlayer
  <1>3. AccountsOf(list') = AccountsOf(list) /\ LoginsDiffer(list')
    BY <1>2, SameAccounts DEF SerialInv, MapAgrees
  <1>4. /\ at'[c] \in {"idle", "write"}
        /\ want'[c] \in {NoAccount, want[c]}
        /\ at'[c] = "write" => want'[c] = want[c]
        /\ \A d \in Client : d # c => at'[d] = at[d] /\ want'[d] = want[d]
    BY DEF LoadPlayer, End, Begin, TypeInv, TypeOK
  <1>5. \A d \in Client : d # c => at[d] = "idle"
    BY <1>1 DEF SerialInv, OneAtATime
  <1>6. OneAtATime'
    BY <1>4, <1>5 DEF OneAtATime
  <1>7. MapAgrees'
    <2>1. \A i \in 1 .. Len(list') : credentials'[list'[i].account[1]] = list'[i].account[2]
      BY <1>1, <1>2 DEF SerialInv, MapAgrees
    <2>2. \A l \in Login : credentials'[l] # NoPassword =>
            \E i \in 1 .. Len(list') : list'[i].account[1] = l
      BY <1>1, <1>2 DEF SerialInv, MapAgrees
    <2> QED BY <1>3, <2>1, <2>2 DEF MapAgrees
  <1>8. FileAgrees'
    BY <1>1, <1>3 DEF SerialInv, FileAgrees, AccountsOf, LoginsDiffer
  <1>9. FoundHolds'
    <2>1. \A d \in Client : session'[d] \in Account => session'[d] \in AccountsOf(list')
      BY <1>1, <1>3 DEF SerialInv, FoundHolds, TypeInv, TypeOK
    <2>2. \A d \in Client : at'[d] \notin {"register", "load"}
      BY <1>4, <1>5
    <2>3. \A d \in Client : at'[d] = "write" => d = c /\ want'[d] = want[c]
      BY <1>4, <1>5
    <2> QED BY <1>1, <1>3, <2>1, <2>2, <2>3 DEF FoundHolds
  <1>10. ProfilesAgree'
    <2>1. \A d \in Client : ~Saving(d) /\ ~Saving(d)'
      BY <1>1, <1>4, <1>5 DEF Saving
    <2> SUFFICES ASSUME restarts = 0, NEW i \in 1 .. Len(list)
                 PROVE  /\ list'[i].account \in Account
                        /\ Len(list'[i].credential) >= NumFields - 1
                        /\ Kept(list'[i], saved[list'[i].account])
      BY <1>1, <1>2, <2>1 DEF ProfilesAgree, Kept, Shown
    <2> DEFINE p == saved[list[i].account]
    <2>2. /\ list[i].account \in Account
          /\ Len(list[i].credential) >= NumFields - 1
          /\ Kept(list[i], p)
      BY <2>1 DEF SerialInv, ProfilesAgree
    <2>3. ASSUME NEW f \in 1 .. NumFields, f < NumFields \/ p[f] # Blank
          PROVE  Shown(list'[i])[f] = p[f]
      <3>1. Shown(list[i])[f] = p[f]
        BY <2>2, <2>3 DEF Kept
      <3>2. f <= Len(list[i].credential)
        <4>1. CASE f < NumFields
          BY <1>0, <2>2, <4>1, NumFieldsAssumption
        <4>2. CASE p[f] # Blank
          BY <3>1, <4>2, BehindIsBlank
        <4> QED BY <2>3, <4>1, <4>2
      <3>3. ~(f > Len(list[i].credential))
        BY <1>0, <3>2, NumFieldsAssumption
      <3> QED BY <1>2, <3>1, <3>3 DEF ShowsTheSame
    <2>4. Kept(list'[i], p)
      BY <2>3 DEF Kept
    <2>5. list'[i].account = list[i].account /\ Len(list'[i].credential) >= NumFields - 1
      BY <1>2, <2>2
    <2> QED BY <2>2, <2>4, <2>5
  <1> QED BY <1>1, <1>2, <1>6, <1>7, <1>8, <1>9, <1>10 DEF SerialInv

(* A profile is saved in the list.                                         *)
LEMMA SaveSerial ==
  ASSUME Threads = 1, TypeInv, TypeInv', SerialInv, NEW c \in Client, NEW tokens \in Message,
         SaveCredentials(c, tokens)
  PROVE  SerialInv' /\ at[c] = "idle" /\ at'[c] = "write"
  <1>1. /\ Ready(c)
        /\ profile' = [profile EXCEPT ![c] = SetFields(@, tokens)]
        /\ list' = UpdateEntries(list, session[c], profile'[c])
        /\ at' = [at EXCEPT ![c] = "write"]
        /\ want' = [want EXCEPT ![c] = NoAccount]
        /\ UNCHANGED <<file, credentials, session, restarts, accepted, lost, saved>>
    BY DEF SaveCredentials, Begin, history
  <1>2. \A d \in Client : at[d] = "idle"
    BY <1>1, BeginsAlone DEF SerialInv
  <1>3. /\ at'[c] = "write" /\ want'[c] = NoAccount
        /\ \A d \in Client : d # c => at'[d] = "idle"
    BY <1>1, <1>2 DEF TypeInv, TypeOK
  <1>4. profile'[c] \in Profile /\ list \in Seq(Entry)
    BY DEF TypeInv, TypeOK
  <1>5. /\ Len(list') = Len(list)
        /\ \A i \in 1 .. Len(list) :
             /\ list'[i].account = list[i].account
             /\ list[i].account # session[c] => list'[i] = list[i]
             /\ list[i].account = session[c] =>
                  Shown(list'[i]) = profile'[c] /\ Len(list'[i].credential) >= NumFields - 1
    BY <1>1, <1>4, UpdateKeepsAccounts
  <1>6. AccountsOf(list') = AccountsOf(list) /\ LoginsDiffer(list')
    BY <1>5, SameAccounts DEF SerialInv, MapAgrees
  <1>7. OneAtATime'
    BY <1>3 DEF OneAtATime
  <1>8. MapAgrees'
    <2>1. \A i \in 1 .. Len(list') : credentials'[list'[i].account[1]] = list'[i].account[2]
      BY <1>1, <1>5 DEF SerialInv, MapAgrees
    <2>2. \A l \in Login : credentials'[l] # NoPassword =>
            \E i \in 1 .. Len(list') : list'[i].account[1] = l
      BY <1>1, <1>5 DEF SerialInv, MapAgrees
    <2> QED BY <1>6, <2>1, <2>2 DEF MapAgrees
  <1>9. FileAgrees'
    <2>1. LoginsDiffer(file') /\ accepted \ lost \subseteq AccountsOf(list) \cap AccountsOf(file')
      BY <1>1 DEF SerialInv, FileAgrees
    <2>2. accepted' = accepted /\ lost' = lost
      BY <1>1
    <2> QED BY <1>6, <2>1, <2>2 DEF FileAgrees
  <1>10. FoundHolds'
    <2>1. \A d \in Client : at'[d] \notin {"register", "load"}
      BY <1>3
    <2>2. \A d \in Client : at'[d] = "write" => want'[d] \notin Account
      BY <1>3, NamesDiffer
    <2>3. \A d \in Client : session'[d] \in Account => session'[d] \in AccountsOf(list')
      BY <1>1, <1>6 DEF SerialInv, FoundHolds
    <2> QED BY <2>1, <2>2, <2>3 DEF FoundHolds
  <1>11. ProfilesAgree'
    <2> SUFFICES ASSUME restarts = 0, NEW i \in 1 .. Len(list)
                 PROVE  /\ list'[i].account \in Account
                        /\ Len(list'[i].credential) >= NumFields - 1
                        /\ IF session[c] = list'[i].account THEN Shown(list'[i]) = profile'[c]
                           ELSE Kept(list'[i], saved[list'[i].account])
      <3>1. Saving(c)' /\ \A d \in Client : Saving(d)' => d = c
        BY <1>3 DEF Saving
      <3>2. session' = session /\ restarts' = restarts /\ saved' = saved /\ Len(list') = Len(list)
        BY <1>1, <1>5
      <3> QED BY <3>1, <3>2 DEF ProfilesAgree, Kept, Shown
    <2>1. \A d \in Client : ~Saving(d)
      BY <1>2 DEF Saving
    <2>2. /\ list[i].account \in Account
          /\ Len(list[i].credential) >= NumFields - 1
          /\ Kept(list[i], saved[list[i].account])
      BY <2>1 DEF SerialInv, ProfilesAgree
    <2> QED BY <1>5, <2>2
  <1> QED BY <1>2, <1>3, <1>7, <1>8, <1>9, <1>10, <1>11 DEF SerialInv

(* The file is written, and whoever waited is answered.                    *)
LEMMA WriteSerial ==
  ASSUME TypeInv, SerialInv, NEW c \in Client, UpdateCredentialsFile(c)
  PROVE  SerialInv'
  <1>1. /\ at[c] = "write"
        /\ file' = list
        /\ accepted' = accepted \cup ({want[c]} \cap Account)
        /\ saved' = [a \in Account |-> IF want[c] = NoAccount /\ a = session[c] THEN profile[c]
                                       ELSE saved[a]]
        /\ at' = [at EXCEPT ![c] = "idle"]
        /\ UNCHANGED <<list, credentials, session, profile, restarts, lost>>
    BY DEF UpdateCredentialsFile, End, Begin, players
  <1>2. /\ \A d \in Client : at'[d] = "idle"
        /\ \A d \in Client : d # c => at[d] = "idle"
    BY <1>1 DEF SerialInv, OneAtATime, TypeInv, TypeOK
  <1>3. /\ want[c] \in Account => want[c] \in AccountsOf(list)
        /\ \A d \in Client : session[d] \in Account => session[d] \in AccountsOf(list)
    BY <1>1 DEF SerialInv, FoundHolds
  <1>4. OneAtATime' /\ MapAgrees' /\ FileAgrees' /\ FoundHolds'
    BY <1>1, <1>2, <1>3
       DEF SerialInv, OneAtATime, MapAgrees, FileAgrees, FoundHolds, LoginsDiffer, AccountsOf
  <1>5. ProfilesAgree'
    <2>1. \A d \in Client : Saving(d) => d = c
      BY <1>2 DEF Saving
    <2>2. \A d \in Client : ~Saving(d)'
      BY <1>2 DEF Saving
    <2> SUFFICES ASSUME restarts = 0, NEW i \in 1 .. Len(list)
                 PROVE  /\ list[i].account \in Account
                        /\ Len(list[i].credential) >= NumFields - 1
                        /\ Kept(list[i], saved'[list[i].account])
      BY <1>1, <2>2 DEF ProfilesAgree, Kept, Shown
    <2>3. list[i].account \in Account /\ Len(list[i].credential) >= NumFields - 1
      BY DEF SerialInv, ProfilesAgree
    <2>4. CASE Saving(c) /\ session[c] = list[i].account
      <3>1. Shown(list[i]) = profile[c]
        BY <2>4 DEF SerialInv, ProfilesAgree
      <3>2. saved'[list[i].account] = profile[c]
        BY <1>1, <2>3, <2>4 DEF Saving
      <3> QED BY <2>3, <3>1, <3>2, ShownIsKept
    <2>5. CASE ~(Saving(c) /\ session[c] = list[i].account)
      <3>1. Kept(list[i], saved[list[i].account])
        BY <2>1, <2>5 DEF SerialInv, ProfilesAgree
      <3>2. saved'[list[i].account] = saved[list[i].account]
        BY <1>1, <2>3, <2>5 DEF Saving
      <3> QED BY <2>3, <3>1, <3>2
    <2> QED BY <2>4, <2>5
  <1> QED BY <1>4, <1>5 DEF SerialInv

(* A connection ends; no handler of it is running.                         *)
LEMMA DisconnectSerial ==
  ASSUME Threads = 1, TypeInv, SerialInv, NEW c \in Client, Disconnect(c)
  PROVE  SerialInv'
  <1>1. /\ Ready(c)
        /\ session' = [session EXCEPT ![c] = NoAccount]
        /\ UNCHANGED <<list, credentials, file, at, want, restarts, accepted, lost, saved>>
    BY DEF Disconnect, handler, history
  <1>2. \A d \in Client : at[d] = "idle" /\ at'[d] = "idle"
    BY <1>1, BeginsAlone DEF SerialInv
  <1>3. OneAtATime' /\ MapAgrees' /\ FileAgrees'
    BY <1>1, <1>2
       DEF SerialInv, OneAtATime, MapAgrees, FileAgrees, LoginsDiffer, AccountsOf
  <1>4. FoundHolds'
    <2>1. \A d \in Client : session'[d] \in Account => session'[d] \in AccountsOf(list)
      BY <1>1, NamesDiffer DEF SerialInv, FoundHolds, TypeInv, TypeOK
    <2> QED BY <1>1, <1>2, <2>1 DEF FoundHolds, AccountsOf
  <1>5. ProfilesAgree'
    <2>1. \A d \in Client : ~Saving(d) /\ ~Saving(d)'
      BY <1>2 DEF Saving
    <2> QED BY <1>1, <2>1 DEF SerialInv, ProfilesAgree, Kept, Shown
  <1> QED BY <1>3, <1>4, <1>5 DEF SerialInv

(* The program ends, also in the middle of the file, and starts.           *)
LEMMA RestartSerial ==
  ASSUME TypeInv, SerialInv, Restart
  PROVE  SerialInv'
  <1>1. Start /\ file' = file /\ lost' = lost
    BY DEF Restart
  <1>2. file' \in Seq(Entry) /\ LoginsDiffer(file') /\ accepted \ lost' \subseteq AccountsOf(file')
    BY <1>1 DEF TypeInv, TypeOK, SerialInv, FileAgrees
  <1> QED BY <1>1, <1>2, StartSerial

(* A crash leaves the file, and nothing that runs.                         *)
LEMMA CrashSerial ==
  ASSUME TypeInv, SerialInv, NEW c \in Client, CrashInWrite(c)
  PROVE  SerialInv'
  <1>1. Start
    BY DEF CrashInWrite
  <1>2. file' \in Seq(Entry) /\ LoginsDiffer(file')
    BY CrashTypes DEF SerialInv, MapAgrees, TypeInv, TypeOK
  <1>3. ASSUME NEW a \in accepted \ lost' PROVE a \in AccountsOf(file')
    <2>1. a \in Account /\ a \in AccountsOf(list)
      BY <1>3 DEF CrashInWrite, TypeInv, TypeOK, SerialInv, FileAgrees
    <2>2. PICK i \in 1 .. Len(list) : list[i].account = a
      BY <2>1 DEF AccountsOf
    <2>3. ~ \A j \in 1 .. Len(file') : file'[j].account # a
      BY <1>3, <2>1, <2>2 DEF CrashInWrite
    <2> QED BY <2>3 DEF AccountsOf
  <1> QED BY <1>1, <1>2, <1>3, StartSerial

(* The program begins with nothing.                                        *)
LEMMA InitSerial == ASSUME Init PROVE SerialInv
  <1>1. Len(list) = 0 /\ Len(file) = 0
    BY DEF Init
  <1>2. \A i : i \notin 1 .. Len(list) /\ i \notin 1 .. Len(file)
    BY <1>1
  <1>3. OneAtATime /\ MapAgrees /\ FileAgrees /\ FoundHolds
    BY <1>2, NamesDiffer DEF Init, OneAtATime, MapAgrees, FileAgrees, FoundHolds, LoginsDiffer
  <1>4. ProfilesAgree
    BY <1>2 DEF Init, ProfilesAgree
  <1> QED BY <1>3, <1>4 DEF SerialInv

(* Every step of a server whose handlers do not overlap keeps the          *)
(* invariant.                                                              *)
LEMMA NextSerial ==
  ASSUME Threads = 1, TypeInv, SerialInv, [Next]_vars
  PROVE  SerialInv'
  <1>1. TypeInv'
    BY NextTypes
  <1>2. CASE UNCHANGED vars
    BY <1>2 DEF vars, players, handler, history, SerialInv, OneAtATime, MapAgrees, FileAgrees,
                FoundHolds, ProfilesAgree, LoginsDiffer, AccountsOf, Saving, Kept, Shown
  <1> QED
    BY <1>1, <1>2, TestSerial, AddSerial, LoadSerial, SaveSerial, WriteSerial, DisconnectSerial,
       RestartSerial, CrashSerial DEF Next, Message

(* In a server whose handlers do not overlap the two memories and the file *)
(* agree.                                                                  *)
THEOREM SerialAgreement == ASSUME Threads = 1 PROVE Spec => [](TypeInv /\ SerialInv)
  <1>1. Init => TypeInv /\ SerialInv
    BY InitTypes, InitSerial
  <1>2. TypeInv /\ SerialInv /\ [Next]_vars => (TypeInv /\ SerialInv)'
    BY NextTypes, NextSerial
  <1> QED BY <1>1, <1>2, PTL DEF Spec

(* Whoever has been let in can log in ever after, also after the program   *)
(* has ended at any point; only an unfinished write loses accounts.        *)
THEOREM AcceptedStay == ASSUME Threads = 1 PROVE Spec => []AcceptedCanLogIn
  <1>1. TypeInv /\ SerialInv => AcceptedCanLogIn
    <2> SUFFICES ASSUME TypeInv, SerialInv, NEW a \in accepted \ lost
                 PROVE  credentials[a[1]] = a[2]
      BY DEF AcceptedCanLogIn, IsRegistrated
    <2>1. PICK i \in 1 .. Len(list) : list[i].account = a
      BY DEF SerialInv, FileAgrees, AccountsOf
    <2> QED BY <2>1 DEF SerialInv, MapAgrees
  <1> QED BY <1>1, SerialAgreement, PTL

(* The map that decides who may log in and the list that profiles are      *)
(* loaded from have the same accounts, one for a login.                    *)
THEOREM MemoriesAgree == ASSUME Threads = 1 PROVE Spec => []OneEntryPerLogin
  <1>1. TypeInv /\ SerialInv => OneEntryPerLogin
    <2> SUFFICES ASSUME TypeInv, SerialInv, NEW l \in Login
                 PROVE  /\ {list[i].account[2] :
                              i \in {j \in 1 .. Len(list) : list[j].account[1] = l}}
                             = {credentials[l]} \ {NoPassword}
                        /\ \A i, j \in 1 .. Len(list) :
                             list[i].account[1] = l /\ list[j].account[1] = l => i = j
      BY DEF OneEntryPerLogin
    <2>1. \A i, j \in 1 .. Len(list) :
            list[i].account[1] = l /\ list[j].account[1] = l => i = j
      BY DEF SerialInv, MapAgrees, LoginsDiffer
    <2>2. \A i \in 1 .. Len(list) : list[i] \in Entry
      BY ElementOfSeq DEF TypeInv, TypeOK
    <2>3. \A i \in 1 .. Len(list) : list[i].account[1] = l =>
            list[i].account[2] = credentials[l] /\ credentials[l] # NoPassword
      BY <2>2, NamesDiffer DEF SerialInv, MapAgrees
    <2>4. credentials[l] # NoPassword => \E i \in 1 .. Len(list) : list[i].account[1] = l
      BY DEF SerialInv, MapAgrees
    <2> QED BY <2>1, <2>3, <2>4
  <1> QED BY <1>1, SerialAgreement, PTL

(* What a user has filled in is what the list has for him until a restart, *)
(* whoever has logged in since; only a last field that he left empty may   *)
(* show something else.                                                    *)
THEOREM ProfilesAreKept == ASSUME Threads = 1 PROVE Spec => []SavedProfileIsKept
  <1>1. TypeInv /\ SerialInv => SavedProfileIsKept
    <2> SUFFICES ASSUME SerialInv, Quiet, restarts = 0, NEW i \in 1 .. Len(list)
                 PROVE  Kept(list[i], saved[list[i].account])
      BY DEF SavedProfileIsKept, Kept
    <2>1. \A c \in Client : ~Saving(c)
      BY DEF Quiet, Running, Saving
    <2> QED BY <2>1 DEF SerialInv, ProfilesAgree
  <1> QED BY <1>1, SerialAgreement, PTL

(* Logging in, registering and leaving change no field that is stored, and *)
(* those that are not only in the account that is logged in to.            *)
THEOREM LoginKeeps == ASSUME Threads = 1 PROVE Spec => LoginKeepsProfiles
  <1> DEFINE Same(i, f) ==
               \/ Shown(list'[i])[f] = Shown(list[i])[f]
               \/ /\ f > Len(list[i].credential)
                  /\ \E c \in Client : at[c] = "load" /\ want[c] = list[i].account
             A == restarts' = restarts /\ (\A c \in Client : at[c] = "idle" => at'[c] # "write") =>
                    \A i \in 1 .. Len(list), f \in 1 .. NumFields : Same(i, f)
  <1>1. TypeInv /\ SerialInv /\ [Next]_vars => [A]_vars
    <2> SUFFICES ASSUME TypeInv, SerialInv, Next, restarts' = restarts,
                        \A c \in Client : at[c] = "idle" => at'[c] # "write",
                        NEW i \in 1 .. Len(list), NEW f \in 1 .. NumFields
                 PROVE  Same(i, f)
      OBVIOUS
    <2>1. CASE list' = list
      BY <2>1 DEF Shown
    <2>2. ASSUME Start PROVE FALSE
      BY <2>2 DEF Start, TypeInv, TypeOK
    <2>3. ASSUME NEW c \in Client, AddPlayerCredential(c) PROVE Same(i, f)
      <3>1. list \in Seq(Entry) /\ TypeInv'
        BY NextTypes DEF TypeInv, TypeOK
      <3>2. [account |-> want[c], credential |-> Tokens(profile[c])] \in Entry
        BY <2>3, TokensFit DEF AddPlayerCredential, Entry, Account, TypeInv, TypeOK, Registering
      <3>3. list'[i] = list[i]
        BY <2>3, <3>1, <3>2, AppendProperties DEF AddPlayerCredential
      <3> QED BY <3>3 DEF Shown
    <2>4. ASSUME NEW c \in Client, LoadPlayer(c) PROVE Same(i, f)
      <3>1. ShowsTheSame(c) /\ at[c] = "load"
        BY <2>4, LoadSerial, NextTypes
      <3> QED BY <3>1 DEF ShowsTheSame
    <2>5. ASSUME NEW c \in Client, NEW tokens \in Message, SaveCredentials(c, tokens) PROVE FALSE
      BY <2>5, SaveSerial, NextTypes
    <2>6. ASSUME NEW c \in Client,
                 \/ \E account \in Account : TestRegistration(c, account)
                 \/ \E account \in Account \cup {Guest} : TestAuthorisation(c, account)
                 \/ UpdateCredentialsFile(c)
                 \/ Disconnect(c)
          PROVE  list' = list
      BY <2>6 DEF TestRegistration, TestAuthorisation, UpdateCredentialsFile, Disconnect
    <2> HIDE DEF Same
    <2> QED BY <2>1, <2>2, <2>3, <2>4, <2>5, <2>6 DEF Next, Message, Restart, CrashInWrite
  <1>2. Spec => []([Next]_vars)
    BY PTL DEF Spec
  <1> QED BY <1>1, SerialAgreement, PTL DEF Spec, LoginKeepsProfiles
==============================================================================
