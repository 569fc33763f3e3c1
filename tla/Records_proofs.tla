-------------------------- MODULE Records_proofs --------------------------
(* Theorems about the records of the school, for any people, enquiries,     *)
(* accounts, periods, assignments, bands and number of concurrent requests: *)
(* Onboarding, Calendar, Grading and Setup, each with its inductive         *)
(* invariant. Onboarding's ties what a request remembers to the rows it is  *)
(* about to write; Calendar's says what the advisory lock of a scope        *)
(* protects; Grading's that a check holds until a write comes between.      *)
EXTENDS Onboarding, Setup, SumTheorems, SequenceTheorems, TLAPS

-----------------------------------------------------------------------------
(* Onboarding *)

PeopleTyped ==
    /\ person \in [Person -> Row]
    /\ counter \in [Prefix -> 0 .. MaxSequence]
    /\ issued \subseteq Number /\ year \in Opt(Year)
    /\ enquiry \in [Enquiry -> [status : {"NEW", "CONTACTED", "CONVERTED", "CLOSED"},
                                edited : BOOLEAN]]
    /\ account \in [Account -> User]
    /\ desk \in [Clerk -> Job]

Registering == {"insert", "convert"}
Sending == {"send", "deliver"}

(* An account belongs to one registered person and is not up for use.       *)
Accounts ==
    \A p \in Person : person[p].account # Null =>
        /\ Registered(p)
        /\ account[person[p].account].login # Null
        /\ \A q \in Person : person[q].account = person[p].account => q = p

(* An enquiry that became a student is marked so, unless edited since.      *)
Sources ==
    \A p \in Person : person[p].from # Null =>
        \/ enquiry[person[p].from].edited
        \/ /\ enquiry[person[p].from].status = "CONVERTED"
           /\ \A q \in Person : person[q].from = person[p].from => q = p

Mail ==
    \A m \in mailed : /\ m.about \in Student /\ m.account # Null
                      /\ person[m.about].account = m.account

(* What a request remembers of the person it is about.                      *)
Remembers(r) ==
    /\ desk[r].op \in Registering =>
          desk[r].who \in Person /\ ~Registered(desk[r].who) /\ desk[r].num \in Number
    /\ desk[r].op = "convert" => desk[r].ref \in Enquiry
    /\ desk[r].op \in {"look", "issue"} => desk[r].who \in Student /\ Registered(desk[r].who)
    /\ desk[r].op = "issue" =>
          /\ desk[r].num \in Number
          /\ desk[r].num = person[desk[r].who].number \/ desk[r].who \in raced
    /\ desk[r].op \in Sending => desk[r].who \in Student /\ person[desk[r].who].account # Null

(* A person is being registered by one request at most.                     *)
Alone ==
    \A r, q \in Clerk :
        desk[r].op \in Registering /\ desk[q].op \in Registering /\ desk[r].who = desk[q].who => r = q

OnboardingIInv ==
    /\ PeopleTyped /\ NeverReissued /\ Accounts /\ Sources /\ Mail
    /\ \A r \in Clerk : Remembers(r)
    /\ Alone /\ PasswordReachesSomeone /\ LoginIsNumber

peopleRows == <<person, counter, issued, enquiry, account>>
letterRows == <<mailed, handed>>

LEMMA NoOnesRow ==
  /\ Null \notin Person /\ Null \notin Number /\ Null \notin Account
  /\ Idle \in Job /\ Idle.op = "idle"
  <1>1. Null \notin Student /\ Null \notin Staff /\ Null \notin Account /\ Null \notin Number
    BY OnboardingAssumption
  <1>2. Idle \in Job /\ Idle.op = "idle"
    BY OnboardingAssumption DEF Idle, Job, Opt
  <1> QED BY <1>1, <1>2 DEF Person

(* People registered before, none with an account.                          *)
Registry(known) == DOMAIN known \subseteq Person /\ \A p \in DOMAIN known : known[p] \in Number

LEMMA CountersCover ==
  ASSUME NEW known, NEW y, Registry(known), OnboardingStart(known, y)
  PROVE  /\ issued \subseteq Number /\ counter \in [Prefix -> 0 .. MaxSequence]
         /\ \A n \in issued : n.seq <= counter[n.prefix]
  <1>1. issued \subseteq Number
    BY DEF OnboardingStart, Range, Registry
  <1>2. \A n \in Number : n.prefix \in Prefix /\ n.seq \in 1 .. MaxSequence
    BY DEF Number
  <1>3. ASSUME NEW x \in Prefix
        PROVE  /\ counter[x] \in 0 .. MaxSequence
               /\ \A n \in issued : n.prefix = x => n.seq <= counter[x]
    <2> DEFINE S == {n.seq : n \in {m \in issued : m.prefix = x}} \cup {0}
    <2>1. MaxSequence \in Nat /\ S \in SUBSET (-1 .. MaxSequence) /\ S # {}
      BY <1>1, <1>2, OnboardingAssumption
    <2>2. S \subseteq 0 .. MaxSequence
      BY <1>1, <1>2, OnboardingAssumption
    <2>3. counter[x] = Max(S)
      BY <1>3 DEF OnboardingStart
    <2>4. \A n \in issued : n.prefix = x => n.seq \in S
      OBVIOUS
    <2> HIDE DEF S
    <2>5. Max(S) \in S /\ \A i \in S : i <= Max(S)
      BY <2>1, GreatestIsMax
    <2> QED BY <2>2, <2>3, <2>4, <2>5
  <1>4. counter \in [Prefix -> 0 .. MaxSequence]
    BY <1>3 DEF OnboardingStart
  <1> QED BY <1>1, <1>2, <1>3, <1>4

LEMMA OnboardingStartIInv ==
  ASSUME NEW known, NEW y \in Opt(Year), Registry(known), OnboardingStart(known, y)
  PROVE  OnboardingIInv
  <1>1. /\ person = [p \in Person |-> [number |-> IF p \in DOMAIN known THEN known[p] ELSE Null,
                                       account |-> Null, from |-> Null]]
        /\ mailed = {} /\ year \in Opt(Year) /\ desk = [r \in Clerk |-> Idle]
        /\ enquiry = [e \in Enquiry |-> [status |-> "NEW", edited |-> FALSE]]
        /\ account = [u \in Account |-> [login |-> Null, pw |-> 0]]
    BY DEF OnboardingStart
  <1>2. person \in [Person -> Row]
    BY <1>1 DEF Row, Opt, Registry
  <1>3. enquiry \in [Enquiry -> [status : {"NEW", "CONTACTED", "CONVERTED", "CLOSED"}, edited : BOOLEAN]]
    BY <1>1
  <1>4. account \in [Account -> User] /\ desk \in [Clerk -> Job]
    BY <1>1, NoOnesRow, OnboardingAssumption DEF User, Opt
  <1>5. PeopleTyped /\ NeverReissued /\ Mail
    BY <1>1, <1>2, <1>3, <1>4, CountersCover DEF PeopleTyped, NeverReissued, Mail
  <1>6. \A p \in Person : person[p].account = Null /\ person[p].from = Null
    BY <1>1
  <1>7. Accounts /\ Sources /\ LoginIsNumber
    BY <1>6 DEF Accounts, Sources, LoginIsNumber
  <1>8. PasswordReachesSomeone
    BY <1>6 DEF PasswordReachesSomeone, Person
  <1>9. \A r \in Clerk : desk[r].op = "idle"
    BY <1>1, NoOnesRow
  <1>10. Alone /\ \A r \in Clerk : Remembers(r)
    BY <1>9 DEF Alone, Remembers, Registering, Sending
  <1> QED BY <1>5, <1>7, <1>8, <1>10 DEF OnboardingIInv

LEMMA OnboardingInitIInv == OnboardingInit => OnboardingIInv
  <1> DEFINE known == [p \in {} |-> Null]
  <1>1. Registry(known)
    BY DEF Registry
  <1>2. ASSUME NEW y \in Opt(Year), OnboardingStart(known, y) PROVE OnboardingIInv
    <2> HIDE DEF known
    <2> QED BY <1>1, <1>2, OnboardingStartIInv
  <1> QED BY <1>2 DEF OnboardingInit

-----------------------------------------------------------------------------
(* Steps that write nothing the invariant is about *)

LEMMA QuietIInv ==
  ASSUME OnboardingIInv, UNCHANGED <<peopleRows, letterRows, raced, lost, desk>>, year' \in Opt(Year)
  PROVE  OnboardingIInv'
  BY DEF OnboardingIInv, peopleRows, letterRows, PeopleTyped, NeverReissued, Accounts, Sources, Mail, Remembers, Alone,
     PasswordReachesSomeone, LoginIsNumber, Registered

(* A request goes on to `c`, about the person it was about or about someone *)
(* nobody else is registering.                                              *)
LEMMA RequestIInv ==
  ASSUME OnboardingIInv, NEW r \in Clerk, NEW c \in Job, desk' = [desk EXCEPT ![r] = c],
         UNCHANGED <<peopleRows, year, raced>>, mailed \subseteq mailed', handed \subseteq handed',
         lost \subseteq lost', Mail', Remembers(r)',
         c.op \in Registering => \A q \in Clerk \ {r} : desk[q].op \in Registering => desk[q].who # c.who,
         desk[r].op \in Sending =>
            LET u == person[desk[r].who].account
                g == IF desk[r].op = "send" THEN 1 ELSE desk[r].pw
            IN <<u, g>> \in handed' \cup lost' \/ \E m \in mailed' : m.account = u /\ m.pw = g
  PROVE  OnboardingIInv'
  <1>1. PeopleTyped' /\ desk'[r] = c /\ \A q \in Clerk \ {r} : desk'[q] = desk[q]
    BY DEF OnboardingIInv, PeopleTyped, peopleRows
  <1>2. NeverReissued' /\ Accounts' /\ Sources' /\ LoginIsNumber'
    BY DEF OnboardingIInv, peopleRows, NeverReissued, Accounts, Sources, LoginIsNumber, Registered
  <1>3. \A q \in Clerk : Remembers(q)'
    BY <1>1 DEF OnboardingIInv, peopleRows, Remembers, Registered
  <1>4. Alone'
    BY <1>1 DEF OnboardingIInv, Alone
  <1>5. PasswordReachesSomeone'
    <2> SUFFICES ASSUME NEW s \in Student, person[s].account # Null,
                        <<person[s].account, account[person[s].account].pw>> \notin handed' \cup lost',
                        ~\E m \in mailed' : /\ m.account = person[s].account
                                            /\ m.pw = account[person[s].account].pw
                 PROVE  \E q \in Clerk :
                            /\ desk'[q].who = s
                            /\ \/ desk'[q].op = "send" /\ account[person[s].account].pw = 1
                               \/ desk'[q].op = "deliver" /\ desk'[q].pw = account[person[s].account].pw
      BY DEF PasswordReachesSomeone, peopleRows
    <2>1. PICK q \in Clerk :
            /\ desk[q].who = s
            /\ \/ desk[q].op = "send" /\ account[person[s].account].pw = 1
               \/ desk[q].op = "deliver" /\ desk[q].pw = account[person[s].account].pw
      BY DEF OnboardingIInv, PasswordReachesSomeone
    <2>2. q # r
      BY <2>1 DEF Sending
    <2> QED BY <1>1, <2>1, <2>2
  <1> QED BY <1>1, <1>2, <1>3, <1>4, <1>5 DEF OnboardingIInv

(* A request that ends, with nothing to send or with its password accounted *)
(* for.                                                                     *)
LEMMA EndIInv ==
  ASSUME OnboardingIInv, NEW r \in Clerk, End(r), UNCHANGED <<peopleRows, year, raced>>, mailed \subseteq mailed',
         handed \subseteq handed', lost \subseteq lost', Mail',
         desk[r].op \in Sending =>
            LET u == person[desk[r].who].account
                g == IF desk[r].op = "send" THEN 1 ELSE desk[r].pw
            IN <<u, g>> \in handed' \cup lost' \/ \E m \in mailed' : m.account = u /\ m.pw = g
  PROVE  OnboardingIInv'
  <1>1. desk' = [desk EXCEPT ![r] = Idle]
    BY DEF End
  <1>2. desk'[r] = Idle
    BY <1>1 DEF OnboardingIInv, PeopleTyped
  <1>3. Remembers(r)'
    BY <1>2, NoOnesRow DEF Remembers, Registering, Sending
  <1>4. Idle.op \notin Registering
    BY NoOnesRow DEF Registering
  <1> QED BY <1>1, <1>3, <1>4, NoOnesRow, RequestIInv

-----------------------------------------------------------------------------
(* Requests that begin, or go on, without writing a row *)

LEMMA TakeNumberIInv ==
  ASSUME OnboardingIInv, NEW r \in Clerk, NEW p \in Person, NEW n \in Opt(Number), TakeNumber(r, p, n)
  PROVE  OnboardingIInv'
  <1> DEFINE x == IF n = Null THEN <<KindOf(p), year>> ELSE n.prefix
             num == IF n = Null THEN [prefix |-> x, seq |-> Incremented(x)] ELSE n
             c == [Idle EXCEPT !.op = "insert", !.who = p, !.new = (n = Null), !.num = num]
  <1>1. /\ ~Registered(p) /\ ~Being(p) /\ desk[r] = Idle
        /\ desk' = [desk EXCEPT ![r] = c]
        /\ UNCHANGED <<peopleRows, year, letterRows, raced, lost>>
    BY DEF TakeNumber, Begin, peopleRows, letterRows
  <1>2. num \in Number
    <2>1. CASE n # Null
      BY <2>1 DEF Opt
    <2>2. CASE n = Null
      <3>1. year # Null /\ Incremented(x) <= MaxSequence
        BY <2>2 DEF TakeNumber, InSequence
      <3>2. x \in Prefix
        BY <2>2, <3>1 DEF Prefix, KindOf, OnboardingIInv, PeopleTyped, Opt
      <3> QED BY <2>2, <3>1, <3>2 DEF OnboardingIInv, PeopleTyped, Number, Incremented
    <2> QED BY <2>1, <2>2
  <1>3. c \in Job /\ c.op = "insert" /\ c.who = p /\ c.num = num
    BY <1>2, NoOnesRow DEF Idle, Job, Opt
  <1> HIDE DEF c, num, x
  <1>4. Remembers(r)'
    BY <1>1, <1>2, <1>3 DEF OnboardingIInv, PeopleTyped, peopleRows, Remembers, Registering, Sending, Registered
  <1>5. Mail'
    BY <1>1 DEF OnboardingIInv, Mail, peopleRows, letterRows
  <1>6. \A q \in Clerk \ {r} : desk[q].op \in Registering => desk[q].who # c.who
    BY <1>1, <1>3 DEF Being, Registering
  <1> QED BY <1>1, <1>3, <1>4, <1>5, <1>6, NoOnesRow, RequestIInv DEF letterRows, Sending

LEMMA ReadEnquiryIInv ==
  ASSUME OnboardingIInv, NEW r \in Clerk, NEW e \in Enquiry, NEW s \in Student, NEW n \in Number,
         ReadEnquiry(r, e, s, n)
  PROVE  OnboardingIInv'
  <1> DEFINE c == [Idle EXCEPT !.op = "convert", !.who = s, !.num = n, !.ref = e]
  <1>1. /\ ~Registered(s) /\ ~Being(s) /\ desk[r] = Idle
        /\ desk' = [desk EXCEPT ![r] = c]
        /\ UNCHANGED <<peopleRows, year, letterRows, raced, lost>>
    BY DEF ReadEnquiry, Begin, peopleRows, letterRows
  <1>2. c \in Job /\ c.op = "convert" /\ c.who = s /\ c.num = n /\ c.ref = e
    BY NoOnesRow DEF Idle, Job, Opt, Person
  <1> HIDE DEF c
  <1>3. Remembers(r)'
    BY <1>1, <1>2 DEF OnboardingIInv, PeopleTyped, peopleRows, Remembers, Registering, Sending, Registered, Person
  <1>4. Mail'
    BY <1>1 DEF OnboardingIInv, Mail, peopleRows, letterRows
  <1>5. \A q \in Clerk \ {r} : desk[q].op \in Registering => desk[q].who # c.who
    BY <1>1, <1>2 DEF Being, Registering
  <1> QED BY <1>1, <1>2, <1>3, <1>4, <1>5, NoOnesRow, RequestIInv DEF letterRows, Sending

(* Requests about a student who is registered already, or about nobody.     *)
LEMMA OtherRequestIInv ==
  ASSUME OnboardingIInv, NEW r \in Clerk, NEW c \in Job, desk' = [desk EXCEPT ![r] = c],
         desk[r].op \notin Sending, c.op \in {"idle", "look", "issue", "move", "bulk"},
         c.op \in {"look", "issue"} => c.who \in Student /\ Registered(c.who),
         c.op = "issue" => c.num = person[c.who].number,
         UNCHANGED <<peopleRows, year, letterRows, raced, lost>>
  PROVE  OnboardingIInv'
  <1>1. desk'[r] = c
    BY DEF OnboardingIInv, PeopleTyped
  <1>2. Remembers(r)'
    <2>1. c.op = "issue" => c.num \in Number
      BY DEF OnboardingIInv, PeopleTyped, Registered, Row, Opt, Person
    <2> QED BY <1>1, <2>1 DEF Remembers, Registering, Sending, Registered, peopleRows
  <1>3. Mail'
    BY DEF OnboardingIInv, Mail, peopleRows, letterRows
  <1> QED BY <1>2, <1>3, RequestIInv DEF letterRows, Registering

LEMMA LinkChildIInv ==
  ASSUME OnboardingIInv, NEW r \in Clerk, NEW q \in Parent, NEW s \in Student, NEW prime \in BOOLEAN,
         LinkChild(r, q, s, prime)
  PROVE  OnboardingIInv'
  <1>1. Registered(s) /\ UNCHANGED <<peopleRows, year, letterRows, raced, lost>>
    BY DEF LinkChild, peopleRows, letterRows
  <1>2. CASE prime
    <2> DEFINE c == [Idle EXCEPT !.op = "look", !.who = s, !.ref = q]
    <2>1. desk[r] = Idle /\ desk' = [desk EXCEPT ![r] = c]
      BY <1>2 DEF LinkChild, Begin
    <2>2. c \in Job /\ c.op = "look" /\ c.who = s
      BY NoOnesRow DEF Idle, Job, Opt, Person
    <2> HIDE DEF c
    <2> QED BY <1>1, <2>1, <2>2, NoOnesRow, OtherRequestIInv DEF Sending
  <1>3. CASE ~prime
    BY <1>1, <1>3, QuietIInv DEF LinkChild, OnboardingIInv, PeopleTyped
  <1> QED BY <1>2, <1>3

LEMMA LookUpStudentIInv ==
  ASSUME OnboardingIInv, NEW r \in Clerk, LookUpStudent(r)
  PROVE  OnboardingIInv'
  <1> DEFINE s == desk[r].who
  <1>1. desk[r].op = "look" /\ s \in Student /\ Registered(s)
    BY DEF LookUpStudent, OnboardingIInv, Remembers
  <1>2. UNCHANGED <<peopleRows, year, letterRows, raced, lost>>
    BY DEF LookUpStudent, peopleRows, letterRows
  <1>3. CASE person[s].account # Null
    BY <1>1, <1>2, <1>3, NoOnesRow, OtherRequestIInv DEF LookUpStudent, Sending
  <1>4. CASE person[s].account = Null
    <2>1. PICK c : c = [desk[r] EXCEPT !.op = "issue", !.num = person[s].number]
      OBVIOUS
    <2>2. desk' = [desk EXCEPT ![r] = c]
      BY <1>4, <2>1 DEF LookUpStudent, OnboardingIInv, PeopleTyped
    <2>3. c \in Job /\ c.op = "issue" /\ c.who = s /\ c.num = person[s].number
      BY <1>1, <2>1 DEF OnboardingIInv, PeopleTyped, Job, Row, Opt, Person
    <2> QED BY <1>1, <1>2, <2>2, <2>3, OtherRequestIInv DEF Sending
  <1> QED BY <1>3, <1>4

LEMMA EnrolRequestIInv ==
  ASSUME OnboardingIInv, NEW r \in Clerk,
         \/ \E s \in Student, k \in Class : ReadTransfer(r, s, k)
         \/ \E S \in SUBSET Student, st \in Status : BeginBulk(r, S, st)
         \/ Transfer(r) \/ BulkOne(r)
  PROVE  OnboardingIInv'
  <1>1. UNCHANGED <<peopleRows, year, letterRows, raced, lost>> /\ desk[r].op \notin Sending
    BY NoOnesRow DEF ReadTransfer, BeginBulk, Transfer, BulkOne, Begin, peopleRows, letterRows, Sending
  <1>2. \E c \in Job : c.op \in {"idle", "move", "bulk"} /\ desk' = [desk EXCEPT ![r] = c]
    <2>1. CASE Transfer(r)
      BY <2>1, NoOnesRow DEF Transfer, End
    <2>2. CASE \E s \in Student, k \in Class : ReadTransfer(r, s, k)
      <3>1. PICK s \in Student, k \in Class : ReadTransfer(r, s, k)
        BY <2>2
      <3> DEFINE c == [Idle EXCEPT !.op = "move", !.who = s, !.ref = k]
      <3>2. c \in Job /\ c.op = "move" /\ desk' = [desk EXCEPT ![r] = c]
        BY <3>1, NoOnesRow DEF Idle, Job, Opt, Person, ReadTransfer, Begin
      <3> QED BY <3>2
    <2>3. CASE \E S \in SUBSET Student, st \in Status : BeginBulk(r, S, st)
      <3>1. PICK S \in SUBSET Student, st \in Status : BeginBulk(r, S, st)
        BY <2>3
      <3> DEFINE c == [Idle EXCEPT !.op = "bulk", !.ref = st, !.batch = S]
      <3>2. c \in Job /\ c.op = "bulk" /\ desk' = [desk EXCEPT ![r] = c]
        BY <3>1, NoOnesRow DEF Idle, Job, Opt, BeginBulk, Begin
      <3> QED BY <3>2
    <2>4. CASE BulkOne(r)
      <3>1. PICK s \in desk[r].batch :
              desk' = [desk EXCEPT ![r] = IF desk[r].batch = {s} THEN Idle
                                          ELSE [desk[r] EXCEPT !.batch = @ \ {s}]]
        BY <2>4 DEF BulkOne
      <3> DEFINE rest == [desk[r] EXCEPT !.batch = @ \ {s}]
      <3>2. rest \in Job /\ rest.op = "bulk"
        <4>1. desk[r] \in Job /\ desk[r].op = "bulk"
          BY <2>4 DEF BulkOne, OnboardingIInv, PeopleTyped
        <4>2. desk[r].batch \ {s} \subseteq Student
          BY <4>1 DEF Job
        <4> QED BY <4>1, <4>2 DEF Job
      <3> HIDE DEF rest
      <3> QED BY <3>1, <3>2, NoOnesRow DEF rest
    <2> QED BY <2>1, <2>2, <2>3, <2>4
  <1> QED BY <1>1, <1>2, OtherRequestIInv

(* A crash: a password that was on its way is lost.                         *)
LEMMA CrashIInv ==
  ASSUME OnboardingIInv, NEW r \in Clerk, Crash(r)
  PROVE  OnboardingIInv'
  <1>1. End(r) /\ UNCHANGED <<peopleRows, year, letterRows, raced>> /\ lost \subseteq lost'
    BY DEF Crash, peopleRows, letterRows
  <1>2. desk[r].op \in Sending =>
            <<person[desk[r].who].account, IF desk[r].op = "send" THEN 1 ELSE desk[r].pw>> \in lost'
    BY DEF Crash, Sending
  <1>3. Mail'
    BY <1>1 DEF OnboardingIInv, Mail, peopleRows, letterRows
  <1> QED BY <1>1, <1>2, <1>3, EndIInv DEF letterRows

-----------------------------------------------------------------------------
(* Credentials *)

LEMMA SendFirstLoginIInv ==
  ASSUME OnboardingIInv, NEW r \in Clerk, SendFirstLogin(r)
  PROVE  OnboardingIInv'
  <1> DEFINE s == desk[r].who
             m == [about |-> s, account |-> person[s].account, pw |-> 1, to |-> desk[r].ref]
  <1>1. /\ desk[r].op = "send" /\ End(r) /\ mailed' = mailed \cup {m}
        /\ UNCHANGED <<peopleRows, year, handed, lost, raced>>
    BY DEF SendFirstLogin, peopleRows
  <1>2. s \in Student /\ person[s].account # Null
    BY <1>1 DEF OnboardingIInv, Remembers, Sending
  <1>3. m.about = s /\ m.account = person[s].account /\ m.pw = 1
    OBVIOUS
  <1> HIDE DEF s, m
  <1>4. Mail'
    BY <1>1, <1>2, <1>3 DEF OnboardingIInv, Mail, peopleRows
  <1> QED BY <1>1, <1>3, <1>4, EndIInv DEF s

LEMMA ReissueIInv ==
  ASSUME OnboardingIInv, NEW r \in Clerk, NEW s \in Student, Reissue(r, s)
  PROVE  OnboardingIInv'
  <1>1. PICK u \in Account : u = person[s].account
    BY DEF Reissue, OnboardingIInv, PeopleTyped, Row, Opt, Person
  <1>2. PICK g \in 1 .. MaxIssue : g = account[u].pw + 1
    BY <1>1, OnboardingAssumption DEF Reissue, OnboardingIInv, PeopleTyped, User
  <1> DEFINE c == [Idle EXCEPT !.op = "deliver", !.who = s, !.pw = g]
  <1>3. /\ desk[r] = Idle /\ desk' = [desk EXCEPT ![r] = c]
        /\ account' = [account EXCEPT ![u].pw = g]
        /\ UNCHANGED <<person, counter, issued, year, enquiry, letterRows, lost, raced>>
    BY <1>1, <1>2 DEF Reissue, Begin, letterRows
  <1>4. c \in Job /\ c.op = "deliver" /\ c.who = s /\ c.pw = g
    <2>1. g \in 0 .. MaxIssue
      BY <1>2, OnboardingAssumption
    <2> QED BY <2>1, NoOnesRow DEF Idle, Job, Opt, Person
  <1> HIDE DEF c
  <1>5. PeopleTyped'
    BY <1>2, <1>3, <1>4, OnboardingAssumption DEF OnboardingIInv, PeopleTyped, User
  <1>6. \A v \in Account : account'[v].login = account[v].login /\ (v # u => account'[v] = account[v])
    BY <1>3 DEF OnboardingIInv, PeopleTyped, User
  <1>7. account'[u].pw = g /\ desk'[r] = c /\ \A q \in Clerk \ {r} : desk'[q] = desk[q]
    BY <1>3 DEF OnboardingIInv, PeopleTyped, User
  <1>8. NeverReissued' /\ Sources' /\ Mail'
    BY <1>3 DEF OnboardingIInv, NeverReissued, Sources, Mail, letterRows
  <1>9. \A p \in Person : person[p].account \in Account \cup {Null}
    BY DEF OnboardingIInv, PeopleTyped, Row, Opt
  <1>10. Accounts' /\ LoginIsNumber'
    BY <1>3, <1>6, <1>9 DEF OnboardingIInv, Accounts, LoginIsNumber, Registered
  <1>11. \A q \in Clerk : Remembers(q)'
    BY <1>1, <1>3, <1>4, <1>7, NoOnesRow DEF OnboardingIInv, Remembers, Registering, Sending, Registered
  <1>12. Alone'
    BY <1>4, <1>7 DEF OnboardingIInv, Alone, Registering
  <1>13. PasswordReachesSomeone'
    <2>1. ASSUME NEW t \in Student, t # s, person[t].account # Null
          PROVE  person[t].account # u /\ person[t].account \in Account
      BY <1>1, <1>9, <2>1, NoOnesRow DEF OnboardingIInv, Accounts, Person
    <2> QED BY <1>1, <1>3, <1>4, <1>6, <1>7, <2>1, NoOnesRow DEF OnboardingIInv, PasswordReachesSomeone, letterRows
  <1> QED BY <1>5, <1>8, <1>10, <1>11, <1>12, <1>13 DEF OnboardingIInv

LEMMA DeliverIInv ==
  ASSUME OnboardingIInv, NEW r \in Clerk, Deliver(r)
  PROVE  OnboardingIInv'
  <1> DEFINE s == desk[r].who
             m == [about |-> s, account |-> person[s].account, pw |-> desk[r].pw, to |-> ContactOf(s)]
  <1>1. /\ desk[r].op = "deliver" /\ End(r) /\ UNCHANGED <<peopleRows, year, lost, raced>>
        /\ \/ /\ handed' = handed \cup {<<person[s].account, desk[r].pw>>}
              /\ mailed' = mailed
           \/ handed' = handed /\ mailed' = mailed \cup {m}
    BY DEF Deliver, InResponse, peopleRows
  <1>2. s \in Student /\ person[s].account # Null
    BY <1>1 DEF OnboardingIInv, Remembers, Sending
  <1>3. m.about = s /\ m.account = person[s].account /\ m.pw = desk[r].pw
    OBVIOUS
  <1> HIDE DEF s, m
  <1>4. Mail'
    BY <1>1, <1>2, <1>3 DEF OnboardingIInv, Mail, peopleRows
  <1> QED BY <1>1, <1>3, <1>4, EndIInv DEF s

-----------------------------------------------------------------------------
(* Rows *)

LEMMA UpdateEnquiryIInv ==
  ASSUME OnboardingIInv, NEW e \in Enquiry, NEW st \in {"CONTACTED", "CONVERTED", "CLOSED"}, UpdateEnquiry(e, st)
  PROVE  OnboardingIInv'
  <1>1. /\ enquiry' = [enquiry EXCEPT ![e] =
               [status |-> st, edited |-> (@.edited \/ (@.status = "CONVERTED" /\ st # "CONVERTED"))]]
        /\ UNCHANGED <<person, counter, issued, year, account, letterRows, lost, raced, desk>>
    BY DEF UpdateEnquiry, letterRows
  <1>2. PeopleTyped'
    BY <1>1 DEF OnboardingIInv, PeopleTyped
  <1>3. enquiry'[e].status = st /\ \A d \in Enquiry \ {e} : enquiry'[d] = enquiry[d]
    BY <1>1 DEF OnboardingIInv, PeopleTyped
  <1>4. \A p \in Person : person[p].from \in Enquiry \cup {Null}
    BY DEF OnboardingIInv, PeopleTyped, Row, Opt
  <1>5. enquiry'[e].edited \/ (~enquiry[e].edited /\ (enquiry[e].status = "CONVERTED" => st = "CONVERTED"))
    BY <1>1 DEF OnboardingIInv, PeopleTyped
  <1>6. Sources'
    BY <1>1, <1>3, <1>4, <1>5 DEF OnboardingIInv, Sources
  <1> QED BY <1>1, <1>2, <1>6 DEF OnboardingIInv, NeverReissued, Accounts, Mail, Remembers, Alone,
          PasswordReachesSomeone, LoginIsNumber, Registered, letterRows

LEMMA ConvertEnquiryIInv ==
  ASSUME OnboardingIInv, NEW r \in Clerk, ConvertEnquiry(r)
  PROVE  OnboardingIInv'
  <1>0. PICK s \in Person, n \in Number, e \in Enquiry :
            s = desk[r].who /\ n = desk[r].num /\ e = desk[r].ref /\ ~Registered(s)
    BY DEF ConvertEnquiry, OnboardingIInv, Remembers, Registering
  <1>1. /\ desk[r].op = "convert" /\ End(r)
        /\ UNCHANGED <<counter, issued, year, account, letterRows, lost, raced>>
    BY DEF ConvertEnquiry, letterRows
  <1>2. CASE UNCHANGED <<person, enquiry>>
    <2>1. Mail'
      BY <1>1, <1>2 DEF OnboardingIInv, Mail, letterRows
    <2> QED BY <1>1, <1>2, <2>1, EndIInv DEF peopleRows, letterRows, Sending
  <1>3. CASE /\ enquiry[e].status # "CONVERTED"
             /\ person' = [person EXCEPT ![s].number = n, ![s].from = e]
             /\ enquiry' = [enquiry EXCEPT ![e].status = "CONVERTED"]
    <2>1. /\ person'[s].number = n /\ person'[s].from = e /\ person'[s].account = person[s].account
          /\ \A p \in Person \ {s} : person'[p] = person[p]
      BY <1>3 DEF OnboardingIInv, PeopleTyped, Row
    <2>2. person[s].account = Null
      BY <1>0 DEF OnboardingIInv, Accounts
    <2>3. /\ enquiry'[e].status = "CONVERTED" /\ enquiry'[e].edited = enquiry[e].edited
          /\ \A d \in Enquiry \ {e} : enquiry'[d] = enquiry[d]
      BY <1>3 DEF OnboardingIInv, PeopleTyped
    <2>4. desk' = [desk EXCEPT ![r] = Idle] /\ desk'[r].op = "idle"
      BY <1>1, NoOnesRow DEF End, OnboardingIInv, PeopleTyped
    <2>5. PeopleTyped'
      BY <1>1, <1>3, <2>4, NoOnesRow DEF OnboardingIInv, PeopleTyped, Row, Opt
    <2>6. NeverReissued' /\ Mail' /\ Accounts'
      BY <1>0, <1>1, <2>1, <2>2, NoOnesRow DEF OnboardingIInv, NeverReissued, Mail, Accounts, Registered, letterRows, Person
    <2>7. \A p \in Person : person[p].from \in Enquiry \cup {Null}
      BY DEF OnboardingIInv, PeopleTyped, Row, Opt
    <2>8. Sources'
      <3>1. \A q \in Person : person[q].from = e => enquiry[e].edited
        BY <1>3, OnboardingAssumption DEF OnboardingIInv, Sources
      <3>2. SUFFICES ASSUME NEW p \in Person, person'[p].from # Null, ~enquiry'[person'[p].from].edited
                     PROVE  /\ enquiry'[person'[p].from].status = "CONVERTED"
                            /\ \A q \in Person : person'[q].from = person'[p].from => q = p
        BY DEF Sources
      <3>3. CASE p = s
        BY <2>1, <2>3, <3>1, <3>2, <3>3
      <3>4. CASE p # s
        <4>1. person'[p] = person[p] /\ person[p].from \in Enquiry \ {e}
          BY <2>1, <2>3, <2>7, <3>1, <3>2, <3>4
        <4>2. enquiry'[person[p].from] = enquiry[person[p].from]
          BY <2>3, <4>1
        <4> QED BY <2>1, <3>2, <4>1, <4>2 DEF OnboardingIInv, Sources
      <3> QED BY <3>3, <3>4
    <2>9. \A q \in Clerk \ {r} : desk'[q] = desk[q] /\ (desk[q].op \in Registering => desk[q].who # s)
      BY <1>0, <1>1, <2>4 DEF OnboardingIInv, PeopleTyped, Alone, Registering
    <2>10. \A q \in Clerk : Remembers(q)'
      <3>1. Remembers(r)'
        BY <2>4 DEF Remembers, Registering, Sending
      <3>2. ASSUME NEW q \in Clerk \ {r} PROVE Remembers(q)'
        BY <1>0, <1>1, <2>1, <2>9, NoOnesRow DEF OnboardingIInv, Remembers, Registered, Registering, Sending, Person
      <3> QED BY <3>1, <3>2
    <2>11. Alone'
      BY <2>4, <2>9 DEF OnboardingIInv, Alone, Registering
    <2>12. LoginIsNumber'
      BY <1>1, <2>1, <2>2 DEF OnboardingIInv, LoginIsNumber
    <2>13. PasswordReachesSomeone'
      <3>1. \A t \in Student : person'[t].account = person[t].account
        BY <2>1 DEF Person
      <3>2. desk[r].op \notin Sending
        BY <1>1 DEF Sending
      <3> QED BY <1>1, <2>9, <3>1, <3>2 DEF OnboardingIInv, PasswordReachesSomeone, letterRows, Sending
    <2> QED BY <2>5, <2>6, <2>8, <2>10, <2>11, <2>12, <2>13 DEF OnboardingIInv
  <1> QED BY <1>0, <1>2, <1>3 DEF ConvertEnquiry, Claimable

(* A row of User that is free is nobody's.                                  *)
LEMMA NewAccountIsFree ==
  ASSUME OnboardingIInv, Fresh # {}
  PROVE  NewAccount \in Account /\ \A p \in Person : person[p].account # NewAccount
  <1>1. NewAccount \in Account /\ account[NewAccount].login = Null
    BY DEF NewAccount, Fresh
  <1> QED BY <1>1, NoOnesRow DEF OnboardingIInv, Accounts

LEMMA InsertPersonIInv ==
  ASSUME OnboardingIInv, NEW r \in Clerk, InsertPerson(r)
  PROVE  OnboardingIInv'
  <1>0. PICK p \in Person, n \in Number : p = desk[r].who /\ n = desk[r].num /\ ~Registered(p)
    BY DEF InsertPerson, OnboardingIInv, Remembers, Registering
  <1>1. /\ desk[r].op = "insert" /\ End(r)
        /\ UNCHANGED <<year, enquiry, letterRows, lost, raced>>
    BY DEF InsertPerson, letterRows
  <1>2. CASE UNCHANGED <<person, counter, issued, account>>
    <2>1. Mail'
      BY <1>1, <1>2 DEF OnboardingIInv, Mail, letterRows
    <2> QED BY <1>1, <1>2, <2>1, EndIInv DEF peopleRows, letterRows, Sending
  <1>3. CASE /\ counter' = [counter EXCEPT ![n.prefix] = Bumped(n.prefix, n.seq)]
             /\ issued' = issued \cup {n}
             /\ \/ /\ p \in Staff /\ Fresh # {}
                   /\ account' = [account EXCEPT ![NewAccount] = [login |-> n, pw |-> 1]]
                   /\ person' = [person EXCEPT ![p].number = n, ![p].account = NewAccount]
                \/ account' = account /\ person' = [person EXCEPT ![p].number = n]
    <2>1. /\ person'[p].number = n /\ person'[p].from = person[p].from
          /\ \A q \in Person \ {p} : person'[q] = person[q]
          /\ \A t \in Student : person'[t].account = person[t].account
      BY <1>3, OnboardingAssumption DEF OnboardingIInv, PeopleTyped, Row, Person
    <2>2. person[p].account = Null
      BY <1>0 DEF OnboardingIInv, Accounts
    <2>3. desk' = [desk EXCEPT ![r] = Idle] /\ desk'[r].op = "idle"
      BY <1>1, NoOnesRow DEF End, OnboardingIInv, PeopleTyped
    <2>4. PeopleTyped'
      <3>1. n.prefix \in Prefix /\ n.seq \in 1 .. MaxSequence
        BY DEF Number
      <3>2. counter' \in [Prefix -> 0 .. MaxSequence]
        BY <1>3, <3>1, OnboardingAssumption DEF OnboardingIInv, PeopleTyped, Bumped
      <3>3. account' \in [Account -> User]
        BY <1>3, NewAccountIsFree, OnboardingAssumption DEF OnboardingIInv, PeopleTyped, User, Opt
      <3>4. person' \in [Person -> Row]
        BY <1>3, NewAccountIsFree DEF OnboardingIInv, PeopleTyped, Row, Opt
      <3> QED BY <1>1, <1>3, <2>3, <3>2, <3>3, <3>4, NoOnesRow DEF OnboardingIInv, PeopleTyped
    <2>5. NeverReissued'
      <3>1. n.prefix \in Prefix /\ n.seq \in Nat
        BY DEF Number
      <3>2. \A x \in Prefix : counter[x] \in Nat /\ counter'[x] >= counter[x]
        BY <1>3, <3>1 DEF OnboardingIInv, PeopleTyped, Bumped
      <3>3. counter'[n.prefix] >= n.seq
        BY <1>3, <3>1 DEF OnboardingIInv, PeopleTyped, Bumped
      <3>4. \A m \in issued : m.prefix \in Prefix /\ m.seq \in Nat /\ m.seq <= counter[m.prefix]
        BY DEF OnboardingIInv, PeopleTyped, NeverReissued, Number
      <3>5. \A x \in Prefix : counter'[x] \in Nat
        BY <2>4 DEF PeopleTyped
      <3> QED BY <1>3, <3>1, <3>2, <3>3, <3>4, <3>5 DEF NeverReissued
    <2>6. Accounts' /\ LoginIsNumber'
      <3>1. CASE account' = account /\ person' = [person EXCEPT ![p].number = n]
        <4>1. \A q \in Person : person'[q].account = person[q].account
          BY <3>1, <2>1 DEF OnboardingIInv, PeopleTyped, Row
        <4> QED BY <1>1, <2>1, <2>2, <3>1, <4>1, NoOnesRow DEF OnboardingIInv, Accounts, LoginIsNumber, Registered
      <3>2. CASE /\ p \in Staff /\ Fresh # {}
                 /\ account' = [account EXCEPT ![NewAccount] = [login |-> n, pw |-> 1]]
                 /\ person' = [person EXCEPT ![p].number = n, ![p].account = NewAccount]
        <4>1. PICK u \in Account : u = NewAccount /\ \A q \in Person : person[q].account # u
          BY <3>2, NewAccountIsFree
        <4>2. person'[p].account = u /\ account'[u].login = n
          BY <3>2, <4>1 DEF OnboardingIInv, PeopleTyped, Row
        <4>3. \A v \in Account \ {u} : account'[v] = account[v]
          BY <3>2, <4>1 DEF OnboardingIInv, PeopleTyped
        <4>4. \A q \in Person : person[q].account \in Account \cup {Null}
          BY DEF OnboardingIInv, PeopleTyped, Row, Opt
        <4> QED BY <1>1, <2>1, <4>1, <4>2, <4>3, <4>4, NoOnesRow DEF OnboardingIInv, Accounts, LoginIsNumber, Registered
      <3> QED BY <1>3, <3>1, <3>2
    <2>7. Sources' /\ Mail'
      BY <1>1, <2>1 DEF OnboardingIInv, Sources, Mail, letterRows, Person
    <2>8. \A q \in Clerk \ {r} : desk'[q] = desk[q] /\ (desk[q].op \in Registering => desk[q].who # p)
      BY <1>0, <1>1, <2>3 DEF OnboardingIInv, PeopleTyped, Alone, Registering
    <2>9. \A q \in Clerk : Remembers(q)'
      <3>1. Remembers(r)'
        BY <2>3 DEF Remembers, Registering, Sending
      <3>2. ASSUME NEW q \in Clerk \ {r} PROVE Remembers(q)'
        BY <1>0, <1>1, <2>1, <2>8, NoOnesRow DEF OnboardingIInv, Remembers, Registered, Registering, Sending, Person
      <3> QED BY <3>1, <3>2
    <2>10. Alone'
      BY <2>3, <2>8 DEF OnboardingIInv, Alone, Registering
    <2>11. PasswordReachesSomeone'
      <3>1. \A t \in Student : person[t].account # Null => account'[person[t].account] = account[person[t].account]
        <4>1. \A t \in Student : person[t].account \in Account \cup {Null}
          BY DEF OnboardingIInv, PeopleTyped, Row, Opt, Person
        <4> QED BY <1>3, <4>1, NewAccountIsFree DEF OnboardingIInv, PeopleTyped, Person
      <3>2. desk[r].op \notin Sending
        BY <1>1 DEF Sending
      <3> QED BY <1>1, <2>1, <2>8, <3>1, <3>2 DEF OnboardingIInv, PasswordReachesSomeone, letterRows, Sending
    <2> QED BY <2>4, <2>5, <2>6, <2>7, <2>9, <2>10, <2>11 DEF OnboardingIInv
  <1> QED BY <1>0, <1>2, <1>3 DEF InsertPerson

LEMMA UpdatePersonIInv ==
  ASSUME OnboardingIInv, NEW p \in Person, NEW n \in Opt(Number), NEW st \in Opt(Status), UpdatePerson(p, n, st)
  PROVE  OnboardingIInv'
  <1>1. Registered(p) /\ UNCHANGED <<counter, issued, year, enquiry, letterRows, lost, desk>>
    BY DEF UpdatePerson, letterRows
  <1>2. CASE n = Null
    BY <1>1, <1>2, QuietIInv DEF UpdatePerson, peopleRows, OnboardingIInv, PeopleTyped
  <1>3. CASE n # Null
    <2>1. /\ person' = [person EXCEPT ![p].number = n] /\ account' = Renamed(p, n)
          /\ raced' = IF HoldsOldNumber(p) THEN raced \cup {p} ELSE raced
      BY <1>3 DEF UpdatePerson
    <2>2. n \in Number
      BY <1>3 DEF Opt
    <2>3. /\ person'[p].number = n /\ \A q \in Person \ {p} : person'[q] = person[q]
          /\ \A q \in Person : person'[q].account = person[q].account /\ person'[q].from = person[q].from
      BY <2>1 DEF OnboardingIInv, PeopleTyped, Row
    <2>4. \A q \in Person : person[q].account \in Account \cup {Null}
      BY DEF OnboardingIInv, PeopleTyped, Row, Opt
    <2>5. /\ \A v \in Account : account'[v].pw = account[v].pw
          /\ \A v \in Account : account[v].login # Null => account'[v].login # Null
          /\ \A v \in Account : v # person[p].account => account'[v] = account[v]
          /\ person[p].account # Null => account'[person[p].account].login = n
      BY <2>1, <2>2, <2>4, NoOnesRow DEF Renamed, OnboardingIInv, PeopleTyped, User
    <2>6. PeopleTyped'
      BY <1>1, <2>1, <2>2, <2>4 DEF OnboardingIInv, PeopleTyped, Row, User, Opt, Renamed
    <2>7. NeverReissued' /\ Alone'
      BY <1>1 DEF OnboardingIInv, NeverReissued, Alone
    <2>8. \A q \in Person : Registered(q) => Registered(q)'
      BY <2>2, <2>3, NoOnesRow DEF Registered
    <2>9. Accounts' /\ LoginIsNumber'
      BY <2>1, <2>3, <2>4, <2>5, <2>8, NoOnesRow DEF OnboardingIInv, Accounts, LoginIsNumber
    <2>10. Sources' /\ Mail'
      BY <1>1, <2>3 DEF OnboardingIInv, Sources, Mail, letterRows, Person
    <2>11. ASSUME NEW r \in Clerk PROVE Remembers(r)'
      <3>1. desk'[r] = desk[r] /\ Remembers(r)
        BY <1>1 DEF OnboardingIInv
      <3>2. desk[r].op \in Registering => desk[r].who # p /\ ~Registered(desk[r].who)'
        BY <1>1, <2>3, <3>1 DEF Remembers, Registered
      <3>3. desk[r].op = "issue" => desk[r].num = person'[desk[r].who].number \/ desk[r].who \in raced'
        BY <2>1, <2>3, <3>1 DEF Remembers, HoldsOldNumber, Person
      <3> QED BY <2>3, <2>8, <3>1, <3>2, <3>3 DEF Remembers, Person
    <2>12. PasswordReachesSomeone'
      BY <1>1, <2>3, <2>4, <2>5, NoOnesRow DEF OnboardingIInv, PasswordReachesSomeone, letterRows, Person
    <2> QED BY <2>6, <2>7, <2>9, <2>10, <2>11, <2>12 DEF OnboardingIInv
  <1> QED BY <1>2, <1>3

LEMMA IssueLoginIInv ==
  ASSUME OnboardingIInv, NEW r \in Clerk, IssueLogin(r)
  PROVE  OnboardingIInv'
  <1>0. PICK s \in Student, n \in Number :
            /\ s = desk[r].who /\ n = desk[r].num /\ Registered(s)
            /\ n = person[s].number \/ s \in raced
    BY DEF IssueLogin, OnboardingIInv, Remembers
  <1>1. /\ desk[r].op = "issue" /\ Fresh # {}
        /\ UNCHANGED <<counter, issued, year, enquiry, letterRows, lost, raced>>
    BY DEF IssueLogin, letterRows
  <1>2. PICK u \in Account : u = NewAccount /\ \A p \in Person : person[p].account # u
    BY <1>1, NewAccountIsFree
  <1>3. CASE End(r) /\ UNCHANGED <<account, person>>
    <2>1. Mail'
      BY <1>1, <1>3 DEF OnboardingIInv, Mail, letterRows
    <2> QED BY <1>1, <1>3, <2>1, EndIInv DEF peopleRows, letterRows, Sending
  <1>4. CASE /\ account' = [account EXCEPT ![u] = [login |-> n, pw |-> 1]]
             /\ \/ /\ person[s].account = Null
                   /\ person' = [person EXCEPT ![s].account = u]
                   /\ desk' = [desk EXCEPT ![r].op = "send"]
                \/ person' = person /\ desk' = [desk EXCEPT ![r] = Idle]
    <2>1. account'[u].login = n /\ account'[u].pw = 1 /\ \A v \in Account \ {u} : account'[v] = account[v]
      BY <1>4 DEF OnboardingIInv, PeopleTyped
    <2>2. \A p \in Person : person[p].account \in (Account \ {u}) \cup {Null}
      BY <1>2 DEF OnboardingIInv, PeopleTyped, Row, Opt
    <2>3. PICK c \in Job :
             /\ desk' = [desk EXCEPT ![r] = c]
             /\ \/ c.op = "idle" /\ person' = person
                \/ /\ c.op = "send" /\ c.who = s /\ person[s].account = Null
                   /\ person' = [person EXCEPT ![s].account = u]
      <3>1. CASE desk' = [desk EXCEPT ![r] = Idle] /\ person' = person
        BY <3>1, NoOnesRow
      <3>2. CASE /\ person[s].account = Null /\ person' = [person EXCEPT ![s].account = u]
                 /\ desk' = [desk EXCEPT ![r].op = "send"]
        <4>1. desk[r] \in Job
          BY DEF OnboardingIInv, PeopleTyped
        <4>2. [desk[r] EXCEPT !.op = "send"] \in Job /\ [desk[r] EXCEPT !.op = "send"].who = s
          BY <1>0, <4>1 DEF Job
        <4>3. desk' = [desk EXCEPT ![r] = [desk[r] EXCEPT !.op = "send"]]
          BY <3>2 DEF OnboardingIInv, PeopleTyped
        <4>4. [desk[r] EXCEPT !.op = "send"].op = "send"
          BY <4>1 DEF Job
        <4> QED BY <3>2, <4>2, <4>3, <4>4
      <3> QED BY <1>4, <3>1, <3>2
    <2>4. desk'[r] = c /\ \A q \in Clerk \ {r} : desk'[q] = desk[q]
      BY <2>3 DEF OnboardingIInv, PeopleTyped
    <2>5. /\ \A p \in Person : person'[p].number = person[p].number /\ person'[p].from = person[p].from
          /\ \A p \in Person \ {s} : person'[p] = person[p]
          /\ \/ person'[s].account = person[s].account /\ c.op = "idle"
             \/ person[s].account = Null /\ person'[s].account = u /\ c.op = "send" /\ c.who = s
      BY <2>3 DEF OnboardingIInv, PeopleTyped, Row, Person
    <2>6. PeopleTyped'
      <3>1. [login |-> n, pw |-> 1] \in User
        BY OnboardingAssumption DEF User, Opt
      <3>2. person' \in [Person -> Row]
        BY <2>3 DEF OnboardingIInv, PeopleTyped, Row, Opt
      <3> QED BY <1>1, <1>4, <2>3, <3>1, <3>2 DEF OnboardingIInv, PeopleTyped
    <2>7. NeverReissued' /\ Sources'
      BY <1>1, <2>5 DEF OnboardingIInv, NeverReissued, Sources
    <2>8. \A p \in Person : Registered(p)' <=> Registered(p)
      BY <2>5 DEF Registered
    <2>9. Accounts' /\ LoginIsNumber'
      BY <1>0, <1>1, <2>1, <2>2, <2>5, <2>8, NoOnesRow DEF OnboardingIInv, Accounts, LoginIsNumber, Person
    <2>10. Mail'
      BY <1>1, <2>5 DEF OnboardingIInv, Mail, letterRows, Person
    <2>11. ASSUME NEW q \in Clerk PROVE Remembers(q)'
      <3>1. CASE q = r
        BY <1>0, <2>4, <2>5, <3>1, NoOnesRow DEF Remembers, Registering, Sending
      <3>2. CASE q # r
        <4>1. desk'[q] = desk[q] /\ Remembers(q)
          BY <2>4, <3>2 DEF OnboardingIInv
        <4>2. desk[q].op \in Sending => person'[desk[q].who].account # Null
          BY <2>5, <4>1, NoOnesRow DEF Remembers, Person
        <4> QED BY <1>1, <2>5, <2>8, <4>1, <4>2 DEF Remembers, Person
      <3> QED BY <3>1, <3>2
    <2>12. Alone'
      BY <2>4, <2>5 DEF OnboardingIInv, Alone, Registering
    <2>13. PasswordReachesSomeone'
      <3>1. ASSUME NEW t \in Student, person'[t].account = person[t].account
            PROVE  \/ person[t].account = Null
                   \/ <<person[t].account, account'[person[t].account].pw>> \in handed \cup lost
                   \/ \E m \in mailed : /\ m.account = person[t].account
                                        /\ m.pw = account'[person[t].account].pw
                   \/ \E q \in Clerk :
                        /\ desk'[q].who = t
                        /\ \/ desk'[q].op = "send" /\ account'[person[t].account].pw = 1
                           \/ desk'[q].op = "deliver" /\ desk'[q].pw = account'[person[t].account].pw
        <4>1. person[t].account # Null => account'[person[t].account] = account[person[t].account]
          BY <2>1, <2>2 DEF Person
        <4>2. desk[r].op \notin Sending
          BY <1>1 DEF Sending
        <4> QED BY <2>4, <4>1, <4>2 DEF OnboardingIInv, PasswordReachesSomeone, Sending
      <3>2. \A t \in Student \ {s} : person'[t].account = person[t].account
        BY <2>5 DEF Person
      <3>3. CASE person'[s].account = person[s].account
        BY <1>1, <3>1, <3>2, <3>3 DEF PasswordReachesSomeone, letterRows
      <3>4. CASE person'[s].account = u /\ c.op = "send" /\ c.who = s
        BY <1>1, <2>1, <2>4, <3>1, <3>2, <3>4 DEF PasswordReachesSomeone, letterRows
      <3> QED BY <2>5, <3>3, <3>4
    <2> QED BY <2>6, <2>7, <2>9, <2>10, <2>11, <2>12, <2>13 DEF OnboardingIInv
  <1> QED BY <1>0, <1>2, <1>3, <1>4 DEF IssueLogin, Unclaimed, End

-----------------------------------------------------------------------------
LEMMA OnboardingNextIInv == OnboardingIInv /\ [OnboardingNext]_onboardingVars => OnboardingIInv'
  <1> SUFFICES ASSUME OnboardingIInv, [OnboardingNext]_onboardingVars PROVE OnboardingIInv'
    OBVIOUS
  <1>1. CASE RegistryNext
    <2>1. CASE ChangeYear
      BY <2>1, QuietIInv DEF ChangeYear, peopleRows, letterRows, Opt
    <2>2. Null \in Opt(Status) /\ Number \subseteq Opt(Number)
      BY DEF Opt
    <2> QED BY <1>1, <2>1, <2>2, TakeNumberIInv, ReadEnquiryIInv, InsertPersonIInv, ConvertEnquiryIInv, CrashIInv,
            UpdatePersonIInv, UpdateEnquiryIInv DEF RegistryNext
  <1>2. CASE LoginNext
    <2>1. CASE \E q \in Parent, s \in Student : UnlinkChild(q, s)
      BY <2>1, QuietIInv DEF UnlinkChild, peopleRows, letterRows, OnboardingIInv, PeopleTyped
    <2>2. Null \in Opt(Status) /\ Number \subseteq Opt(Number)
      BY DEF Opt
    <2> QED BY <1>2, <2>1, <2>2, LinkChildIInv, ReissueIInv, LookUpStudentIInv, IssueLoginIInv, SendFirstLoginIInv,
            DeliverIInv, CrashIInv, UpdatePersonIInv DEF LoginNext
  <1>3. CASE EnrolNext
    <2>1. CASE \E s \in Student, c \in Class : CreateEnrollment(s, c)
      BY <2>1, QuietIInv DEF CreateEnrollment, peopleRows, letterRows, OnboardingIInv, PeopleTyped
    <2>2. Null \in Opt(Number) /\ Status \subseteq Opt(Status) /\ Student \subseteq Person
      BY DEF Opt, Person
    <2> QED BY <1>3, <2>1, <2>2, EnrolRequestIInv, CrashIInv, UpdatePersonIInv DEF EnrolNext
  <1>4. CASE UNCHANGED onboardingVars
    BY <1>4, QuietIInv DEF onboardingVars, peopleRows, letterRows, OnboardingIInv, PeopleTyped
  <1> QED BY <1>1, <1>2, <1>3, <1>4 DEF OnboardingNext

LEMMA OnboardingInvariance == OnboardingSpec => []OnboardingIInv
  BY OnboardingInitIInv, OnboardingNextIInv, PTL DEF OnboardingSpec

(* A number once given is behind its counter for good                       *)
(* (identifiers.service.ts:28-50, 97-112).                                  *)
THEOREM NumbersAreSpent == OnboardingSpec => []NeverReissued
  <1>1. OnboardingIInv => NeverReissued
    BY DEF OnboardingIInv
  <1> QED BY <1>1, OnboardingInvariance, PTL

(* An enquiry becomes one student, until its status is edited back          *)
(* (admissions.service.ts:43-87).                                           *)
THEOREM ConvertedOnce == OnboardingSpec => []OneStudentPerEnquiry
  <1>1. ASSUME OnboardingIInv, NEW e \in Enquiry, ~enquiry[e].edited
        PROVE  Cardinality({p \in Person : person[p].from = e}) <= 1
    <2> DEFINE S == {p \in Person : person[p].from = e}
    <2>1. \A p, q \in S : p = q
      BY <1>1, OnboardingAssumption DEF OnboardingIInv, Sources
    <2>2. Cardinality(S) \in {0, 1}
      <3>1. CASE S = {}
        BY <3>1, FS_EmptySet
      <3>2. CASE S # {}
        <4>1. PICK p \in S : S = {p}
          BY <2>1, <3>2
        <4> QED BY <4>1, FS_Singleton
      <3> QED BY <3>1, <3>2
    <2> QED BY <2>2
  <1>2. OnboardingIInv => OneStudentPerEnquiry
    BY <1>1 DEF OneStudentPerEnquiry
  <1> QED BY <1>2, OnboardingInvariance, PTL

(* Credentials are only sent for the account the student is linked to       *)
(* (students.service.ts:61-107).                                            *)
THEOREM MailOpensTheAccount == OnboardingSpec => []CredentialsOpenTheAccount
  <1>1. OnboardingIInv => CredentialsOpenTheAccount
    BY DEF OnboardingIInv, Mail, CredentialsOpenTheAccount
  <1> QED BY <1>1, OnboardingInvariance, PTL

(* The temporary password in force was sent, handed over, is on its way or  *)
(* was cut off by a crash (students.service.ts:83-107,                      *)
(* users.service.ts:196-219).                                               *)
THEOREM PasswordsAreDelivered == OnboardingSpec => []PasswordReachesSomeone
  <1>1. OnboardingIInv => PasswordReachesSomeone
    BY DEF OnboardingIInv
  <1> QED BY <1>1, OnboardingInvariance, PTL

(* The login ID is the number, but after one race                           *)
(* (students.service.ts:353-367, staff.service.ts:159-171).                 *)
THEOREM LoginsAreNumbers == OnboardingSpec => []LoginIsNumber
  <1>1. OnboardingIInv => LoginIsNumber
    BY DEF OnboardingIInv
  <1> QED BY <1>1, OnboardingInvariance, PTL

-----------------------------------------------------------------------------
(* The other tables of Onboarding: families, messages and enrolments. Their *)
(* types need what a request still under way refers to.                     *)

Family == [parents : Seq(Parent), primary : Opt(Parent)]
Seated == [class : Class, status : {"ACTIVE", "GRADUATED", "WITHDRAWN"}]

FamilyTyped(x) ==
    /\ x \in Family /\ IsInjective(x.parents) /\ x.primary \in Opt(ToSet(x.parents))

Refers(r) ==
    LET j == desk[r] IN
    /\ j.op \in {"look", "issue", "send"} => j.ref \in Parent
    /\ j.op = "deliver" => j.pw \in 1 .. MaxIssue
    /\ j.op = "move" => j.who \in Student /\ enrolment[j.who] # Null /\ j.ref \in Class
    /\ j.op = "bulk" => j.ref \in Status

FamiliesTyped == contact \in [Student -> Family] /\ \A s \in Student : FamilyTyped(contact[s])
LettersTyped ==
    /\ mailed \subseteq Message /\ handed \subseteq Account \X (1 .. MaxIssue)
    /\ lost \subseteq Account \X (1 .. MaxIssue) /\ raced \subseteq Person
PupilsTyped == status \in [Student -> Status] /\ enrolment \in [Student -> Opt(Seated)]

OfficeIInv == FamiliesTyped /\ LettersTyped /\ PupilsTyped /\ \A r \in Clerk : Refers(r)

LEMMA OfficeTypes == OnboardingIInv /\ OfficeIInv => OnboardingTypeOK
  BY DEF OnboardingIInv, PeopleTyped, OfficeIInv, FamiliesTyped, LettersTyped, PupilsTyped, FamilyTyped,
     Family, Seated, OnboardingTypeOK

LEMMA OfficeStartIInv ==
  ASSUME NEW known, NEW y, OnboardingStart(known, y)
  PROVE  OfficeIInv
  <1> DEFINE x == [parents |-> <<>>, primary |-> Null]
  <1>1. contact = [s \in Student |-> x] /\ mailed = {} /\ handed = {} /\ lost = {} /\ raced = {}
        /\ status = [s \in Student |-> "ACTIVE"] /\ enrolment = [s \in Student |-> Null]
        /\ desk = [r \in Clerk |-> Idle]
    BY DEF OnboardingStart
  <1>2. FamilyTyped(x)
    BY DEF FamilyTyped, Family, IsInjective, Opt
  <1> HIDE DEF x
  <1>3. FamiliesTyped
    BY <1>1, <1>2 DEF FamiliesTyped, FamilyTyped
  <1> QED BY <1>1, <1>3, NoOnesRow
          DEF OfficeIInv, LettersTyped, PupilsTyped, Status, Opt, Refers

(* A step that leaves those tables alone.                                   *)
officeRows == <<contact, mailed, handed, lost, raced, status, enrolment>>
LEMMA DeskOfficeIInv ==
  ASSUME OnboardingIInv, OfficeIInv, UNCHANGED officeRows, NEW r \in Clerk, NEW j \in Job,
         desk' = [desk EXCEPT ![r] = j],
         j.op \in {"look", "issue", "send"} => j.ref \in Parent,
         j.op = "deliver" => j.pw \in 1 .. MaxIssue,
         j.op = "move" => j.who \in Student /\ enrolment[j.who] # Null /\ j.ref \in Class,
         j.op = "bulk" => j.ref \in Status
  PROVE  OfficeIInv'
  <1>1. desk'[r] = j /\ \A q \in Clerk \ {r} : desk'[q] = desk[q]
    BY DEF OnboardingIInv, PeopleTyped
  <1>2. \A q \in Clerk : Refers(q)'
    BY <1>1 DEF OfficeIInv, Refers, officeRows
  <1> QED BY <1>2 DEF OfficeIInv, FamiliesTyped, LettersTyped, PupilsTyped, officeRows

LEMMA EndOfficeIInv ==
  ASSUME OnboardingIInv, OfficeIInv, UNCHANGED officeRows, NEW r \in Clerk, End(r)
  PROVE  OfficeIInv'
  <1>1. Idle \in Job /\ Idle.op = "idle"
    BY NoOnesRow
  <1> QED BY <1>1, DeskOfficeIInv DEF End

LEMMA EnrolmentOfficeIInv ==
  ASSUME OnboardingIInv, OfficeIInv, UNCHANGED <<contact, mailed, handed, lost, raced>>, PupilsTyped',
         \A s \in Student : enrolment[s] # Null => enrolment'[s] # Null,
         \A r \in Clerk : \/ desk'[r].op = "idle"
                          \/ desk'[r] = desk[r]
                          \/ desk'[r].op = "bulk" /\ desk'[r].ref \in Status
  PROVE  OfficeIInv'
  <1>1. \A q \in Clerk : Refers(q)'
    BY DEF OfficeIInv, Refers
  <1> QED BY <1>1 DEF OfficeIInv, FamiliesTyped, LettersTyped

LEMMA ClosedTyped ==
  ASSUME OfficeIInv, NEW s \in Student, NEW st \in Status
  PROVE  /\ Closed(s, st) \in [Student -> Opt(Seated)]
         /\ \A t \in Student : enrolment[t] # Null => Closed(s, st)[t] # Null
  <1>1. enrolment \in [Student -> Opt(Seated)]
    BY DEF OfficeIInv, PupilsTyped
  <1>2. CASE ClosedBy(st) /\ enrolment[s] # Null /\ enrolment[s].status = "ACTIVE"
    <2>1. PICK x : x = [enrolment[s] EXCEPT !.status = st]
      OBVIOUS
    <2>2. enrolment[s] \in Seated
      BY <1>1, <1>2 DEF Opt
    <2>3. x \in Seated /\ x # Null
      <3>1. x \in Seated
        BY <1>2, <2>1, <2>2 DEF Seated, ClosedBy
      <3> QED BY <3>1, OnboardingAssumption DEF Seated, Status
    <2>4. Closed(s, st) = [enrolment EXCEPT ![s] = x]
      BY <1>2, <2>1 DEF Closed
    <2> QED BY <1>1, <2>3, <2>4 DEF Opt
  <1>3. CASE ~(ClosedBy(st) /\ enrolment[s] # Null /\ enrolment[s].status = "ACTIVE")
    BY <1>1, <1>3 DEF Closed
  <1> QED BY <1>2, <1>3

LEMMA EnrolOfficeIInv ==
  ASSUME OnboardingIInv, OfficeIInv, NEW r \in Clerk, Transfer(r) \/ BulkOne(r)
  PROVE  OfficeIInv'
  <1>1. status \in [Student -> Status] /\ enrolment \in [Student -> Opt(Seated)] /\ Null \notin Seated
    BY OnboardingAssumption DEF OfficeIInv, PupilsTyped, Seated, Status
  <1>2. CASE Transfer(r)
    <2>1. PICK s \in Student, c \in Class : /\ enrolment[s] # Null
                                            /\ enrolment' = [enrolment EXCEPT ![s].class = c]
      BY <1>2 DEF Transfer, OfficeIInv, Refers
    <2>2. PICK x : x = [enrolment[s] EXCEPT !.class = c]
      OBVIOUS
    <2>3. enrolment[s] \in Seated
      BY <1>1, <2>1 DEF Opt
    <2>4. x \in Seated /\ x # Null
      <3>1. x \in Seated
        BY <2>2, <2>3 DEF Seated
      <3> QED BY <1>1, <3>1
    <2>5. enrolment' = [enrolment EXCEPT ![s] = x]
      BY <2>1, <2>2
    <2>6. enrolment' \in [Student -> Opt(Seated)] /\ \A t \in Student : enrolment[t] # Null => enrolment'[t] # Null
      BY <1>1, <2>4, <2>5 DEF Opt
    <2>7. UNCHANGED <<contact, mailed, handed, lost, raced, status>>
          /\ \A q \in Clerk : desk'[q].op = "idle" \/ desk'[q] = desk[q]
      BY <1>2, NoOnesRow DEF Transfer, End, OnboardingIInv, PeopleTyped
    <2> QED BY <1>1, <2>6, <2>7, EnrolmentOfficeIInv DEF PupilsTyped
  <1>3. CASE BulkOne(r)
    <2>1. PICK j \in Job : j = desk[r] /\ j.op = "bulk" /\ j.ref \in Status /\ j.batch \in SUBSET Student
      BY <1>3 DEF BulkOne, OnboardingIInv, PeopleTyped, OfficeIInv, Refers, Job
    <2>2. PICK s \in j.batch :
            /\ desk' = [desk EXCEPT ![r] = IF j.batch = {s} THEN Idle ELSE [j EXCEPT !.batch = @ \ {s}]]
            /\ \/ status' = [status EXCEPT ![s] = j.ref] /\ enrolment' = Closed(s, j.ref)
               \/ UNCHANGED <<status, enrolment>>
      BY <1>3, <2>1 DEF BulkOne
    <2>3. UNCHANGED <<contact, mailed, handed, lost, raced>>
      BY <1>3 DEF BulkOne
    <2>4. \A q \in Clerk : \/ desk'[q].op = "idle" \/ desk'[q] = desk[q]
                           \/ desk'[q].op = "bulk" /\ desk'[q].ref \in Status
      <3>1. PICK k : k = [j EXCEPT !.batch = j.batch \ {s}]
        OBVIOUS
      <3>2. k.op = "bulk" /\ k.ref \in Status
        BY <2>1, <3>1 DEF Job
      <3>3. desk' = [desk EXCEPT ![r] = IF j.batch = {s} THEN Idle ELSE k]
        BY <2>2, <3>1
      <3> QED BY <3>2, <3>3, NoOnesRow DEF OnboardingIInv, PeopleTyped
    <2>5. PupilsTyped' /\ \A t \in Student : enrolment[t] # Null => enrolment'[t] # Null
      <3>1. CASE status' = [status EXCEPT ![s] = j.ref] /\ enrolment' = Closed(s, j.ref)
        <4>1. s \in Student
          BY <2>1
        <4> QED BY <1>1, <2>1, <3>1, <4>1, ClosedTyped DEF PupilsTyped
      <3>2. CASE UNCHANGED <<status, enrolment>>
        BY <1>1, <3>2 DEF PupilsTyped
      <3> QED BY <2>2, <3>1, <3>2
    <2> QED BY <2>3, <2>4, <2>5, EnrolmentOfficeIInv
  <1> QED BY <1>2, <1>3

LEMMA IdleEnrolOfficeIInv ==
  ASSUME OnboardingIInv, OfficeIInv,
         \/ \E s \in Student, c \in Class : CreateEnrollment(s, c)
         \/ \E s \in Student, st \in Status : UpdatePerson(s, Null, st)
  PROVE  OfficeIInv'
  <1>1. status \in [Student -> Status] /\ enrolment \in [Student -> Opt(Seated)] /\ Null \notin Seated
    BY OnboardingAssumption DEF OfficeIInv, PupilsTyped, Seated, Status
  <1>2. ASSUME NEW s \in Student, NEW c \in Class, CreateEnrollment(s, c) PROVE OfficeIInv'
    <2>1. PICK x : x = [class |-> c, status |-> "ACTIVE"]
      OBVIOUS
    <2>2. x \in Seated /\ x # Null
      <3>1. x \in Seated
        BY <2>1 DEF Seated
      <3> QED BY <1>1, <3>1
    <2>3. enrolment' = [enrolment EXCEPT ![s] = x]
          /\ UNCHANGED <<contact, mailed, handed, lost, raced, status, desk>>
      BY <1>2, <2>1 DEF CreateEnrollment
    <2> QED BY <1>1, <2>2, <2>3, EnrolmentOfficeIInv DEF PupilsTyped, Opt
  <1>3. ASSUME NEW s \in Student, NEW st \in Status, UpdatePerson(s, Null, st) PROVE OfficeIInv'
    <2>1. UNCHANGED <<contact, mailed, handed, lost, raced, desk>>
          /\ \/ status' = [status EXCEPT ![s] = st] /\ enrolment' = Closed(s, st)
             \/ UNCHANGED <<status, enrolment>>
      BY <1>3 DEF UpdatePerson
    <2>2. PupilsTyped' /\ \A t \in Student : enrolment[t] # Null => enrolment'[t] # Null
      <3>1. CASE status' = [status EXCEPT ![s] = st] /\ enrolment' = Closed(s, st)
        BY <1>1, <3>1, ClosedTyped DEF PupilsTyped
      <3>2. CASE UNCHANGED <<status, enrolment>>
        BY <1>1, <3>2 DEF PupilsTyped
      <3> QED BY <2>1, <3>1, <3>2
    <2> QED BY <2>1, <2>2, EnrolmentOfficeIInv
  <1> QED BY <1>2, <1>3

LEMMA RenameOfficeIInv ==
  ASSUME OnboardingIInv, OfficeIInv, NEW p \in Person, NEW n \in Number, UpdatePerson(p, n, Null)
  PROVE  OfficeIInv'
  <1>1. UNCHANGED <<contact, mailed, handed, lost, status, enrolment, desk>> /\ raced' \subseteq raced \cup {p}
    BY DEF UpdatePerson
  <1> QED BY <1>1 DEF OfficeIInv, FamiliesTyped, LettersTyped, PupilsTyped, Refers

LEMMA LetterOfficeIInv ==
  ASSUME OnboardingIInv, OfficeIInv, NEW r \in Clerk, SendFirstLogin(r) \/ Deliver(r) \/ Crash(r)
  PROVE  OfficeIInv'
  <1>1. UNCHANGED <<contact, raced, status, enrolment>> /\ \A q \in Clerk : desk'[q].op = "idle" \/ desk'[q] = desk[q]
    BY NoOnesRow DEF SendFirstLogin, Deliver, Crash, End, OnboardingIInv, PeopleTyped
  <1>2. PICK j \in Job : j = desk[r]
    BY DEF OnboardingIInv, PeopleTyped
  <1>3. ASSUME j.op \in Sending
        PROVE  j.who \in Student /\ person[j.who].account \in Account
    <2>1. j.who \in Student /\ person[j.who].account # Null
      BY <1>2, <1>3 DEF OnboardingIInv, Remembers
    <2> QED BY <2>1 DEF OnboardingIInv, PeopleTyped, Row, Opt, Person
  <1>4. j.op = "send" => j.ref \in Parent
    BY <1>2 DEF OfficeIInv, Refers
  <1>5. j.op = "deliver" => j.pw \in 1 .. MaxIssue
    BY <1>2 DEF OfficeIInv, Refers
  <1>6. 1 \in 1 .. MaxIssue
    BY OnboardingAssumption
  <1>7. LettersTyped'
    <2>1. CASE SendFirstLogin(r)
      <3>1. mailed' = mailed \cup {[about |-> j.who, account |-> person[j.who].account, pw |-> 1, to |-> j.ref]}
            /\ UNCHANGED <<handed, lost, raced>> /\ j.op = "send"
        BY <1>2, <2>1 DEF SendFirstLogin
      <3>2. [about |-> j.who, account |-> person[j.who].account, pw |-> 1, to |-> j.ref] \in Message
        BY <1>3, <1>4, <1>6, <3>1 DEF Message, Sending
      <3> QED BY <3>1, <3>2 DEF OfficeIInv, LettersTyped
    <2>2. CASE Deliver(r)
      <3>1. j.op = "deliver" /\ UNCHANGED <<lost, raced>>
        BY <1>2, <2>2 DEF Deliver
      <3>2. PICK q : q = ContactOf(j.who)
        OBVIOUS
      <3>3. CASE q = Null
        <4>1. handed' = handed \cup {<<person[j.who].account, j.pw>>} /\ UNCHANGED mailed
          BY <1>2, <2>2, <3>2, <3>3 DEF Deliver, InResponse
        <4> QED BY <1>3, <1>5, <3>1, <4>1 DEF OfficeIInv, LettersTyped, Sending
      <3>4. CASE q # Null
        <4>1. mailed' = mailed \cup {[about |-> j.who, account |-> person[j.who].account, pw |-> j.pw, to |-> q]}
              /\ UNCHANGED handed
          BY <1>2, <2>2, <3>2, <3>4 DEF Deliver
        <4>2. PICK x : x = contact[j.who]
          OBVIOUS
        <4>3. x.parents \in Seq(Parent) /\ x.primary \in Opt(Parent)
          BY <1>3, <3>1, <4>2 DEF OfficeIInv, FamiliesTyped, Family, Sending
        <4>4. q \in Parent
          <5>1. x.parents # <<>> => x.parents[1] \in Parent
            BY <4>3
          <5> QED BY <3>2, <3>4, <4>2, <4>3, <5>1 DEF ContactOf, Opt
        <4>5. [about |-> j.who, account |-> person[j.who].account, pw |-> j.pw, to |-> q] \in Message
          BY <1>3, <1>5, <3>1, <4>4 DEF Message, Sending
        <4> QED BY <3>1, <4>1, <4>5 DEF OfficeIInv, LettersTyped
      <3> QED BY <3>3, <3>4
    <2>3. CASE Crash(r)
      <3>1. UNCHANGED <<mailed, handed, raced>>
        BY <2>3 DEF Crash
      <3>2. CASE j.op \in Sending
        <4>1. lost' = lost \cup {<<person[j.who].account, IF j.op = "send" THEN 1 ELSE j.pw>>}
          BY <1>2, <2>3, <3>2 DEF Crash, Sending
        <4>2. (IF j.op = "send" THEN 1 ELSE j.pw) \in 1 .. MaxIssue
          BY <1>5, <1>6, <3>2 DEF Sending
        <4> QED BY <1>3, <3>1, <3>2, <4>1, <4>2 DEF OfficeIInv, LettersTyped
      <3>3. CASE j.op \notin Sending
        <4>1. UNCHANGED lost
          BY <1>2, <2>3, <3>3 DEF Crash, Sending
        <4> QED BY <3>1, <4>1 DEF OfficeIInv, LettersTyped
      <3> QED BY <3>2, <3>3
    <2> QED BY <2>1, <2>2, <2>3
  <1>8. \A q \in Clerk : Refers(q)'
    BY <1>1 DEF OfficeIInv, Refers
  <1> QED BY <1>1, <1>7, <1>8 DEF OfficeIInv, FamiliesTyped, PupilsTyped

(* Requests that only take their next step.                                 *)
LEMMA StepOfficeIInv ==
  ASSUME OnboardingIInv, OfficeIInv, NEW r \in Clerk,
         \/ \E p \in Person, n \in Opt(Number) : TakeNumber(r, p, n)
         \/ \E e \in Enquiry, s \in Student, n \in Number : ReadEnquiry(r, e, s, n)
         \/ \E s \in Student, c \in Class : ReadTransfer(r, s, c)
         \/ \E S \in SUBSET Student, st \in Status : BeginBulk(r, S, st)
         \/ \E s \in Student : Reissue(r, s)
         \/ LookUpStudent(r) \/ IssueLogin(r) \/ InsertPerson(r) \/ ConvertEnquiry(r),
         desk' \in [Clerk -> Job]
  PROVE  OfficeIInv'
  <1>1. desk \in [Clerk -> Job] /\ account \in [Account -> User] /\ person \in [Person -> Row]
    BY DEF OnboardingIInv, PeopleTyped
  <1>2. CASE InsertPerson(r) \/ ConvertEnquiry(r)
    BY <1>2, EndOfficeIInv DEF InsertPerson, ConvertEnquiry, officeRows
  <1>3. ASSUME NEW j \in Job, desk' = [desk EXCEPT ![r] = j], UNCHANGED officeRows,
               j.op \in {"insert", "convert", "idle"}
        PROVE  OfficeIInv'
    BY <1>3, DeskOfficeIInv
  <1>4. ASSUME NEW p \in Person, NEW n \in Opt(Number), TakeNumber(r, p, n) PROVE OfficeIInv'
    <2>1. UNCHANGED officeRows
      BY <1>4 DEF TakeNumber, officeRows
    <2>2. PICK j : j = [Idle EXCEPT !.op = "insert", !.who = p, !.new = (n = Null),
                      !.num = IF n = Null THEN [prefix |-> <<KindOf(p), year>>, seq |-> Incremented(<<KindOf(p), year>>)]
                              ELSE n]
      OBVIOUS
    <2>3. desk' = [desk EXCEPT ![r] = j]
      BY <1>4, <2>2 DEF TakeNumber, Begin
    <2>4. j.op = "insert"
      BY <2>2 DEF Idle
    <2>5. j \in Job
      BY <1>1, <2>3
    <2> QED BY <1>1, <1>3, <2>1, <2>5, <2>4, <2>3
  <1>5. ASSUME NEW e \in Enquiry, NEW s \in Student, NEW n \in Number, ReadEnquiry(r, e, s, n) PROVE OfficeIInv'
    <2>1. UNCHANGED officeRows
      BY <1>5 DEF ReadEnquiry, officeRows
    <2>2. PICK j : j = [Idle EXCEPT !.op = "convert", !.who = s, !.num = n, !.ref = e]
      OBVIOUS
    <2>3. desk' = [desk EXCEPT ![r] = j]
      BY <1>5, <2>2 DEF ReadEnquiry, Begin
    <2>4. j.op = "convert"
      BY <2>2 DEF Idle
    <2>5. j \in Job
      BY <1>1, <2>3
    <2> QED BY <1>1, <1>3, <2>1, <2>5, <2>4, <2>3
  <1>6. ASSUME NEW s \in Student, NEW c \in Class, ReadTransfer(r, s, c) PROVE OfficeIInv'
    <2>1. UNCHANGED officeRows /\ enrolment[s] # Null
      BY <1>6 DEF ReadTransfer, officeRows
    <2>2. PICK j : j = [Idle EXCEPT !.op = "move", !.who = s, !.ref = c]
      OBVIOUS
    <2>3. desk' = [desk EXCEPT ![r] = j]
      BY <1>6, <2>2 DEF ReadTransfer, Begin
    <2>4. j.op = "move" /\ j.who = s /\ j.ref = c
      BY <2>2 DEF Idle
    <2>5. j \in Job
      BY <1>1, <2>3
    <2> QED BY <2>1, <2>5, <2>4, <2>3, DeskOfficeIInv
  <1>7. ASSUME NEW S \in SUBSET Student, NEW st \in Status, BeginBulk(r, S, st) PROVE OfficeIInv'
    <2>1. UNCHANGED officeRows
      BY <1>7 DEF BeginBulk, officeRows
    <2>2. PICK j : j = [Idle EXCEPT !.op = "bulk", !.ref = st, !.batch = S]
      OBVIOUS
    <2>3. desk' = [desk EXCEPT ![r] = j]
      BY <1>7, <2>2 DEF BeginBulk, Begin
    <2>4. j.op = "bulk" /\ j.ref = st
      BY <2>2 DEF Idle
    <2>5. j \in Job
      BY <1>1, <2>3
    <2> QED BY <2>1, <2>5, <2>4, <2>3, DeskOfficeIInv
  <1>8. ASSUME NEW s \in Student, Reissue(r, s) PROVE OfficeIInv'
    <2>1. PICK u : u = person[s].account
      OBVIOUS
    <2>2. UNCHANGED officeRows /\ u \in Account /\ account[u].pw < MaxIssue
      BY <1>1, <1>8, <2>1 DEF Reissue, officeRows, Row, Opt, Person
    <2>3. PICK j : j = [Idle EXCEPT !.op = "deliver", !.who = s, !.pw = account[u].pw + 1]
      OBVIOUS
    <2>4. desk' = [desk EXCEPT ![r] = j]
      BY <1>8, <2>1, <2>3 DEF Reissue, Begin
    <2>5. j.op = "deliver" /\ j.pw = account[u].pw + 1
      BY <2>3 DEF Idle
    <2>6. account[u].pw \in 0 .. MaxIssue
      BY <1>1, <2>2 DEF User
    <2>7. j \in Job /\ j.pw \in 1 .. MaxIssue
      BY <1>1, <2>2, <2>6, <2>5, <2>4, OnboardingAssumption
    <2> QED BY <2>2, <2>7, <2>5, <2>4, DeskOfficeIInv
  <1>9. CASE LookUpStudent(r)
    <2>1. UNCHANGED officeRows /\ desk[r].op = "look" /\ desk[r].ref \in Parent
      BY <1>9 DEF LookUpStudent, officeRows, OfficeIInv, Refers
    <2>2. PICK j : /\ desk' = [desk EXCEPT ![r] = j]
                   /\ j = Idle \/ j = [desk[r] EXCEPT !.op = "issue", !.num = person[desk[r].who].number]
      BY <1>9 DEF LookUpStudent
    <2>3. j.op = "idle" \/ (j.op = "issue" /\ j.ref \in Parent)
      BY <1>1, <2>1, <2>2, NoOnesRow DEF Job
    <2>4. j \in Job
      BY <1>1, <2>2
    <2> QED BY <2>1, <2>2, <2>3, <2>4, DeskOfficeIInv
  <1>10. CASE IssueLogin(r)
    <2>1. UNCHANGED officeRows /\ desk[r].op = "issue" /\ desk[r].ref \in Parent
      BY <1>10 DEF IssueLogin, officeRows, OfficeIInv, Refers
    <2>2. PICK j : desk' = [desk EXCEPT ![r] = j] /\ (j = Idle \/ j = [desk[r] EXCEPT !.op = "send"])
      BY <1>10 DEF IssueLogin, End
    <2>3. j.op = "idle" \/ (j.op = "send" /\ j.ref \in Parent)
      BY <1>1, <2>1, <2>2, NoOnesRow DEF Job
    <2>4. j \in Job
      BY <1>1, <2>2
    <2> QED BY <2>1, <2>2, <2>3, <2>4, DeskOfficeIInv
  <1> QED BY <1>2, <1>4, <1>5, <1>6, <1>7, <1>8, <1>9, <1>10

LEMMA FamilyOfficeIInv ==
  ASSUME OnboardingIInv, OfficeIInv, NEW s \in Student, NEW x, FamilyTyped(x),
         contact' = [contact EXCEPT ![s] = x], UNCHANGED <<mailed, handed, lost, raced, status, enrolment>>,
         \A r \in Clerk : desk'[r] = desk[r] \/ (desk'[r].op = "look" /\ desk'[r].ref \in Parent)
  PROVE  OfficeIInv'
  <1>1. FamiliesTyped'
    BY DEF OfficeIInv, FamiliesTyped, FamilyTyped
  <1>2. \A r \in Clerk : Refers(r)'
    BY DEF OfficeIInv, Refers
  <1> QED BY <1>1, <1>2 DEF OfficeIInv, LettersTyped, PupilsTyped

LEMMA LinkChildOfficeIInv ==
  ASSUME OnboardingIInv, OfficeIInv, NEW r \in Clerk, NEW q \in Parent, NEW s \in Student, NEW prime \in BOOLEAN,
         LinkChild(r, q, s, prime)
  PROVE  OfficeIInv'
  <1>1. PICK old : old = contact[s]
    OBVIOUS
  <1>2. old \in Family /\ IsInjective(old.parents) /\ old.primary \in Opt(ToSet(old.parents))
    BY <1>1 DEF OfficeIInv, FamiliesTyped, FamilyTyped
  <1>3. PICK x : x = [parents |-> Append(old.parents, q), primary |-> IF prime THEN q ELSE old.primary]
    OBVIOUS
  <1>4. contact' = [contact EXCEPT ![s] = x]
    BY <1>1, <1>3 DEF LinkChild, OfficeIInv, FamiliesTyped
  <1>5. FamilyTyped(x)
    <2>1. PICK o, n : o = old.parents /\ n = Append(old.parents, q)
      OBVIOUS
    <2>2. o \in Seq(Parent) /\ q \notin ToSet(o)
      BY <1>1, <1>2, <2>1 DEF Family, LinkChild
    <2>3. n \in Seq(Parent) /\ Len(n) = Len(o) + 1 /\ DOMAIN n = 1 .. Len(o) + 1 /\ DOMAIN o = 1 .. Len(o)
          /\ n[Len(o) + 1] = q /\ \A i \in 1 .. Len(o) : n[i] = o[i]
      BY <2>1, <2>2
    <2>4. \A i \in 1 .. Len(o) : o[i] # q
      BY <2>2, <2>3 DEF ToSet
    <2>5. IsInjective(n)
      BY <1>2, <2>1, <2>2, <2>3, <2>4 DEF IsInjective
    <2>6. ToSet(o) \subseteq ToSet(n) /\ q \in ToSet(n)
      BY <2>2, <2>3 DEF ToSet
    <2>7. x.primary \in Opt(ToSet(n)) /\ x.parents = n
      BY <1>2, <1>3, <2>1, <2>6 DEF Opt
    <2>8. x \in Family
      BY <1>2, <1>3, <2>1, <2>3 DEF Family, Opt
    <2> QED BY <2>5, <2>7, <2>8 DEF FamilyTyped
  <1>6. \A c \in Clerk : desk'[c] = desk[c] \/ (desk'[c].op = "look" /\ desk'[c].ref \in Parent)
    <2>1. PICK j : j = [Idle EXCEPT !.op = "look", !.who = s, !.ref = q]
      OBVIOUS
    <2>2. UNCHANGED desk \/ desk' = [desk EXCEPT ![r] = j]
      BY <2>1 DEF LinkChild, Begin
    <2>3. j.op = "look" /\ j.ref \in Parent
      BY <2>1 DEF Idle
    <2> QED BY <2>2, <2>3 DEF OnboardingIInv, PeopleTyped
  <1> QED BY <1>4, <1>5, <1>6, FamilyOfficeIInv DEF LinkChild

LEMMA UnlinkChildOfficeIInv ==
  ASSUME OnboardingIInv, OfficeIInv, NEW q \in Parent, NEW s \in Student, UnlinkChild(q, s)
  PROVE  OfficeIInv'
  <1>1. PICK old : old = contact[s]
    OBVIOUS
  <1>2. old \in Family /\ IsInjective(old.parents) /\ old.primary \in Opt(ToSet(old.parents))
    BY <1>1 DEF OfficeIInv, FamiliesTyped, FamilyTyped
  <1>3. PICK k \in DOMAIN old.parents :
           /\ old.parents[k] = q
           /\ contact' = [contact EXCEPT ![s] = [parents |-> RemoveAt(old.parents, k),
                                                 primary |-> IF old.primary = q THEN Null ELSE old.primary]]
    BY <1>1 DEF UnlinkChild, OfficeIInv, FamiliesTyped
  <1>4. PICK x : x = [parents |-> RemoveAt(old.parents, k),
                      primary |-> IF old.primary = q THEN Null ELSE old.primary]
    OBVIOUS
  <1>5. FamilyTyped(x)
    <2>1. PICK o, n : o = old.parents /\ n = RemoveAt(o, k)
      OBVIOUS
    <2>2. o \in Seq(Parent) /\ k \in 1 .. Len(o) /\ DOMAIN o = 1 .. Len(o) /\ Len(o) \in Nat
      BY <1>2, <2>1 DEF Family
    <2>3. PICK a, b : a = SubSeq(o, 1, k - 1) /\ b = SubSeq(o, k + 1, Len(o))
      OBVIOUS
    <2>4. a \in Seq(Parent) /\ Len(a) = k - 1 /\ \A i \in 1 .. k - 1 : a[i] = o[i]
      <3>1. \A i \in 1 .. k - 1 : o[i] \in Parent
        BY <2>2
      <3>2. k - 1 \in Int /\ 1 \in Int
        BY <2>2
      <3>3. /\ SubSeq(o, 1, k - 1) \in Seq(Parent)
            /\ Len(SubSeq(o, 1, k - 1)) = IF 1 <= k - 1 THEN (k - 1) - 1 + 1 ELSE 0
            /\ \A i \in 1 .. (k - 1) - 1 + 1 : SubSeq(o, 1, k - 1)[i] = o[1 + i - 1]
        BY <3>1, <3>2, SubSeqProperties
      <3> QED BY <2>2, <2>3, <3>3
    <2>5. b \in Seq(Parent) /\ Len(b) = Len(o) - k /\ \A i \in 1 .. Len(o) - k : b[i] = o[k + i]
      <3>1. \A i \in k + 1 .. Len(o) : o[i] \in Parent
        BY <2>2
      <3>2. k + 1 \in Int /\ Len(o) \in Int
        BY <2>2
      <3>3. /\ SubSeq(o, k + 1, Len(o)) \in Seq(Parent)
            /\ Len(SubSeq(o, k + 1, Len(o))) = IF k + 1 <= Len(o) THEN Len(o) - (k + 1) + 1 ELSE 0
            /\ \A i \in 1 .. Len(o) - (k + 1) + 1 : SubSeq(o, k + 1, Len(o))[i] = o[(k + 1) + i - 1]
        BY <3>1, <3>2, SubSeqProperties
      <3> QED BY <2>2, <2>3, <3>3
    <2>6. /\ n \in Seq(Parent) /\ Len(n) = Len(o) - 1
          /\ \A i \in 1 .. Len(o) - 1 : n[i] = IF i <= k - 1 THEN o[i] ELSE o[i + 1]
      <3>1. n = a \o b
        BY <2>1, <2>3 DEF RemoveAt
      <3>2. /\ a \o b \in Seq(Parent) /\ Len(a \o b) = Len(a) + Len(b)
            /\ \A i \in 1 .. Len(a) + Len(b) : (a \o b)[i] = IF i <= Len(a) THEN a[i] ELSE b[i - Len(a)]
        BY <2>4, <2>5, ConcatProperties
      <3>3. Len(a) + Len(b) = Len(o) - 1
        BY <2>2, <2>4, <2>5
      <3>4. ASSUME NEW i \in 1 .. Len(o) - 1 PROVE n[i] = IF i <= k - 1 THEN o[i] ELSE o[i + 1]
        <4>1. CASE i <= k - 1
          BY <2>2, <2>4, <3>1, <3>2, <3>3, <4>1
        <4>2. CASE ~(i <= k - 1)
          <5>1. n[i] = b[i - (k - 1)] /\ i - (k - 1) \in 1 .. Len(o) - k
            BY <2>2, <2>4, <3>1, <3>2, <3>3, <4>2
          <5>2. b[i - (k - 1)] = o[k + (i - (k - 1))] /\ k + (i - (k - 1)) = i + 1
            BY <2>2, <2>5, <5>1
          <5> QED BY <4>2, <5>1, <5>2
        <4> QED BY <4>1, <4>2
      <3> QED BY <3>1, <3>2, <3>3, <3>4
    <2>7. DOMAIN n = 1 .. Len(o) - 1
      BY <2>6
    <2>8. \A i, j \in 1 .. Len(o) : o[i] = o[j] => i = j
      BY <1>2, <2>1, <2>2 DEF IsInjective
    <2>9. IsInjective(n)
      BY <2>2, <2>6, <2>7, <2>8 DEF IsInjective
    <2>10. \A j \in 1 .. Len(o) : o[j] # q => o[j] \in ToSet(n)
      <3> SUFFICES ASSUME NEW j \in 1 .. Len(o), j # k PROVE \E i \in DOMAIN n : n[i] = o[j]
        BY <1>3, <2>1 DEF ToSet
      <3>1. CASE j < k
        BY <2>2, <2>6, <2>7, <3>1
      <3>2. CASE j > k
        <4>1. j - 1 \in 1 .. Len(o) - 1 /\ n[j - 1] = o[j]
          BY <2>2, <2>6, <3>2
        <4> QED BY <2>7, <4>1
      <3> QED BY <2>2, <3>1, <3>2
    <2>11. x.primary \in Opt(ToSet(n)) /\ x.parents = n
      BY <1>2, <1>4, <2>1, <2>2, <2>10 DEF Opt, ToSet
    <2>12. x.primary \in Opt(Parent) /\ x \in [parents : {x.parents}, primary : {x.primary}]
      BY <1>2, <1>4 DEF Family, Opt
    <2>13. x \in Family
      BY <2>6, <2>11, <2>12 DEF Family
    <2> QED BY <2>9, <2>11, <2>13 DEF FamilyTyped
  <1> QED BY <1>3, <1>4, <1>5, FamilyOfficeIInv DEF UnlinkChild

LEMMA OfficeNextIInv ==
  OnboardingIInv /\ OnboardingIInv' /\ OfficeIInv /\ [OnboardingNext]_onboardingVars => OfficeIInv'
  <1> SUFFICES ASSUME OnboardingIInv, OnboardingIInv', OfficeIInv, [OnboardingNext]_onboardingVars
               PROVE  OfficeIInv'
    OBVIOUS
  <1>1. desk' \in [Clerk -> Job]
    BY DEF OnboardingIInv, PeopleTyped
  <1>2. CASE UNCHANGED <<officeRows, desk>>
    BY <1>2 DEF officeRows, OfficeIInv, FamiliesTyped, LettersTyped, PupilsTyped, Refers
  <1>3. CASE RegistryNext
    <2>1. CASE \E e \in Enquiry, st \in {"CONTACTED", "CONVERTED", "CLOSED"} : UpdateEnquiry(e, st)
      BY <1>2, <2>1 DEF UpdateEnquiry, officeRows
    <2>2. CASE ChangeYear
      BY <1>2, <2>2 DEF ChangeYear, officeRows
    <2> QED BY <1>1, <1>3, <2>1, <2>2, StepOfficeIInv, LetterOfficeIInv, RenameOfficeIInv DEF RegistryNext
  <1>4. CASE LoginNext
    BY <1>1, <1>4, StepOfficeIInv, LetterOfficeIInv, RenameOfficeIInv, LinkChildOfficeIInv, UnlinkChildOfficeIInv
       DEF LoginNext
  <1>5. CASE EnrolNext
    <2>1. ASSUME NEW r \in Clerk, Crash(r) PROVE OfficeIInv'
      BY <2>1, LetterOfficeIInv
    <2>2. ASSUME NEW r \in Clerk, \/ \E s \in Student, c \in Class : ReadTransfer(r, s, c)
                                  \/ \E S \in SUBSET Student, st \in Status : BeginBulk(r, S, st)
          PROVE OfficeIInv'
      BY <1>1, <2>2, StepOfficeIInv
    <2>3. ASSUME NEW r \in Clerk, Transfer(r) \/ BulkOne(r) PROVE OfficeIInv'
      BY <2>3, EnrolOfficeIInv
    <2>4. ASSUME \/ \E s \in Student, c \in Class : CreateEnrollment(s, c)
                 \/ \E s \in Student, st \in Status : UpdatePerson(s, Null, st)
          PROVE  OfficeIInv'
      BY <2>4, IdleEnrolOfficeIInv
    <2> QED BY <1>5, <2>1, <2>2, <2>3, <2>4 DEF EnrolNext
  <1> QED BY <1>2, <1>3, <1>4, <1>5 DEF OnboardingNext, onboardingVars, officeRows

LEMMA OfficeInvariance == OnboardingSpec => []OfficeIInv
  <1>1. OnboardingInit => OfficeIInv
    BY OfficeStartIInv DEF OnboardingInit
  <1> QED BY <1>1, OfficeNextIInv, OnboardingInvariance, PTL DEF OnboardingSpec

(* Every reachable state has the stated types: a pupil's families are       *)
(* distinct and the primary contact is one of them, and a request under way *)
(* refers to what exists (parents.service.ts:68-159,                        *)
(* students.service.ts:205-336).                                            *)
THEOREM OnboardingTypeCorrect == OnboardingSpec => []OnboardingTypeOK
  <1> QED BY OfficeTypes, OfficeInvariance, OnboardingInvariance, PTL

-----------------------------------------------------------------------------
(* Calendar: whoever switches holds the lock of its scope, and what it has  *)
(* seen current is still all that is current there when it writes.          *)

Switching == {"switch", "clear", "set"}

(* Whoever switches holds the lock of its scope, whoever creates the school *)
(* holds the school's and there is none yet.                                *)
Holding(r) ==
    /\ chair[r].op \in Switching =>
          chair[r].of \in period /\ lockedBy[ScopeOf[chair[r].of]] = r
    /\ chair[r].op = "found" => lockedBy["school"] = r /\ school = {}

(* What the snapshot held, and what was cleared, is the rest of the scope.  *)
SeenAll(r) ==
    /\ chair[r].op = "clear" => chair[r].seen = Others(chair[r].of)
    /\ chair[r].op = "set" => chair[r].changed = Others(chair[r].of)

OneSchool == \A s, t \in school : s = t
Rooted == graded \subseteq assigned

CalendarIInv ==
    /\ CalendarTypeOK
    /\ ~refused /\ OneCurrent /\ OneSchool /\ Rooted
    /\ \A r \in Registrar : Holding(r)
    /\ \A r \in Registrar : SeenAll(r)

switchVars == <<period, current, lockedBy, refused, school>>

(* The facts about the records of requests that the actions build.          *)
LEMMA CaseRows ==
  /\ NoCase \in Case /\ NoCase.op = "idle"
  /\ \A p \in Period : [NoCase EXCEPT !.op = "switch", !.of = p] \in Case
  /\ [NoCase EXCEPT !.op = "found"] \in Case
  /\ \A a \in Assignment, o \in {"cleanup", "remove"} : [NoCase EXCEPT !.op = o, !.of = a] \in Case
  BY DEF NoCase, Case

(* Rows a calendar may begin with.                                          *)
LEMMA CalendarStartIInv ==
  ASSUME NEW ps \in SUBSET Period, NEW as \in SUBSET Assignment, NEW hs \in SUBSET School,
         NEW cs \in SUBSET ps, \A p, q \in cs : ScopeOf[p] = ScopeOf[q] => p = q,
         \A s, t \in hs : s = t, CalendarStart(ps, as, hs, cs)
  PROVE  CalendarIInv
  BY CaseRows DEF CalendarStart, CalendarIInv, CalendarTypeOK, OneCurrent, OneSchool, Rooted, Holding,
     SeenAll, Switching, NoCase

LEMMA CalendarInitIInv == CalendarInit => CalendarIInv
  BY CalendarStartIInv DEF CalendarInit

-----------------------------------------------------------------------------
(* The switches *)

LEMMA TakeSwitchLockIInv ==
  ASSUME CalendarIInv, NEW r \in Registrar, NEW p \in Period, TakeSwitchLock(r, p)
  PROVE  CalendarIInv'
  <1> DEFINE c == [NoCase EXCEPT !.op = "switch", !.of = p]
  <1>1. /\ p \in period /\ lockedBy[ScopeOf[p]] = Null /\ lockedBy' = [lockedBy EXCEPT ![ScopeOf[p]] = r]
        /\ chair' = [chair EXCEPT ![r] = c]
        /\ UNCHANGED <<period, current, refused, school, assigned, formed, graded, booked>>
    BY DEF TakeSwitchLock, SwitchLock, Take
  <1>2. c \in Case /\ c.op = "switch" /\ c.of = p
    BY CaseRows DEF NoCase
  <1> HIDE DEF c
  <1>3. CalendarTypeOK'
    BY <1>1, <1>2 DEF CalendarIInv, CalendarTypeOK, Scope
  <1>4. \A q \in Registrar : Holding(q)'
    BY <1>1, <1>2, CalendarAssumption DEF CalendarIInv, CalendarTypeOK, Holding, Switching, Scope
  <1>5. \A q \in Registrar : SeenAll(q)'
    BY <1>1, <1>2 DEF CalendarIInv, CalendarTypeOK, SeenAll, Others
  <1> QED BY <1>1, <1>3, <1>4, <1>5 DEF CalendarIInv, OneCurrent, OneSchool, Rooted

LEMMA FindCurrentIInv ==
  ASSUME CalendarIInv, NEW r \in Registrar, FindCurrent(r)
  PROVE  CalendarIInv'
  <1>1. PICK c : c = [chair[r] EXCEPT !.op = "clear", !.seen = Others(chair[r].of)]
    OBVIOUS
  <1>2. chair[r].op = "switch" /\ chair' = [chair EXCEPT ![r] = c]
        /\ UNCHANGED <<period, current, lockedBy, refused, school, assigned, formed, graded, booked>>
    BY <1>1 DEF FindCurrent, CalendarIInv, CalendarTypeOK
  <1>3. c \in Case /\ c.op = "clear" /\ c.of = chair[r].of /\ c.seen = Others(chair[r].of)
    BY <1>1 DEF CalendarIInv, CalendarTypeOK, Case, Others
  <1>4. CalendarTypeOK'
    BY <1>2, <1>3 DEF CalendarIInv, CalendarTypeOK
  <1>5. \A q \in Registrar : Holding(q)'
    BY <1>2, <1>3 DEF CalendarIInv, CalendarTypeOK, Holding, Switching
  <1>6. \A q \in Registrar : SeenAll(q)'
    BY <1>2, <1>3 DEF CalendarIInv, CalendarTypeOK, SeenAll, Others
  <1> QED BY <1>2, <1>4, <1>5, <1>6 DEF CalendarIInv, OneCurrent, OneSchool, Rooted

LEMMA ClearOthersIInv ==
  ASSUME CalendarIInv, NEW r \in Registrar, ClearOthers(r)
  PROVE  CalendarIInv'
  <1>1. PICK c : c = [chair[r] EXCEPT !.op = "set", !.changed = chair[r].seen \cap current]
    OBVIOUS
  <1>2. chair[r].op = "clear" /\ chair' = [chair EXCEPT ![r] = c]
        /\ UNCHANGED <<period, current, lockedBy, refused, school, assigned, formed, graded, booked>>
    BY <1>1 DEF ClearOthers, CalendarIInv, CalendarTypeOK
  <1>3. c \in Case /\ c.op = "set" /\ c.of = chair[r].of /\ c.changed = Others(chair[r].of)
    BY <1>1, <1>2 DEF CalendarIInv, CalendarTypeOK, Case, SeenAll, Others
  <1>4. CalendarTypeOK'
    BY <1>2, <1>3 DEF CalendarIInv, CalendarTypeOK
  <1>5. \A q \in Registrar : Holding(q)'
    BY <1>2, <1>3 DEF CalendarIInv, CalendarTypeOK, Holding, Switching
  <1>6. \A q \in Registrar : SeenAll(q)'
    BY <1>2, <1>3 DEF CalendarIInv, CalendarTypeOK, SeenAll, Others
  <1> QED BY <1>2, <1>4, <1>5, <1>6 DEF CalendarIInv, OneCurrent, OneSchool, Rooted

(* A switch finds nothing current in its scope but what it cleared.         *)
LEMMA SetCurrentEffect ==
  ASSUME CalendarIInv, NEW r \in Registrar, SetCurrent(r)
  PROVE  /\ chair[r].op = "set" /\ chair[r].of \in period /\ chair[r].of \in Period
         /\ lockedBy[ScopeOf[chair[r].of]] = r
         /\ current' = (current \ Others(chair[r].of)) \cup {chair[r].of}
         /\ lockedBy' = [lockedBy EXCEPT ![ScopeOf[chair[r].of]] = Null]
         /\ chair' = [chair EXCEPT ![r] = NoCase]
         /\ UNCHANGED <<period, refused, school, assigned, formed, graded, booked>>
  <1>1. chair[r].op = "set" /\ chair[r].changed = Others(chair[r].of)
    BY DEF SetCurrent, CalendarIInv, SeenAll
  <1>2. Others(chair[r].of) \ chair[r].changed = {}
    BY <1>1
  <1>3. current' = (current \ chair[r].changed) \cup {chair[r].of} /\ refused' = refused
    BY <1>2 DEF SetCurrent
  <1> QED BY <1>1, <1>3 DEF SetCurrent, CalendarIInv, CalendarTypeOK, Holding, Switching, FreeLock, Close

LEMMA SetCurrentIInv ==
  ASSUME CalendarIInv, NEW r \in Registrar, SetCurrent(r)
  PROVE  CalendarIInv'
  <1>0. PICK p \in Period : p = chair[r].of
    BY SetCurrentEffect
  <1>1. /\ chair[r].op = "set" /\ p \in period /\ lockedBy[ScopeOf[p]] = r
        /\ current' = (current \ Others(p)) \cup {p}
        /\ lockedBy' = [lockedBy EXCEPT ![ScopeOf[p]] = Null]
        /\ chair' = [chair EXCEPT ![r] = NoCase]
        /\ UNCHANGED <<period, refused, school, assigned, formed, graded, booked>>
    BY <1>0, SetCurrentEffect
  <1>2. CalendarTypeOK'
    BY <1>1, CaseRows DEF CalendarIInv, CalendarTypeOK, Scope
  <1>3. OneCurrent'
    BY <1>1 DEF CalendarIInv, OneCurrent, Others
  <1>4. \A q \in Registrar \ {r} : chair[q].op \in Switching =>
            chair[q].of \in Period /\ ScopeOf[chair[q].of] # ScopeOf[p]
    BY <1>1 DEF CalendarIInv, CalendarTypeOK, Holding
  <1>5. \A q \in Registrar : Holding(q)'
    BY <1>1, <1>4, CaseRows DEF CalendarIInv, CalendarTypeOK, Holding, Switching, Scope
  <1>6. \A o \in Period : ScopeOf[o] # ScopeOf[p] => Others(o)' = Others(o)
    BY <1>1 DEF Others
  <1>7. \A q \in Registrar : SeenAll(q)'
    BY <1>1, <1>4, <1>6, CaseRows DEF CalendarIInv, CalendarTypeOK, SeenAll, Switching
  <1> QED BY <1>1, <1>2, <1>3, <1>5, <1>7 DEF CalendarIInv, OneSchool, Rooted

(* Steps of a request that is not switching, which keep what switches use.  *)
LEMMA OtherWorkIInv ==
  ASSUME CalendarIInv, CalendarTypeOK', Rooted', UNCHANGED <<current, refused, lockedBy, school>>,
         period \subseteq period',
         \A q \in Registrar : chair'[q] = chair[q] \/ chair'[q].op \in {"idle", "cleanup", "remove"}
  PROVE  CalendarIInv'
  <1>1. \A q \in Registrar : Holding(q)'
    BY DEF CalendarIInv, Holding, Switching
  <1>2. \A q \in Registrar : SeenAll(q)'
    BY DEF CalendarIInv, SeenAll, Others
  <1> QED BY <1>1, <1>2 DEF CalendarIInv, OneCurrent, OneSchool

LEMMA CreatePeriodIInv ==
  ASSUME CalendarIInv, NEW p \in Period, CreatePeriod(p)
  PROVE  CalendarIInv'
  <1>1. CalendarTypeOK' /\ Rooted'
    BY DEF CreatePeriod, CalendarIInv, CalendarTypeOK, Rooted
  <1> QED BY <1>1, OtherWorkIInv DEF CreatePeriod

LEMMA FindSchoolIInv ==
  ASSUME CalendarIInv, NEW r \in Registrar, FindSchool(r)
  PROVE  CalendarIInv'
  <1> DEFINE c == [NoCase EXCEPT !.op = "found"]
  <1>1. /\ lockedBy["school"] = Null /\ school = {} /\ lockedBy' = [lockedBy EXCEPT !["school"] = r]
        /\ chair' = [chair EXCEPT ![r] = c]
        /\ UNCHANGED <<period, current, refused, school, assigned, formed, graded, booked>>
    BY DEF FindSchool, Take
  <1>2. c \in Case /\ c.op = "found"
    BY CaseRows DEF NoCase
  <1> HIDE DEF c
  <1>3. CalendarTypeOK'
    BY <1>1, <1>2 DEF CalendarIInv, CalendarTypeOK
  <1>4. \A q \in Registrar : Holding(q)'
    BY <1>1, <1>2, CalendarAssumption DEF CalendarIInv, CalendarTypeOK, Holding, Switching
  <1>5. \A q \in Registrar : SeenAll(q)'
    BY <1>1, <1>2 DEF CalendarIInv, CalendarTypeOK, SeenAll, Others
  <1> QED BY <1>1, <1>3, <1>4, <1>5 DEF CalendarIInv, OneCurrent, OneSchool, Rooted

LEMMA CreateSchoolIInv ==
  ASSUME CalendarIInv, NEW r \in Registrar, CreateSchool(r)
  PROVE  CalendarIInv'
  <1>1. PICK s \in School \ school :
            /\ school' = school \cup {s} /\ chair[r].op = "found"
            /\ lockedBy' = [lockedBy EXCEPT !["school"] = Null]
            /\ chair' = [chair EXCEPT ![r] = NoCase]
            /\ UNCHANGED <<period, current, refused, assigned, formed, graded, booked>>
    BY DEF CreateSchool, FreeLock, Close
  <1>2. school = {} /\ lockedBy["school"] = r
    BY <1>1 DEF CalendarIInv, Holding
  <1>3. CalendarTypeOK'
    BY <1>1, CaseRows DEF CalendarIInv, CalendarTypeOK
  <1>4. \A q \in Registrar : Holding(q)'
    <2> SUFFICES ASSUME NEW q \in Registrar \ {r} PROVE Holding(q)'
      BY <1>1, CaseRows DEF Holding, Switching, CalendarIInv, CalendarTypeOK
    <2>1. chair[q].op # "found" /\ chair'[q] = chair[q]
      BY <1>1, <1>2 DEF CalendarIInv, CalendarTypeOK, Holding
    <2>2. chair[q].op \in Switching => lockedBy'[ScopeOf[chair[q].of]] = lockedBy[ScopeOf[chair[q].of]]
      BY <1>1, <1>2 DEF CalendarIInv, CalendarTypeOK, Holding, Scope
    <2> QED BY <1>1, <2>1, <2>2 DEF CalendarIInv, Holding
  <1>5. \A q \in Registrar : SeenAll(q)'
    BY <1>1, CaseRows DEF CalendarIInv, CalendarTypeOK, SeenAll, Others
  <1> QED BY <1>1, <1>2, <1>3, <1>4, <1>5 DEF CalendarIInv, OneCurrent, OneSchool, Rooted

LEMMA CalendarAbortIInv ==
  ASSUME CalendarIInv, NEW r \in Registrar, CalendarAbort(r)
  PROVE  CalendarIInv'
  <1>1. /\ lockedBy' = [k \in DOMAIN lockedBy |-> IF lockedBy[k] = r THEN Null ELSE lockedBy[k]]
        /\ chair' = [chair EXCEPT ![r] = NoCase]
        /\ UNCHANGED <<period, current, refused, school, assigned, formed, graded, booked>>
    BY DEF CalendarAbort, Close
  <1>2. CalendarTypeOK'
    BY <1>1, CaseRows DEF CalendarIInv, CalendarTypeOK
  <1>3. \A q \in Registrar : Holding(q)'
    <2> SUFFICES ASSUME NEW q \in Registrar \ {r} PROVE Holding(q)'
      BY <1>1, CaseRows DEF Holding, Switching, CalendarIInv, CalendarTypeOK
    <2>1. chair'[q] = chair[q] /\ Holding(q)
      BY <1>1 DEF CalendarIInv, CalendarTypeOK
    <2>2. \A k \in Scope \cup {"school"} : lockedBy[k] = q => lockedBy'[k] = q
      BY <1>1 DEF CalendarIInv, CalendarTypeOK
    <2>3. chair[q].op \in Switching => ScopeOf[chair[q].of] \in Scope
      BY <2>1 DEF CalendarIInv, CalendarTypeOK, Holding, Scope
    <2>4. chair[q].op \in Switching =>
              chair'[q].of \in period' /\ lockedBy'[ScopeOf[chair'[q].of]] = q
      BY <1>1, <2>1, <2>2, <2>3 DEF Holding
    <2>5. chair[q].op = "found" => lockedBy'["school"] = q /\ school' = {}
      BY <1>1, <2>1, <2>2 DEF Holding
    <2> QED BY <2>1, <2>4, <2>5 DEF Holding
  <1>4. \A q \in Registrar : SeenAll(q)'
    BY <1>1, CaseRows DEF CalendarIInv, CalendarTypeOK, SeenAll, Others
  <1> QED BY <1>1, <1>2, <1>3, <1>4 DEF CalendarIInv, OneCurrent, OneSchool, Rooted

-----------------------------------------------------------------------------
(* The assignments *)

LEMMA AssignmentRowsIInv ==
  ASSUME CalendarIInv, NEW a \in Assignment,
         \/ CreateAssignment(a) \/ RecordWork(a) \/ CreateFormTeacher(a) \/ DeleteFormTeacher(a)
         \/ \E s \in Slot : CreateTimetableEntry(a, s) \/ DeleteTimetableEntry(<<a, s>>)
  PROVE  CalendarIInv'
  <1>1. UNCHANGED <<switchVars, chair>> /\ Rooted'
    BY DEF CreateAssignment, RecordWork, CreateFormTeacher, DeleteFormTeacher, CreateTimetableEntry,
       DeleteTimetableEntry, CalendarIInv, Rooted, switchVars
  <1>2. assigned' \subseteq Assignment /\ formed' \subseteq Assignment /\ graded' \subseteq Assignment
    BY DEF CreateAssignment, RecordWork, CreateFormTeacher, DeleteFormTeacher, CreateTimetableEntry,
       DeleteTimetableEntry, CalendarIInv, CalendarTypeOK
  <1>3. booked' \subseteq Assignment \X Slot
    <2>1. CASE booked' \subseteq booked
      BY <2>1 DEF CalendarIInv, CalendarTypeOK
    <2>2. CASE \E s \in Slot : CreateTimetableEntry(a, s)
      BY <2>2 DEF CreateTimetableEntry, CalendarIInv, CalendarTypeOK
    <2> QED BY <2>1, <2>2 DEF CreateAssignment, RecordWork, CreateFormTeacher, DeleteFormTeacher, DeleteTimetableEntry
  <1>4. CalendarTypeOK'
    BY <1>1, <1>2, <1>3 DEF CalendarIInv, CalendarTypeOK, switchVars
  <1> QED BY <1>1, <1>4, OtherWorkIInv DEF switchVars

(* A step of a deletion, on the request's record alone or at its end.       *)
LEMMA CountDependentsIInv ==
  ASSUME CalendarIInv, NEW r \in Registrar, NEW a \in Assignment, CountDependents(r, a)
  PROVE  CalendarIInv'
  <1> DEFINE o == IF \E s \in Slot : <<a, s>> \in booked THEN "cleanup" ELSE "remove"
             c == [NoCase EXCEPT !.op = o, !.of = a]
  <1>1. chair' = [chair EXCEPT ![r] = c] /\ UNCHANGED <<switchVars, assigned, formed, graded, booked>>
    BY DEF CountDependents, Take, switchVars
  <1>2. o \in {"cleanup", "remove"}
    OBVIOUS
  <1>3. c \in Case /\ c.op = o
    BY <1>2, CaseRows DEF NoCase
  <1> HIDE DEF c, o
  <1>4. CalendarTypeOK' /\ Rooted'
    BY <1>1, <1>3 DEF CalendarIInv, CalendarTypeOK, Rooted, switchVars
  <1> QED BY <1>1, <1>2, <1>3, <1>4, OtherWorkIInv DEF switchVars, CalendarIInv, CalendarTypeOK

LEMMA CleanTimetableIInv ==
  ASSUME CalendarIInv, NEW r \in Registrar, CleanTimetable(r)
  PROVE  CalendarIInv'
  <1>1. PICK es \in SUBSET booked : chair' = [chair EXCEPT ![r].op = "remove", ![r].changed = es]
    BY DEF CleanTimetable, EntriesOf
  <1>2. UNCHANGED <<switchVars, assigned, formed, graded, booked>>
    BY DEF CleanTimetable, switchVars
  <1>3. chair'[r] \in Case /\ chair'[r].op = "remove"
    BY <1>1 DEF CalendarIInv, CalendarTypeOK, Case
  <1>4. CalendarTypeOK' /\ Rooted'
    BY <1>1, <1>2, <1>3 DEF CalendarIInv, CalendarTypeOK, Rooted, switchVars
  <1> QED BY <1>1, <1>2, <1>3, <1>4, OtherWorkIInv DEF switchVars, CalendarIInv, CalendarTypeOK

(* An assignment goes only when nothing refers to it but what goes with it. *)
LEMMA RemoveAssignmentEffect ==
  ASSUME CalendarIInv, NEW r \in Registrar, RemoveAssignment(r)
  PROVE  /\ chair' = [chair EXCEPT ![r] = NoCase] /\ UNCHANGED <<switchVars, formed, graded>>
         /\ \/ UNCHANGED <<assigned, booked>>
            \/ \E a \in Assignment \ graded :
                  assigned' = assigned \ {a} /\ booked' = booked \ EntriesOf(a)
  <1>1. CASE chair[r].of \in assigned /\ chair[r].of \notin graded
    <2>1. graded \ {chair[r].of} = graded
      BY <1>1
    <2> QED BY <1>1, <2>1 DEF RemoveAssignment, Close, switchVars, CalendarIInv, CalendarTypeOK
  <1>2. CASE chair[r].of \notin assigned \/ chair[r].of \in graded
    BY <1>2 DEF RemoveAssignment, Referenced, Close, switchVars
  <1> QED BY <1>1, <1>2

LEMMA RemoveAssignmentIInv ==
  ASSUME CalendarIInv, NEW r \in Registrar, RemoveAssignment(r)
  PROVE  CalendarIInv'
  <1>1. /\ chair' = [chair EXCEPT ![r] = NoCase] /\ UNCHANGED <<switchVars, formed, graded>>
        /\ \/ UNCHANGED <<assigned, booked>>
           \/ \E a \in Assignment \ graded : assigned' = assigned \ {a} /\ booked' = booked \ EntriesOf(a)
    BY RemoveAssignmentEffect
  <1>2. CalendarTypeOK' /\ Rooted'
    BY <1>1, CaseRows DEF CalendarIInv, CalendarTypeOK, Rooted, switchVars
  <1> QED BY <1>1, <1>2, CaseRows, OtherWorkIInv DEF switchVars, CalendarIInv, CalendarTypeOK

-----------------------------------------------------------------------------
LEMMA CalendarNextIInv == CalendarIInv /\ [CalendarNext]_calendarVars => CalendarIInv'
  <1> SUFFICES ASSUME CalendarIInv, [CalendarNext]_calendarVars PROVE CalendarIInv'
    OBVIOUS
  <1>1. CASE SwitchNext
    BY <1>1, CreatePeriodIInv, TakeSwitchLockIInv, FindCurrentIInv, ClearOthersIInv, SetCurrentIInv,
       FindSchoolIInv, CreateSchoolIInv, CalendarAbortIInv DEF SwitchNext
  <1>2. CASE AssignmentNext
    BY <1>2, AssignmentRowsIInv, CountDependentsIInv, CleanTimetableIInv, RemoveAssignmentIInv,
       CalendarAbortIInv DEF AssignmentNext
  <1>3. CASE UNCHANGED calendarVars
    BY <1>3, OtherWorkIInv DEF calendarVars, CalendarIInv, CalendarTypeOK, Rooted
  <1> QED BY <1>1, <1>2, <1>3 DEF CalendarNext

LEMMA CalendarInvariance == CalendarSpec => []CalendarIInv
  BY CalendarInitIInv, CalendarNextIInv, PTL DEF CalendarSpec

(* Every reachable state has the stated types.                              *)
THEOREM CalendarTypeCorrect == CalendarSpec => []CalendarTypeOK
  <1>1. CalendarIInv => CalendarTypeOK
    BY DEF CalendarIInv
  <1> QED BY <1>1, CalendarInvariance, PTL

(* What a step does to what is current, and to the School row.              *)
KeptStep ==
    /\ ~refused' /\ OneCurrent'
    /\ \A p \in current : \E q \in current' : ScopeOf[q] = ScopeOf[p]
    /\ \A s \in school' : school' = {s}

LEMMA KeptByStep == CalendarIInv /\ CalendarIInv' /\ [CalendarNext]_calendarVars => KeptStep
  <1> SUFFICES ASSUME CalendarIInv, CalendarIInv', [CalendarNext]_calendarVars PROVE KeptStep
    OBVIOUS
  <1>1. ~refused' /\ OneCurrent' /\ \A s \in school' : school' = {s}
    BY DEF CalendarIInv, OneSchool
  <1>2. CASE current' = current
    BY <1>1, <1>2 DEF KeptStep
  <1>3. CASE current' # current
    <2>1. PICK r \in Registrar : SetCurrent(r)
      BY <1>3 DEF CalendarNext, SwitchNext, AssignmentNext, CreatePeriod, TakeSwitchLock, FindCurrent,
         ClearOthers, FindSchool, CreateSchool, CalendarAbort, CreateAssignment, RecordWork,
         CreateFormTeacher, DeleteFormTeacher, CreateTimetableEntry, DeleteTimetableEntry,
         CountDependents, CleanTimetable, RemoveAssignment, calendarVars
    <2>2. current' = (current \ Others(chair[r].of)) \cup {chair[r].of}
      BY <2>1, SetCurrentEffect
    <2> QED BY <1>1, <2>2 DEF KeptStep, Others
  <1> QED BY <1>2, <1>3

(* Overlapping switches serialize: none is refused by the unique index, one *)
(* stays current once one is, and the School row is created once            *)
(* (academic-structure.service.ts:36-109, school.service.ts:5-30).          *)
THEOREM SwitchesSerialize == CalendarSpec => CurrentIsKept
  <1>1. CalendarIInv /\ CalendarIInv' /\ [CalendarNext]_calendarVars => [KeptStep]_calendarVars
    BY KeptByStep
  <1>2. CalendarSpec => [][KeptStep]_calendarVars
    BY <1>1, CalendarInvariance, PTL DEF CalendarSpec
  <1> QED BY <1>2 DEF CurrentIsKept, KeptStep

(* What a step does to assignments and what hangs on them.                  *)
WholeStep ==
    /\ \A a \in graded : a \in graded' /\ a \in assigned'
    /\ \A a \in assigned \ assigned' : \A s \in Slot : <<a, s>> \notin booked'
    /\ (\E r \in Registrar : chair'[r] # chair[r]) => \A e \in booked \ booked' : e[1] \notin assigned'

LEMMA WholeByStep == CalendarIInv /\ [CalendarNext]_calendarVars => WholeStep
  <1> SUFFICES ASSUME CalendarIInv, [CalendarNext]_calendarVars PROVE WholeStep
    OBVIOUS
  <1>1. CASE UNCHANGED <<assigned, graded, booked>>
    BY <1>1 DEF WholeStep, CalendarIInv, Rooted
  <1>2. CASE \E r \in Registrar : RemoveAssignment(r)
    <2>1. /\ graded' = graded
          /\ \/ UNCHANGED <<assigned, booked>>
             \/ \E a \in Assignment \ graded : assigned' = assigned \ {a} /\ booked' = booked \ EntriesOf(a)
      BY <1>2, RemoveAssignmentEffect
    <2>2. CASE UNCHANGED <<assigned, booked>>
      BY <2>1, <2>2 DEF WholeStep, CalendarIInv, Rooted
    <2>3. ASSUME NEW a \in Assignment \ graded, assigned' = assigned \ {a}, booked' = booked \ EntriesOf(a)
          PROVE  WholeStep
      <3>1. \A s \in Slot : <<a, s>> \notin booked'
        BY <2>3 DEF EntriesOf
      <3>2. \A e \in booked \ booked' : e[1] = a
        BY <2>3 DEF EntriesOf
      <3>3. \A b \in graded : b \in graded' /\ b \in assigned'
        BY <2>1, <2>3 DEF CalendarIInv, Rooted
      <3>4. \A b \in assigned \ assigned' : \A s \in Slot : <<b, s>> \notin booked'
        BY <2>3, <3>1
      <3>5. \A e \in booked \ booked' : e[1] \notin assigned'
        BY <2>3, <3>2
      <3> QED BY <3>3, <3>4, <3>5 DEF WholeStep
    <2> QED BY <2>1, <2>2, <2>3
  <1>3. CASE \E a \in Assignment : \/ CreateAssignment(a) \/ RecordWork(a)
                                  \/ \E s \in Slot : CreateTimetableEntry(a, s) \/ DeleteTimetableEntry(<<a, s>>)
    BY <1>3 DEF CreateAssignment, RecordWork, CreateTimetableEntry, DeleteTimetableEntry, WholeStep, CalendarIInv,
       Rooted, CalendarTypeOK
  <1> QED BY <1>1, <1>2, <1>3 DEF CalendarNext, SwitchNext, AssignmentNext, CreatePeriod, TakeSwitchLock,
       FindCurrent, ClearOthers, SetCurrent, FindSchool, CreateSchool, CalendarAbort, CreateFormTeacher,
       DeleteFormTeacher, CountDependents, CleanTimetable, calendarVars

(* A deletion takes an assignment with all its timetable and no recorded    *)
(* work, or nothing (academic-structure.service.ts:226-275).                *)
THEOREM DeletionIsWhole == CalendarSpec => DeletedWhole
  <1>1. CalendarIInv /\ [CalendarNext]_calendarVars => [WholeStep]_calendarVars
    BY WholeByStep
  <1>2. CalendarSpec => [][WholeStep]_calendarVars
    BY <1>1, CalendarInvariance, PTL DEF CalendarSpec
  <1> QED BY <1>2 DEF DeletedWhole, WholeStep

-----------------------------------------------------------------------------
(* Grading *)

(* An edit in progress names a band, and a new band has both its ends.      *)
EditTyped(r) ==
    editor[r] # NoEdit =>
        /\ editor[r].op \in {"create", "update"} /\ editor[r].band \in Band
        /\ editor[r].op = "create" => editor[r].min \in Mark /\ editor[r].max \in Mark

Whole(b) == band[b] # NoBand => band[b].min \in Mark /\ band[b].max \in Mark

(* What an edit will write clashes with no other band there is, as long as  *)
(* no write has come between its check and itself.                          *)
Checked(r) ==
    LET j == editor[r]  b == j.band IN
    j # NoEdit /\ (j.op = "create" \/ b \in Bands)
        => ClashFree(Merged(j.min, band[b].min), Merged(j.max, band[b].max), b)

Disjoint == ~Overlapping

GradingIInv ==
    /\ GradingTypeOK
    /\ \A r \in Editor : EditTyped(r)
    /\ \A b \in Band : Whole(b)
    /\ races = 0 => Disjoint /\ \A r \in Editor : Checked(r)

(* A configuration a school may begin with.                                 *)
ScaleOf(bs) ==
    /\ DOMAIN bs \subseteq Band /\ \A b \in DOMAIN bs : bs[b] \in Span
    /\ \A a, b \in DOMAIN bs : a # b => ~BandsOverlap(bs[a].min, bs[a].max, bs[b].min, bs[b].max)
WeightsOf(cs) == DOMAIN cs \subseteq Component /\ \A c \in DOMAIN cs : cs[c] \in Weight

LEMMA Edits == /\ NoEdit \in Edit /\ Null \notin Mark /\ Null \notin Band
               /\ NoBand \in [min : Side, max : Side]
  BY GradingAssumption DEF NoEdit, Edit, Side, Mark, NoBand

LEMMA GradingStartIInv ==
  ASSUME NEW bs, NEW cs, ScaleOf(bs), WeightsOf(cs), GradingStart(bs, cs)
  PROVE  GradingIInv
  <1>1. /\ band = [b \in Band |-> IF b \in DOMAIN bs THEN bs[b] ELSE NoBand]
        /\ races = 0 /\ editor = [r \in Editor |-> NoEdit]
    BY DEF GradingStart
  <1>2. \A b \in DOMAIN bs : /\ b \in Band /\ bs[b] \in [min : Side, max : Side]
                             /\ bs[b].min \in Mark /\ bs[b].max \in Mark
    BY DEF ScaleOf, Span, Side
  <1>3. GradingTypeOK
    BY <1>2, Edits, GradingAssumption DEF GradingStart, GradingTypeOK, WeightsOf
  <1>4. \A b \in Band : Whole(b)
    BY <1>1, <1>2 DEF Whole
  <1>5. Disjoint
    BY <1>1, <1>2 DEF Disjoint, Overlapping, Bands, ScaleOf
  <1>6. \A r \in Editor : EditTyped(r) /\ Checked(r)
    BY <1>1 DEF EditTyped, Checked
  <1> QED BY <1>3, <1>4, <1>5, <1>6 DEF GradingIInv

(* The rows no edit looks at.                                               *)
LEMMA OtherConfigIInv ==
  ASSUME GradingIInv, GradingTypeOK', UNCHANGED <<band, races, editor>>
  PROVE  GradingIInv'
  BY DEF GradingIInv, EditTyped, Whole, Disjoint, Overlapping, Bands, Checked, ClashFree

LEMMA CheckIInv ==
  ASSUME GradingIInv, NEW r \in Editor, NEW j \in Edit, editor' = [editor EXCEPT ![r] = j],
         UNCHANGED <<scale, band, component, scored, races>>,
         j.op \in {"create", "update"}, j.band \in Band,
         j.op = "create" => j.min \in Mark /\ j.max \in Mark,
         ClashFree(Merged(j.min, band[j.band].min), Merged(j.max, band[j.band].max), j.band)
  PROVE  GradingIInv'
  <1>1. editor'[r] = j /\ \A q \in Editor \ {r} : editor'[q] = editor[q]
    BY DEF GradingIInv, GradingTypeOK
  <1>2. GradingTypeOK'
    BY DEF GradingIInv, GradingTypeOK
  <1>3. \A q \in Editor : EditTyped(q)'
    BY <1>1 DEF GradingIInv, EditTyped
  <1>4. Bands' = Bands
    BY DEF Bands
  <1>5. races = 0 => \A q \in Editor : Checked(q)'
    BY <1>1, <1>4 DEF GradingIInv, Checked, ClashFree
  <1> QED BY <1>2, <1>3, <1>4, <1>5 DEF GradingIInv, Whole, Disjoint, Overlapping

LEMMA CheckNewBandIInv ==
  ASSUME GradingIInv, NEW r \in Editor, NEW b \in Band, NEW x \in Span, CheckNewBand(r, b, x)
  PROVE  GradingIInv'
  <1> DEFINE j == [op |-> "create", band |-> b, min |-> x.min, max |-> x.max]
  <1>1. j \in Edit /\ j.op = "create" /\ j.band = b /\ j.min = x.min /\ j.max = x.max
    BY DEF Edit, Span, Side
  <1>2. x.min \in Mark /\ x.max \in Mark
    BY DEF Span
  <1>3. editor' = [editor EXCEPT ![r] = j] /\ UNCHANGED <<scale, band, component, scored, races>>
        /\ ClashFree(x.min, x.max, Null)
    BY DEF CheckNewBand
  <1> HIDE DEF j
  <1>4. Merged(j.min, band[b].min) = x.min /\ Merged(j.max, band[b].max) = x.max
    BY <1>1, <1>2, Edits DEF Merged
  <1>5. ClashFree(x.min, x.max, b)
    BY <1>3, Edits DEF ClashFree, Bands
  <1> QED BY <1>1, <1>2, <1>3, <1>4, <1>5, CheckIInv

LEMMA CheckBandIInv ==
  ASSUME GradingIInv, NEW r \in Editor, NEW b \in Band, NEW x \in Patch, CheckBand(r, b, x.min, x.max)
  PROVE  GradingIInv'
  <1> DEFINE j == [op |-> "update", band |-> b, min |-> x.min, max |-> x.max]
  <1>1. j \in Edit /\ j.op = "update" /\ j.band = b /\ j.min = x.min /\ j.max = x.max
    BY GradingAssumption DEF Edit, Side, Mark
  <1>2. editor' = [editor EXCEPT ![r] = j] /\ UNCHANGED <<scale, band, component, scored, races>>
        /\ ClashFree(Merged(x.min, band[b].min), Merged(x.max, band[b].max), b)
    BY DEF CheckBand
  <1> HIDE DEF j
  <1> QED BY <1>1, <1>2, CheckIInv

LEMMA WriteBandIInv ==
  ASSUME GradingIInv, NEW r \in Editor, WriteBand(r)
  PROVE  GradingIInv'
  <1>1. PICK j \in Edit, b \in Band : /\ j = editor[r] /\ b = j.band /\ j # NoEdit
                                      /\ j.op \in {"create", "update"}
                                      /\ j.op = "create" => j.min \in Mark /\ j.max \in Mark
    BY DEF WriteBand, GradingIInv, GradingTypeOK, EditTyped
  <1>2. editor' = [editor EXCEPT ![r] = NoEdit] /\ UNCHANGED <<scale, component, scored>>
    BY DEF WriteBand
  <1>3. editor' \in [Editor -> Edit] /\ editor'[r] = NoEdit /\ \A q \in Editor \ {r} : editor'[q] = editor[q]
    BY <1>2, Edits DEF GradingIInv, GradingTypeOK
  <1>4. \A q \in Editor : EditTyped(q)'
    BY <1>3 DEF GradingIInv, EditTyped
  <1>5. CASE j.op = "update" /\ b \notin Bands
    <2>1. UNCHANGED <<band, races>>
      BY <1>1, <1>5 DEF WriteBand
    <2>2. GradingTypeOK' /\ Bands' = Bands
      BY <1>2, <1>3, <2>1 DEF GradingIInv, GradingTypeOK, Bands
    <2>3. races = 0 => \A q \in Editor : Checked(q)'
      BY <1>3, <2>1, <2>2 DEF GradingIInv, Checked, ClashFree
    <2> QED BY <1>4, <2>1, <2>2, <2>3 DEF GradingIInv, Whole, Disjoint, Overlapping
  <1>6. CASE j.op = "create" \/ b \in Bands
    <2>1. PICK x : x = [min |-> Merged(j.min, band[b].min), max |-> Merged(j.max, band[b].max)]
      OBVIOUS
    <2>2. /\ OverlapsAnother(r) => races < MaxRaces
          /\ races' = IF OverlapsAnother(r) THEN races + 1 ELSE races
          /\ band' = [band EXCEPT ![b] = x]
      BY <1>1, <1>6, <2>1 DEF WriteBand, GradingIInv, GradingTypeOK
    <2>3. x \in [min : Side, max : Side] /\ x.min \in Mark /\ x.max \in Mark /\ x # NoBand
      <3>1. j.min \in Side /\ j.max \in Side /\ (b \in Bands => band[b].min \in Mark /\ band[b].max \in Mark)
        BY <1>1 DEF Edit, GradingIInv, Whole, Bands
      <3>2. Merged(j.min, band[b].min) \in Mark /\ Merged(j.max, band[b].max) \in Mark
        BY <1>1, <1>6, <3>1, Edits DEF Merged, Side
      <3> QED BY <2>1, <3>2, Edits DEF Side, NoBand
    <2>4. band'[b] = x /\ \A a \in Band \ {b} : band'[a] = band[a]
      BY <2>2 DEF GradingIInv, GradingTypeOK
    <2>5. GradingTypeOK'
      BY <1>2, <1>3, <2>2, <2>3, GradingAssumption DEF GradingIInv, GradingTypeOK
    <2>6. \A a \in Band : Whole(a)'
      BY <2>3, <2>4 DEF GradingIInv, Whole
    <2>7. ASSUME races' = 0 PROVE Disjoint' /\ \A q \in Editor : Checked(q)'
      <3>1. ~OverlapsAnother(r) /\ races = 0
        BY <2>2, <2>7 DEF GradingIInv, GradingTypeOK
      <3>2. \A q \in Editor : editor'[q] = NoEdit
        BY <1>3, <3>1 DEF OverlapsAnother
      <3>3. \A a \in Bands \ {b} : ~BandsOverlap(x.min, x.max, band[a].min, band[a].max)
        BY <1>1, <1>6, <2>1, <3>1 DEF GradingIInv, Checked, ClashFree
      <3>4. \A a \in Bands \ {b} : band[a].min \in Mark /\ band[a].max \in Mark
        BY DEF Bands, GradingIInv, Whole
      <3>5. Bands' = Bands \cup {b}
        BY <2>3, <2>4 DEF Bands
      <3>6. \A a, c \in Bands : a # c => ~BandsOverlap(band[a].min, band[a].max, band[c].min, band[c].max)
        BY <3>1 DEF GradingIInv, Disjoint, Overlapping
      <3>7. \A a \in Bands \ {b} : ~BandsOverlap(band[a].min, band[a].max, x.min, x.max)
        BY <2>3, <3>3, <3>4 DEF BandsOverlap, Mark
      <3>8. Disjoint'
        <4> SUFFICES ASSUME NEW a \in Bands', NEW c \in Bands', a # c
                     PROVE  ~BandsOverlap(band'[a].min, band'[a].max, band'[c].min, band'[c].max)
          BY DEF Disjoint, Overlapping
        <4>1. CASE a = b
          BY <2>4, <3>3, <3>5, <4>1 DEF Bands
        <4>2. CASE c = b
          BY <2>4, <3>5, <3>7, <4>2 DEF Bands
        <4>3. CASE a # b /\ c # b
          BY <2>4, <3>5, <3>6, <4>3 DEF Bands
        <4> QED BY <4>1, <4>2, <4>3
      <3> QED BY <3>2, <3>8 DEF Checked
    <2> QED BY <1>4, <2>5, <2>6, <2>7 DEF GradingIInv
  <1> QED BY <1>1, <1>5, <1>6

LEMMA DeleteGradeBandIInv ==
  ASSUME GradingIInv, NEW b \in Band, DeleteGradeBand(b)
  PROVE  GradingIInv'
  <1>1. band' = [band EXCEPT ![b] = NoBand] /\ UNCHANGED <<scale, component, scored, races, editor>>
    BY DEF DeleteGradeBand
  <1>2. GradingTypeOK' /\ band'[b] = NoBand /\ \A a \in Band \ {b} : band'[a] = band[a]
    BY <1>1, Edits DEF GradingIInv, GradingTypeOK
  <1>3. Bands' = Bands \ {b}
    BY <1>2 DEF Bands
  <1>4. \A a \in Band : Whole(a)'
    BY <1>2 DEF GradingIInv, Whole
  <1>5. ASSUME races = 0 PROVE Disjoint'
    BY <1>2, <1>3, <1>5 DEF GradingIInv, Disjoint, Overlapping, Bands
  <1>6. ASSUME races = 0, NEW q \in Editor PROVE Checked(q)'
    <2>1. Checked(q) /\ EditTyped(q) /\ editor'[q] = editor[q]
      BY <1>1, <1>6 DEF GradingIInv
    <2>2. CASE editor[q].band = b
      <3>1. editor[q].op = "create" /\ editor[q] # NoEdit =>
              \A o1, o2 : Merged(editor[q].min, o1) = Merged(editor[q].min, o2)
                          /\ Merged(editor[q].max, o1) = Merged(editor[q].max, o2)
        BY <2>1, Edits DEF EditTyped, Merged
      <3> QED BY <1>2, <1>3, <2>1, <2>2, <3>1 DEF Checked, ClashFree, Bands
    <2>3. CASE editor[q].band # b
      BY <1>2, <1>3, <2>1, <2>3 DEF Checked, ClashFree, Bands, EditTyped
    <2> QED BY <2>2, <2>3
  <1> QED BY <1>1, <1>2, <1>4, <1>5, <1>6 DEF GradingIInv, EditTyped

LEMMA GradingNextIInv == GradingIInv /\ [GradingNext]_gradingVars => GradingIInv'
  <1> SUFFICES ASSUME GradingIInv, [GradingNext]_gradingVars PROVE GradingIInv'
    OBVIOUS
  <1>1. CASE CreateGradingScale \/ ComponentNext \/ UNCHANGED gradingVars
    <2>1. UNCHANGED <<band, races, editor>>
      BY <1>1 DEF CreateGradingScale, ComponentNext, DeleteComponent, RecordScore, SetComponent, gradingVars
    <2>2. scale' \in BOOLEAN /\ scored' \subseteq Component
      BY <1>1 DEF CreateGradingScale, ComponentNext, DeleteComponent, RecordScore, SetComponent, gradingVars,
         GradingIInv, GradingTypeOK
    <2>3. component' \in [Component -> Weight \cup {Null}]
      BY <1>1 DEF CreateGradingScale, ComponentNext, DeleteComponent, RecordScore, SetComponent, gradingVars,
         GradingIInv, GradingTypeOK
    <2> QED BY <2>1, <2>2, <2>3, OtherConfigIInv DEF GradingIInv, GradingTypeOK
  <1> QED BY <1>1, CheckNewBandIInv, CheckBandIInv, WriteBandIInv, DeleteGradeBandIInv
          DEF GradingNext, BandNext

LEMMA GradingInvariance == GradingSpec => []GradingIInv
  <1>1. GradingInit => GradingIInv
    <2> DEFINE bs == [b \in {} |-> NoBand]  cs == [c \in {} |-> 0]
    <2>1. ScaleOf(bs) /\ WeightsOf(cs)
      BY DEF ScaleOf, WeightsOf
    <2>2. ASSUME GradingStart(bs, cs) PROVE GradingIInv
      <3> HIDE DEF bs, cs
      <3> QED BY <2>1, <2>2, GradingStartIInv
    <2> QED BY <2>2 DEF GradingInit
  <1> QED BY <1>1, GradingNextIInv, PTL DEF GradingSpec

-----------------------------------------------------------------------------
(* What the bands cover *)

BandSpan == [min : Mark, max : Mark]

LEMMA AtMostOneGrade ==
  ASSUME GradingIInv, Disjoint, NEW m \in Mark
  PROVE  Cardinality(GradesOf(m)) = IF GradesOf(m) = {} THEN 0 ELSE 1
  <1>1. CASE GradesOf(m) = {}
    BY <1>1, FS_EmptySet
  <1>2. ASSUME NEW b \in GradesOf(m) PROVE Cardinality(GradesOf(m)) = 1
    <2>1. \A a \in GradesOf(m) : a = b
      BY DEF GradesOf, Disjoint, Overlapping, BandsOverlap, GradingIInv, Whole, Bands, Mark
    <2>2. GradesOf(m) = {b}
      BY <2>1
    <2> QED BY <2>2, FS_Singleton
  <1> QED BY <1>1, <1>2

LEMMA CoveredBeforeIsMax ==
  ASSUME NEW S \in SUBSET BandSpan, NEW m \in Mark
  PROVE  /\ CoveredBefore(S, m) \in -1 .. Top
         /\ \A x \in S : x.min < m => x.max <= CoveredBefore(S, m)
         /\ CoveredBefore(S, m) # -1 => \E x \in S : x.min < m /\ x.max = CoveredBefore(S, m)
  <1> DEFINE T == {-1} \cup {x.max : x \in {y \in S : y.min < m}}
  <1>1. T \in SUBSET (-1 .. Top) /\ T # {}
    BY GradingAssumption DEF BandSpan, Mark
  <1>2. CoveredBefore(S, m) = Max(T)
    BY DEF CoveredBefore
  <1>3. \A x \in S : x.min < m => x.max \in T
    OBVIOUS
  <1>4. \A n \in T : n = -1 \/ \E x \in S : x.min < m /\ x.max = n
    OBVIOUS
  <1> HIDE DEF T
  <1>5. Max(T) \in T /\ \A x \in T : x <= Max(T)
    BY <1>1, GreatestIsMax, GradingAssumption
  <1> QED BY <1>1, <1>2, <1>3, <1>4, <1>5

Through(S) == Max({-1} \cup {x.max : x \in S})

LEMMA ThroughIsMax ==
  ASSUME NEW S \in SUBSET BandSpan
  PROVE  /\ Through(S) \in -1 .. Top
         /\ \A x \in S : x.max <= Through(S)
         /\ Through(S) # -1 => \E x \in S : x.max = Through(S)
  <1> DEFINE T == {-1} \cup {x.max : x \in S}
  <1>1. T \in SUBSET (-1 .. Top) /\ T # {}
    BY GradingAssumption DEF BandSpan, Mark
  <1>2. Through(S) = Max(T)
    BY DEF Through
  <1>3. \A x \in S : x.max \in T
    OBVIOUS
  <1>4. \A n \in T : n = -1 \/ \E x \in S : x.max = n
    OBVIOUS
  <1> HIDE DEF T
  <1>5. Max(T) \in T /\ \A x \in T : x <= Max(T)
    BY <1>1, GreatestIsMax, GradingAssumption
  <1> QED BY <1>1, <1>2, <1>3, <1>4, <1>5

(* No gap is reported just when the walk over the bands finds none.         *)
LEMMA GapFree ==
  ASSUME NEW S
  PROVE  FindCoverageGaps(S) = {} <=>
            /\ \A x \in S : ~(x.min > CoveredBefore(S, x.min) + 1)
            /\ ~(Through(S) < Top - 1)
  BY DEF FindCoverageGaps, Through

(* Bands without a gap cover every mark but the highest.                    *)
LEMMA NoGapsCover ==
  ASSUME NEW S \in SUBSET BandSpan, FindCoverageGaps(S) = {}, NEW m \in 0 .. Top - 1
  PROVE  \E x \in S : x.min <= m /\ m <= x.max
  <1> DEFINE T == {x.min : x \in {y \in S : y.max >= m}}
  <1>1. Top \in Nat /\ m \in Mark /\ \A x \in S : x.min \in Mark /\ x.max \in Mark
    BY GradingAssumption DEF Mark, BandSpan
  <1>2. PICK y \in S : y.max >= m
    <2>1. Through(S) \in -1 .. Top /\ ~(Through(S) < Top - 1)
      BY GapFree, ThroughIsMax
    <2>2. Through(S) >= m
      BY <1>1, <2>1
    <2> QED BY <1>1, <2>1, <2>2, ThroughIsMax
  <1>3. T \in SUBSET Nat /\ y.min \in T
    BY <1>1, <1>2 DEF Mark
  <1>4. \A n \in T : \E x \in S : x.min = n /\ x.max >= m
    OBVIOUS
  <1>5. \A x \in S : x.max >= m => x.min \in T
    OBVIOUS
  <1> HIDE DEF T
  <1>6. PICK k \in T : \A n \in T : k <= n
    BY <1>3, LeastExists
  <1>7. PICK x \in S : x.min = k /\ x.max >= m
    BY <1>4
  <1>8. ASSUME k > m PROVE FALSE
    <2>1. CoveredBefore(S, k) \in -1 .. Top /\ ~(k > CoveredBefore(S, k) + 1)
      BY <1>1, <1>7, GapFree, CoveredBeforeIsMax
    <2>2. CoveredBefore(S, k) >= m
      BY <1>1, <1>3, <1>8, <2>1
    <2>3. PICK z \in S : z.min < k /\ z.max = CoveredBefore(S, k)
      BY <1>1, <1>7, <2>1, <2>2, CoveredBeforeIsMax DEF Mark
    <2>4. z.min \in T
      BY <1>5, <2>2, <2>3
    <2> QED BY <1>1, <1>3, <1>6, <2>3, <2>4 DEF Mark
  <1> QED BY <1>1, <1>3, <1>7, <1>8

(* Where a gap is reported some mark is covered by no band.                 *)
LEMMA GapsUncovered ==
  ASSUME NEW S \in SUBSET BandSpan, FindCoverageGaps(S) # {}
  PROVE  \E m \in Mark : \A x \in S : ~(x.min <= m /\ m <= x.max)
  <1>1. Top \in Nat /\ \A x \in S : x.min \in Mark /\ x.max \in Mark
    BY GradingAssumption DEF Mark, BandSpan
  <1>2. ASSUME NEW y \in S, y.min > CoveredBefore(S, y.min) + 1
        PROVE  \E m \in Mark : \A x \in S : ~(x.min <= m /\ m <= x.max)
    <2>1. PICK n : n = CoveredBefore(S, y.min)
      OBVIOUS
    <2>2. n \in -1 .. Top /\ \A x \in S : x.min < y.min => x.max <= n
      BY <1>1, <1>2, <2>1, CoveredBeforeIsMax
    <2>3. n + 1 \in Mark /\ n + 1 < y.min
      BY <1>1, <1>2, <2>1, <2>2 DEF Mark
    <2>4. \A x \in S : ~(x.min <= n + 1 /\ n + 1 <= x.max)
      BY <1>1, <2>2, <2>3 DEF Mark
    <2> QED BY <2>3, <2>4
  <1>3. ASSUME Through(S) < Top - 1
        PROVE  \E m \in Mark : \A x \in S : ~(x.min <= m /\ m <= x.max)
    <2>1. PICK n : n = Through(S)
      OBVIOUS
    <2>2. n \in -1 .. Top /\ \A x \in S : x.max <= n
      BY <2>1, ThroughIsMax
    <2>3. n + 1 \in Mark
      BY <1>1, <1>3, <2>1, <2>2 DEF Mark
    <2>4. \A x \in S : ~(x.min <= n + 1 /\ n + 1 <= x.max)
      BY <1>1, <2>2, <2>3 DEF Mark
    <2> QED BY <2>3, <2>4
  <1> QED BY <1>2, <1>3, GapFree

LEMMA BandSpans == GradingIInv => {band[b] : b \in Bands} \in SUBSET BandSpan
  <1> SUFFICES ASSUME GradingIInv, NEW b \in Bands PROVE band[b] \in BandSpan
    OBVIOUS
  <1>1. band[b] \in [min : Side, max : Side] /\ band[b].min \in Mark /\ band[b].max \in Mark
    BY DEF GradingIInv, GradingTypeOK, Whole, Bands
  <1> QED BY <1>1 DEF BandSpan

LEMMA OverlapByGradingIInv == GradingIInv => OverlapNeedsARace
  BY AtMostOneGrade DEF GradingIInv, OverlapNeedsARace

(* Bands overlap only after two edits that were both checked before either  *)
(* was written (grading.service.ts:142-228).                                *)
THEOREM BandsStayDisjoint == GradingSpec => []OverlapNeedsARace
  <1> QED BY OverlapByGradingIInv, GradingInvariance, PTL

LEMMA ReadyByGradingIInv == GradingIInv => ReadyMeansGraded
  <1> SUFFICES ASSUME GradingIInv PROVE ReadyMeansGraded
    OBVIOUS
  <1>1. PICK S : S = {band[b] : b \in Bands}
    OBVIOUS
  <1>2. S \in SUBSET BandSpan /\ Gaps = FindCoverageGaps(S)
    BY <1>1, BandSpans DEF Gaps
  <1>3. ASSUME SetupReady, NEW m \in 0 .. Total, m # Top PROVE GradedOnce(m)
    <2>1. Total = Top /\ Disjoint /\ FindCoverageGaps(S) = {}
      BY <1>2, <1>3 DEF SetupReady, ComponentsPass, ScalePasses, Disjoint
    <2>2. m \in 0 .. Top - 1 /\ m \in Mark
      BY <1>3, <2>1, GradingAssumption DEF Mark
    <2>3. PICK x \in S : x.min <= m /\ m <= x.max
      BY <1>2, <2>1, <2>2, NoGapsCover
    <2>4. GradesOf(m) # {}
      BY <1>1, <2>3 DEF GradesOf
    <2> QED BY <2>1, <2>2, <2>4, AtMostOneGrade DEF GradedOnce
  <1>4. ASSUME races = 0, scale, ~ScalePasses PROVE \E m \in Mark : ~GradedOnce(m)
    <2>1. Disjoint /\ FindCoverageGaps(S) # {}
      BY <1>2, <1>4 DEF GradingIInv, ScalePasses, Disjoint
    <2>2. PICK m \in Mark : \A x \in S : ~(x.min <= m /\ m <= x.max)
      BY <1>2, <2>1, GapsUncovered
    <2>3. GradesOf(m) = {}
      BY <1>1, <2>2 DEF GradesOf
    <2>4. Cardinality(GradesOf(m)) = 0
      BY <2>1, <2>3, AtMostOneGrade
    <2> QED BY <2>4 DEF GradedOnce
  <1> QED BY <1>3, <1>4 DEF ReadyMeansGraded
=============================================================================
