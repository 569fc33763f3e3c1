----------------------------- MODULE Onboarding -----------------------------
(* How people enter the school: admission and staff numbers, admission      *)
(* enquiries, enrolments, and the first portal login of a student.          *)
(*                                                                          *)
(* A request (or the background job a link starts) is one record of `desk`: *)
(* `op` is the step it takes next, the other fields what it remembers. A    *)
(* transaction whose effects others can only see or wait for as a whole is  *)
(* one action; where a lock or a remembered read outlives a statement it is *)
(* split there. A refusal that writes nothing takes no step.                *)
EXTENDS Sentinel, Naturals, Sequences, FiniteSets, SequencesExt, Functions

CONSTANTS
    Student, Staff,    \* rows that may be created
    Parent,            \* parents already registered, each with an e-mail
    Enquiry,           \* admission enquiries
    Account,           \* User rows that may be created
    Year,              \* start years of academic sessions
    MaxSequence,       \* 999 in the code
    MaxIssue,          \* bound: passwords generated for one account
    Class, Grade,      \* the classes, and the gradeName of each
    Clerk              \* requests and background jobs served at a time

Person == Student \cup Staff
KindOf(p) == IF p \in Student THEN "student" ELSE "staff"
Prefix == {"student", "staff"} \X Year
Number == [prefix : Prefix, seq : 1 .. MaxSequence]

Opt(S) == S \cup {Null}
Status == {"ACTIVE", "INACTIVE", "GRADUATED", "WITHDRAWN"}

ASSUME OnboardingAssumption ==
    /\ MaxSequence \in Nat \ {0} /\ MaxIssue \in Nat \ {0}
    /\ Student \cap Staff = {}
    /\ \A S \in {Student, Staff, Parent, Enquiry, Account, Year, Class, Number} : Null \notin S
    /\ Null \notin [class : Class, status : Status]

VARIABLES
    person,    \* Student and Staff rows: number, linked account, source enquiry
    counter,   \* IdentifierCounter.lastValue
    issued,    \* history: the numbers ever given by createStudent or createStaff
    year,      \* start year of the session marked current, if any
    enquiry,   \* status, and whether it was edited after a conversion (history)
    account,   \* User rows: loginId and the generation of the temporary password
    contact,   \* per student, the linked parents, oldest first, and the primary
    mailed,    \* credential messages sent
    handed,    \* passwords returned in a response for a paper hand-over
    lost,      \* history: passwords whose sender was cut off by a crash
    raced,     \* history: people renumbered while a first login held the old number
    status,    \* Student.status
    enrolment, \* the student's Enrollment of one session, taken to be current
    desk       \* requests and jobs in progress

onboardingVars == <<person, counter, issued, year, enquiry, account, contact, mailed,
                    handed, lost, raced, status, enrolment, desk>>

Idle == [op |-> "idle", who |-> Null, num |-> Null, new |-> FALSE, pw |-> 0, ref |-> Null,
         batch |-> {}]
Row == [number : Opt(Number), account : Opt(Account), from : Opt(Enquiry)]
User == [login : Opt(Number), pw : 0 .. MaxIssue]
Message == [about : Student, account : Account, pw : 1 .. MaxIssue, to : Parent]
Job == [op : {"idle", "insert", "convert", "look", "issue", "send", "deliver", "move", "bulk"},
        who : Opt(Person), num : Opt(Number), new : BOOLEAN, pw : 0 .. MaxIssue,
        ref : Opt(Enquiry \cup Parent \cup Class \cup Status), batch : SUBSET Student]

OnboardingTypeOK ==
    /\ person \in [Person -> Row]
    /\ counter \in [Prefix -> 0 .. MaxSequence]
    /\ issued \subseteq Number /\ year \in Opt(Year)
    /\ enquiry \in [Enquiry -> [status : {"NEW", "CONTACTED", "CONVERTED", "CLOSED"},
                                edited : BOOLEAN]]
    /\ account \in [Account -> User]
    /\ \A s \in Student :
          /\ contact[s].parents \in Seq(Parent) /\ IsInjective(contact[s].parents)
          /\ contact[s].primary \in Opt(ToSet(contact[s].parents))
    /\ mailed \subseteq Message /\ handed \subseteq Account \X (1 .. MaxIssue)
    /\ lost \subseteq Account \X (1 .. MaxIssue) /\ raced \subseteq Person
    /\ status \in [Student -> Status]
    /\ enrolment \in [Student -> Opt([class : Class, status : {"ACTIVE", "GRADUATED", "WITHDRAWN"}])]
    /\ desk \in [Clerk -> Job]

(* The tables once createStudent and createStaff have registered `known`.   *)
OnboardingStart(known, y) ==
    /\ person = [p \in Person |-> [number |-> IF p \in DOMAIN known THEN known[p] ELSE Null,
                                   account |-> Null, from |-> Null]]
    /\ issued = Range(known)
    /\ counter = [x \in Prefix |-> Max({n.seq : n \in {m \in issued : m.prefix = x}} \cup {0})]
    /\ year = y
    /\ enquiry = [e \in Enquiry |-> [status |-> "NEW", edited |-> FALSE]]
    /\ account = [u \in Account |-> [login |-> Null, pw |-> 0]]
    /\ contact = [s \in Student |-> [parents |-> <<>>, primary |-> Null]]
    /\ mailed = {} /\ handed = {} /\ lost = {} /\ raced = {}
    /\ status = [s \in Student |-> "ACTIVE"] /\ enrolment = [s \in Student |-> Null]
    /\ desk = [r \in Clerk |-> Idle]

OnboardingInit == \E y \in Opt(Year) : OnboardingStart([p \in {} |-> Null], y)

-----------------------------------------------------------------------------
(* Shared parts of the handlers *)

Registered(p) == person[p].number # Null
NumberFree(n) == \A p \in Person : person[p].number # n
LoginFree(n) == \A u \in Account : account[u].login # n
Fresh == {u \in Account : account[u].login = Null}
NewAccount == CHOOSE u \in Fresh : TRUE
Begin(r, job) == desk[r] = Idle /\ desk' = [desk EXCEPT ![r] = job]
End(r) == desk' = [desk EXCEPT ![r] = Idle]
Being(p) == \E r \in Clerk : desk[r].who = p /\ desk[r].op \in {"insert", "convert"}

-----------------------------------------------------------------------------
(* Numbers *)

InSequenceByLast(x) == counter[x] <= MaxSequence
BumpedTo(x, n) == n

(* The upsert-increment, and the upsert that raises a counter to a number   *)
(* typed by hand; the counter's row stays locked until the creation ends.   *)
Incremented(x) == counter[x] + 1

InSequence(x) == Incremented(x) <= MaxSequence

Bumped(x, n) == IF n > counter[x] THEN n ELSE counter[x]

CounterFree(x) ==
    \A q \in Clerk : desk[q].op = "insert" => desk[q].num.prefix # x

(* createStudent and createStaff up to their insert: a number typed in is   *)
(* registered under its own prefix, a generated one needs a current session *)
(* and a sequence that is not used up.                                      *)
TakeNumber(r, p, typed) ==
    LET x == IF typed = Null THEN <<KindOf(p), year>> ELSE typed.prefix IN
    /\ ~Registered(p) /\ ~Being(p)
    /\ IF typed = Null THEN year # Null /\ InSequence(x)
       ELSE x[1] = KindOf(p)
    /\ CounterFree(x)
    /\ Begin(r, [Idle EXCEPT !.op = "insert", !.who = p, !.new = (typed = Null),
                             !.num = IF typed = Null
                                     THEN [prefix |-> x, seq |-> Incremented(x)] ELSE typed])
    /\ UNCHANGED <<person, counter, issued, year, enquiry, account, contact, mailed,
                   handed, lost, raced, status, enrolment>>

(* The insert and the commit; a member of staff gets the account with it. A *)
(* number in use rolls everything back, the counter included.               *)
InsertPerson(r) ==
    LET n == desk[r].num  p == desk[r].who IN
    /\ desk[r].op = "insert"
    /\ p \in Staff => Fresh # {}
    /\ End(r)
    /\ IF ~NumberFree(n) \/ (p \in Staff /\ ~LoginFree(n))
       THEN UNCHANGED <<person, counter, issued, account>>
       ELSE /\ counter' = [counter EXCEPT ![n.prefix] = Bumped(n.prefix, n.seq)]
            /\ issued' = issued \cup {n}
            /\ IF p \in Staff
               THEN /\ account' = [account EXCEPT ![NewAccount] = [login |-> n, pw |-> 1]]
                    /\ person' = [person EXCEPT ![p].number = n, ![p].account = NewAccount]
               ELSE person' = [person EXCEPT ![p].number = n] /\ UNCHANGED account
    /\ UNCHANGED <<year, enquiry, contact, mailed, handed, lost, raced, status, enrolment>>

(* setCurrentAcademicSession moves the year new numbers are taken from.     *)
ChangeYear ==
    /\ year' \in Year \ {year}
    /\ UNCHANGED <<person, counter, issued, enquiry, account, contact, mailed, handed,
                   lost, raced, status, enrolment, desk>>

(* updateStudent and updateStaff. A new number goes to the login in the     *)
(* same transaction; leaving the school closes the open enrolment.          *)
ClosedBy(st) == st \in {"GRADUATED", "WITHDRAWN"}
Closed(s, st) ==
    IF ClosedBy(st) /\ enrolment[s] # Null /\ enrolment[s].status = "ACTIVE"
    THEN [enrolment EXCEPT ![s].status = st] ELSE enrolment

RenamedRowOnly(p, n) == account

Renamed(p, n) ==
    IF person[p].account = Null THEN account
    ELSE [account EXCEPT ![person[p].account].login = n]

HoldsOldNumber(p) == \E r \in Clerk : desk[r].op = "issue" /\ desk[r].who = p

UpdatePerson(p, n, st) ==
    /\ Registered(p)
    /\ n # Null => /\ n.prefix[1] = KindOf(p)
                   /\ n = person[p].number \/ NumberFree(n)
                   /\ \A u \in Account : account[u].login = n => u = person[p].account
                                                              \/ person[p].account = Null
    /\ IF n = Null THEN UNCHANGED <<person, account, raced>>
       ELSE /\ person' = [person EXCEPT ![p].number = n]
            /\ account' = Renamed(p, n)
            /\ raced' = IF HoldsOldNumber(p) THEN raced \cup {p} ELSE raced
    /\ IF p \in Student /\ st # Null
       THEN status' = [status EXCEPT ![p] = st] /\ enrolment' = Closed(p, st)
       ELSE UNCHANGED <<status, enrolment>>
    /\ UNCHANGED <<counter, issued, year, enquiry, contact, mailed, handed, lost, desk>>

-----------------------------------------------------------------------------
(* Admission enquiries *)

UpdateEnquiry(e, st) ==
    /\ enquiry' = [enquiry EXCEPT ![e] =
          [status |-> st, edited |-> (@.edited \/ (@.status = "CONVERTED" /\ st # "CONVERTED"))]]
    /\ UNCHANGED <<person, counter, issued, year, account, contact, mailed, handed,
                   lost, raced, status, enrolment, desk>>

ReadEnquiry(r, e, s, n) ==
    /\ ~Registered(s) /\ ~Being(s)
    /\ n.prefix[1] = "student"
    /\ enquiry[e].status # "CONVERTED"
    /\ Begin(r, [Idle EXCEPT !.op = "convert", !.who = s, !.num = n, !.ref = e])
    /\ UNCHANGED <<person, counter, issued, year, enquiry, account, contact, mailed,
                   handed, lost, raced, status, enrolment>>

ClaimableAgain(e) == TRUE

(* convertEnquiry's transaction: insert the student with the number typed   *)
(* in, then claim the enquiry if it is not converted yet; else roll back.   *)
Claimable(e) == enquiry[e].status # "CONVERTED"

ConvertEnquiry(r) ==
    LET j == desk[r] IN
    /\ j.op = "convert"
    /\ End(r)
    /\ IF NumberFree(j.num) /\ Claimable(j.ref)
       THEN /\ person' = [person EXCEPT ![j.who].number = j.num, ![j.who].from = j.ref]
            /\ enquiry' = [enquiry EXCEPT ![j.ref].status = "CONVERTED"]
       ELSE UNCHANGED <<person, enquiry>>
    /\ UNCHANGED <<counter, issued, year, account, contact, mailed, handed, lost, raced,
                   status, enrolment>>

-----------------------------------------------------------------------------
(* Families and first logins *)

(* linkChild: a primary contact, of which a student has at most one, starts *)
(* the background job that issues the first login.                          *)
LinkChild(r, q, s, prime) ==
    /\ Registered(s) /\ q \notin ToSet(contact[s].parents)
    /\ prime => contact[s].primary = Null
    /\ contact' = [contact EXCEPT ![s] =
          [parents |-> Append(@.parents, q), primary |-> IF prime THEN q ELSE @.primary]]
    /\ IF prime THEN Begin(r, [Idle EXCEPT !.op = "look", !.who = s, !.ref = q])
       ELSE UNCHANGED desk
    /\ UNCHANGED <<person, counter, issued, year, enquiry, account, mailed, handed, lost,
                   raced, status, enrolment>>

UnlinkChild(q, s) ==
    /\ \E i \in DOMAIN contact[s].parents :
          /\ contact[s].parents[i] = q
          /\ contact' = [contact EXCEPT ![s] =
                [parents |-> RemoveAt(@.parents, i),
                 primary |-> IF @.primary = q THEN Null ELSE @.primary]]
    /\ UNCHANGED <<person, counter, issued, year, enquiry, account, mailed, handed, lost,
                   raced, status, enrolment, desk>>

(* issueFirstLoginForStudent: read the student, remember the number.        *)
LookUpStudent(r) ==
    LET s == desk[r].who IN
    /\ desk[r].op = "look"
    /\ desk' = [desk EXCEPT ![r] = IF person[s].account # Null THEN Idle
                                   ELSE [@ EXCEPT !.op = "issue", !.num = person[s].number]]
    /\ UNCHANGED <<person, counter, issued, year, enquiry, account, contact, mailed,
                   handed, lost, raced, status, enrolment>>

UnclaimedUnchecked(s) == TRUE

(* Its transaction: insert the account under that number, then claim the    *)
(* student if no account is linked yet. Losing the claim returns false,     *)
(* which commits the account that was inserted; a login in use is an error. *)
Unclaimed(s) == person[s].account = Null

IssueLogin(r) ==
    LET j == desk[r] IN
    /\ j.op = "issue" /\ Fresh # {}
    /\ IF ~LoginFree(j.num) THEN End(r) /\ UNCHANGED <<account, person>>
       ELSE /\ account' = [account EXCEPT ![NewAccount] = [login |-> j.num, pw |-> 1]]
            /\ IF Unclaimed(j.who)
               THEN /\ person' = [person EXCEPT ![j.who].account = NewAccount]
                    /\ desk' = [desk EXCEPT ![r].op = "send"]
               ELSE UNCHANGED person /\ End(r)
    /\ UNCHANGED <<counter, issued, year, enquiry, contact, mailed, handed, lost, raced,
                   status, enrolment>>

(* The parent of the link that started the job gets the credentials.        *)
SendFirstLogin(r) ==
    LET j == desk[r] IN
    /\ j.op = "send"
    /\ End(r)
    /\ mailed' = mailed \cup {[about |-> j.who, account |-> person[j.who].account,
                               pw |-> 1, to |-> j.ref]}
    /\ UNCHANGED <<person, counter, issued, year, enquiry, account, contact, handed, lost,
                   raced, status, enrolment>>

(* reissueCredentialsForUser on a student's account: a new password, then   *)
(* to the primary contact, else the parent linked first, else to whoever    *)
(* asked.                                                                   *)
Reissue(r, s) ==
    LET u == person[s].account IN
    /\ u # Null
    /\ account[u].pw < MaxIssue
    /\ account' = [account EXCEPT ![u].pw = @ + 1]
    /\ Begin(r, [Idle EXCEPT !.op = "deliver", !.who = s, !.pw = account[u].pw + 1])
    /\ UNCHANGED <<person, counter, issued, year, enquiry, contact, mailed, handed, lost,
                   raced, status, enrolment>>

ContactOf(s) ==
    IF contact[s].parents = <<>> THEN Null
    ELSE IF contact[s].primary # Null THEN contact[s].primary ELSE contact[s].parents[1]

InMailOnly(u, g) == {}

InResponse(u, g) == {<<u, g>>}

Deliver(r) ==
    LET s == desk[r].who  u == person[s].account  g == desk[r].pw  q == ContactOf(s) IN
    /\ desk[r].op = "deliver"
    /\ End(r)
    /\ IF q = Null
       THEN handed' = handed \cup InResponse(u, g) /\ UNCHANGED mailed
       ELSE /\ mailed' = mailed \cup {[about |-> s, account |-> u, pw |-> g, to |-> q]}
            /\ UNCHANGED handed
    /\ UNCHANGED <<person, counter, issued, year, enquiry, account, contact, lost, raced,
                   status, enrolment>>

-----------------------------------------------------------------------------
(* Enrolments *)

CreateEnrollment(s, c) ==
    /\ Registered(s) /\ enrolment[s] = Null
    /\ enrolment' = [enrolment EXCEPT ![s] = [class |-> c, status |-> "ACTIVE"]]
    /\ UNCHANGED <<person, counter, issued, year, enquiry, account, contact, mailed,
                   handed, lost, raced, status, desk>>

(* transferStudent: only between arms of one grade, checked against a read  *)
(* of an open enrolment; the write is by id alone.                          *)
SameGrade(s, c) == Grade[c] = Grade[enrolment[s].class]
ReadTransfer(r, s, c) ==
    /\ enrolment[s] # Null /\ enrolment[s].status = "ACTIVE"
    /\ SameGrade(s, c)
    /\ Begin(r, [Idle EXCEPT !.op = "move", !.who = s, !.ref = c])
    /\ UNCHANGED <<person, counter, issued, year, enquiry, account, contact, mailed,
                   handed, lost, raced, status, enrolment>>

Transfer(r) ==
    /\ desk[r].op = "move"
    /\ enrolment' = [enrolment EXCEPT ![desk[r].who].class = desk[r].ref]
    /\ End(r)
    /\ UNCHANGED <<person, counter, issued, year, enquiry, account, contact, mailed,
                   handed, lost, raced, status>>

(* bulkUpdateStudentStatus: one transaction per student, one after another; *)
(* a student whose transaction fails is reported and the rest go on.        *)
BeginBulk(r, S, st) ==
    /\ S # {} /\ \A s \in S : Registered(s)
    /\ Begin(r, [Idle EXCEPT !.op = "bulk", !.ref = st, !.batch = S])
    /\ UNCHANGED <<person, counter, issued, year, enquiry, account, contact, mailed,
                   handed, lost, raced, status, enrolment>>

BulkOne(r) ==
    LET j == desk[r] IN
    /\ j.op = "bulk"
    /\ \E s \in j.batch :
          /\ desk' = [desk EXCEPT ![r] = IF j.batch = {s} THEN Idle
                                         ELSE [j EXCEPT !.batch = @ \ {s}]]
          /\ \/ status' = [status EXCEPT ![s] = j.ref] /\ enrolment' = Closed(s, j.ref)
             \/ UNCHANGED <<status, enrolment>>
    /\ UNCHANGED <<person, counter, issued, year, enquiry, account, contact, mailed,
                   handed, lost, raced>>

-----------------------------------------------------------------------------
(* The process may end, or a connection be lost, before any step: an open   *)
(* transaction is rolled back and a password not sent yet is known to no    *)
(* one.                                                                     *)
Crash(r) ==
    /\ desk[r] # Idle
    /\ End(r)
    /\ lost' = IF desk[r].op \in {"send", "deliver"}
               THEN lost \cup {<<person[desk[r].who].account,
                                 IF desk[r].op = "send" THEN 1 ELSE desk[r].pw>>}
               ELSE lost
    /\ UNCHANGED <<person, counter, issued, year, enquiry, account, contact, mailed,
                   handed, raced, status, enrolment>>

RegistryNext ==
    \/ \E r \in Clerk :
          \/ \E p \in Person, n \in Opt(Number) : TakeNumber(r, p, n)
          \/ \E e \in Enquiry, s \in Student, n \in Number : ReadEnquiry(r, e, s, n)
          \/ InsertPerson(r) \/ ConvertEnquiry(r) \/ Crash(r)
    \/ \E p \in Person, n \in Number : UpdatePerson(p, n, Null)
    \/ \E e \in Enquiry, st \in {"CONTACTED", "CONVERTED", "CLOSED"} : UpdateEnquiry(e, st)
    \/ ChangeYear

LoginNext ==
    \/ \E r \in Clerk :
          \/ \E q \in Parent, s \in Student, prime \in BOOLEAN : LinkChild(r, q, s, prime)
          \/ \E s \in Student : Reissue(r, s)
          \/ LookUpStudent(r) \/ IssueLogin(r) \/ SendFirstLogin(r) \/ Deliver(r) \/ Crash(r)
    \/ \E q \in Parent, s \in Student : UnlinkChild(q, s)
    \/ \E p \in Person, n \in Number : UpdatePerson(p, n, Null)

EnrolNext ==
    \/ \E r \in Clerk :
          \/ \E s \in Student, c \in Class : ReadTransfer(r, s, c)
          \/ \E S \in SUBSET Student, st \in Status : BeginBulk(r, S, st)
          \/ Transfer(r) \/ BulkOne(r) \/ Crash(r)
    \/ \E s \in Student, c \in Class : CreateEnrollment(s, c)
    \/ \E s \in Student, st \in Status : UpdatePerson(s, Null, st)

OnboardingNext == RegistryNext \/ LoginNext \/ EnrolNext
OnboardingSpec == OnboardingInit /\ [][OnboardingNext]_onboardingVars

-----------------------------------------------------------------------------
(* Properties *)

(* A number once given by createStudent or createStaff, generated or typed  *)
(* in, is behind its prefix's counter for good, so the generator cannot     *)
(* give it to someone else, whatever was typed, renumbered or rolled back   *)
(* since (identifiers.service.ts:28-50, 97-112).                            *)
NeverReissued == \A n \in issued : n.seq <= counter[n.prefix]

(* An enquiry becomes one student however many conversions overlap, until   *)
(* someone edits its status back (admissions.service.ts:43-87).             *)
OneStudentPerEnquiry ==
    \A e \in Enquiry : ~enquiry[e].edited =>
        Cardinality({p \in Person : person[p].from = e}) <= 1

(* First-login credentials and reissued ones are only ever sent for the     *)
(* account the student is linked to, never for one that a race orphaned     *)
(* (students.service.ts:61-107).                                            *)
CredentialsOpenTheAccount ==
    \A m \in mailed : person[m.about].account = m.account

(* The temporary password in force of a linked student was mailed, handed   *)
(* over in a response, is about to be, or was cut off by a crash            *)
(* (students.service.ts:83-107, users.service.ts:196-219).                  *)
PasswordReachesSomeone ==
    \A s \in Student :
        LET u == person[s].account  g == account[u].pw IN
        \/ u = Null
        \/ <<u, g>> \in handed \cup lost
        \/ \E m \in mailed : m.account = u /\ m.pw = g
        \/ \E r \in Clerk : /\ desk[r].who = s
                            /\ \/ desk[r].op = "send" /\ g = 1
                               \/ desk[r].op = "deliver" /\ desk[r].pw = g

(* The login ID is the admission or staff number through every renumbering, *)
(* but for a student renumbered while the first login held the old number   *)
(* (students.service.ts:353-367, staff.service.ts:159-171).                 *)
LoginIsNumber ==
    \A p \in Person \ raced :
        person[p].account # Null => account[person[p].account].login = person[p].number

(* The doc of registerAdmissionNumberOverride: a generated number never     *)
(* collides with one typed in (identifiers.service.ts:97-99).               *)
GeneratedIsFree ==
    \A r \in Clerk : desk[r].op = "insert" /\ desk[r].new => NumberFree(desk[r].num)
=============================================================================
