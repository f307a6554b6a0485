-------------------------- MODULE CapabilityProofs --------------------------
(***************************************************************************)
(* Theorems about capability assessments and their gate, for any           *)
(* identities, clauses, requirements and any number of assessments.        *)
(***************************************************************************)
EXTENDS Capability, TLAPS

\* How far the evidence chain of one assessment has come: begun in state b,
\* now in state s.
Climbed(b, chain, length) ==
  \A k \in 1..length : chain[k] = Required[Progression[Rank(b) + k]]

ChainOf(b, s, chain) ==
  \/ /\ b \in Progressive /\ s \in Progressive
     /\ Rank(s) = Rank(b) + Len(chain)
     /\ Climbed(b, chain, Len(chain))
  \/ b = "UNSUPPORTED" /\ s = "UNSUPPORTED" /\ chain = << >>
  \/ /\ b \in Progressive /\ s = "UNSUPPORTED"
     /\ Len(chain) > 0 /\ chain[Len(chain)] = Required["UNSUPPORTED"]
     /\ Climbed(b, chain, Len(chain) - 1)

ChainInv == \A n \in DOMAIN book : ChainOf(begun[n], book[n].state, accepted[n])

BooksInv == begun \in Seq(States) /\ accepted \in Seq(Seq(Kinds \X Origins))

IInv == TypeOK /\ BooksInv /\ ChainInv
-----------------------------------------------------------------------------
LEMMA RankIsPosition ==
  /\ \A s \in Progressive : Rank(s) \in 1..6 /\ Progression[Rank(s)] = s
  /\ \A i \in 1..6 : Progression[i] \in Progressive /\ Rank(Progression[i]) = i
<1>1. /\ Progression[1] = "UNKNOWN" /\ Progression[2] = "DOCUMENTED" /\ Progression[3] = "EXPOSED"
      /\ Progression[4] = "ACCEPTED" /\ Progression[5] = "REALIZED" /\ Progression[6] = "CONFORMANT"
  BY DEF Progression
<1>2. \A i \in 1..6 : i \in {1, 2, 3, 4, 5, 6}
  OBVIOUS
<1>3. ASSUME NEW s \in Progressive  PROVE Rank(s) \in 1..6 /\ Progression[Rank(s)] = s
  <2>1. \E i \in 1..6 : Progression[i] = s
    BY <1>1 DEF Progressive
  <2> QED  BY <2>1 DEF Rank
<1>4. ASSUME NEW i \in 1..6, NEW j \in 1..6, Progression[i] = Progression[j]  PROVE i = j
  <2>1. i \in {1, 2, 3, 4, 5, 6} /\ j \in {1, 2, 3, 4, 5, 6}
    BY <1>2
  <2>2. CASE i = 1
    BY <1>1, <1>4, <2>1, <2>2
  <2>3. CASE i = 2
    BY <1>1, <1>4, <2>1, <2>3
  <2>4. CASE i = 3
    BY <1>1, <1>4, <2>1, <2>4
  <2>5. CASE i = 4
    BY <1>1, <1>4, <2>1, <2>5
  <2>6. CASE i = 5
    BY <1>1, <1>4, <2>1, <2>6
  <2>7. CASE i = 6
    BY <1>1, <1>4, <2>1, <2>7
  <2> QED  BY <2>1, <2>2, <2>3, <2>4, <2>5, <2>6, <2>7
<1>5. \A i \in 1..6 : Progression[i] \in Progressive
  BY <1>1, <1>2 DEF Progressive
<1>6. ASSUME NEW i \in 1..6  PROVE Progression[i] \in Progressive /\ Rank(Progression[i]) = i
  <2>1. Rank(Progression[i]) \in 1..6 /\ Progression[Rank(Progression[i])] = Progression[i]
    BY <1>3, <1>5
  <2> QED  BY <1>4, <1>5, <2>1
<1> QED  BY <1>3, <1>6

LEMMA Terminal == \A s \in Progressive \ {"CONFORMANT"} : Rank(s) \in 1..5
<1>1. Rank("CONFORMANT") = 6
  BY RankIsPosition DEF Progression
<1> SUFFICES ASSUME NEW s \in Progressive, s # "CONFORMANT"  PROVE Rank(s) \in 1..5
  OBVIOUS
<1>2. Rank(s) \in 1..6 /\ Progression[Rank(s)] = s
  BY RankIsPosition
<1>3. Progression[6] = "CONFORMANT"
  BY DEF Progression
<1>4. Rank(s) # 6
  BY <1>2, <1>3
<1> QED  BY <1>2, <1>4

\* One more state, or UNSUPPORTED, with its evidence continues a chain.
LEMMA ChainGrows ==
  ASSUME NEW b \in States, NEW prior, prior.state \in States, NEW target \in States,
         NEW chain \in Seq(Kinds \X Origins), NEW ev \in Kinds \X Origins,
         ChainOf(b, prior.state, chain), Legal(prior, target), ev = Required[target]
  PROVE  ChainOf(b, target, Append(chain, ev))
<1>1. /\ prior.state \in Progressive \ {"CONFORMANT"} /\ b \in Progressive
      /\ Rank(prior.state) = Rank(b) + Len(chain)
      /\ Climbed(b, chain, Len(chain))
  BY DEF ChainOf, Legal, States
<1>2. /\ Len(chain) \in Nat /\ Len(Append(chain, ev)) = Len(chain) + 1
      /\ Append(chain, ev)[Len(chain) + 1] = ev
      /\ \A k \in 1..Len(chain) : Append(chain, ev)[k] = chain[k]
  OBVIOUS
<1>3. Climbed(b, Append(chain, ev), Len(chain))
  BY <1>1, <1>2 DEF Climbed
<1>4. CASE target = "UNSUPPORTED"
  BY <1>1, <1>2, <1>3, <1>4 DEF ChainOf
<1>5. CASE target = Progression[Rank(prior.state) + 1]
  <2>1. /\ Rank(prior.state) \in 1..5 /\ Rank(b) \in 1..6
        /\ target \in Progressive /\ Rank(target) = Rank(prior.state) + 1
    BY <1>1, <1>5, Terminal, RankIsPosition
  <2>2. \A k \in 1..(Len(chain) + 1) : Append(chain, ev)[k] = Required[Progression[Rank(b) + k]]
    <3> SUFFICES ASSUME NEW k \in 1..(Len(chain) + 1)
                 PROVE  Append(chain, ev)[k] = Required[Progression[Rank(b) + k]]
      OBVIOUS
    <3>1. CASE k = Len(chain) + 1
      BY <3>1, <1>1, <1>2, <1>5, <2>1
    <3>2. CASE k \in 1..Len(chain)
      BY <3>2, <1>3 DEF Climbed
    <3> QED  BY <1>2, <3>1, <3>2
  <2> QED  BY <1>1, <1>2, <2>1, <2>2 DEF ChainOf, Climbed
<1> QED  BY <1>4, <1>5 DEF Legal

LEMMA InitIInv == Init => IInv
<1> SUFFICES ASSUME Init  PROVE IInv
  OBVIOUS
<1>1. requires \subseteq Requirement
  BY DEF Init
<1>2. book = << >> /\ accepted = << >> /\ begun = << >>
  BY DEF Init
<1> QED  BY <1>1, <1>2 DEF IInv, TypeOK, BooksInv, ChainInv

LEMMA ConstructStep ==
  ASSUME IInv, NEW i \in Identity, NEW c \in Clause, NEW s \in States, Construct(i, c, s)
  PROVE  IInv'
<1> DEFINE a == [identity |-> i, clause |-> c, state |-> s]
           m == Len(book) + 1
<1>1. /\ book \in Seq(Assessment) /\ accepted \in Seq(Seq(Kinds \X Origins)) /\ begun \in Seq(States)
      /\ DOMAIN accepted = DOMAIN book /\ DOMAIN begun = DOMAIN book
      /\ requires \subseteq Requirement
  BY DEF IInv, TypeOK, BooksInv
<1>2. a \in Assessment /\ a.state = s
  BY DEF Assessment
<1>3. Len(accepted) = Len(book) /\ Len(begun) = Len(book) /\ Len(book) \in Nat
  BY <1>1
<1>4. /\ book' \in Seq(Assessment) /\ DOMAIN book' = 1..m /\ DOMAIN book = 1..Len(book)
      /\ book'[m] = a /\ \A n \in 1..Len(book) : book'[n] = book[n]
  BY <1>1, <1>2 DEF Construct
<1>5. /\ accepted' \in Seq(Seq(Kinds \X Origins)) /\ DOMAIN accepted' = 1..m
      /\ accepted'[m] = << >> /\ \A n \in 1..Len(book) : accepted'[n] = accepted[n]
  BY <1>1, <1>3 DEF Construct
<1>6. /\ begun' \in Seq(States) /\ DOMAIN begun' = 1..m
      /\ begun'[m] = s /\ \A n \in 1..Len(book) : begun'[n] = begun[n]
  BY <1>1, <1>3 DEF Construct
<1>7. ChainOf(s, s, << >>)
  BY RankIsPosition DEF ChainOf, Climbed, States
<1>8. ASSUME NEW n \in DOMAIN book'
      PROVE  ChainOf(begun'[n], book'[n].state, accepted'[n])
  <2>1. CASE n = m
    BY <2>1, <1>2, <1>4, <1>5, <1>6, <1>7
  <2>2. CASE n \in 1..Len(book)
    BY <2>2, <1>4, <1>5, <1>6 DEF IInv, ChainInv
  <2> QED  BY <1>3, <1>4, <2>1, <2>2
<1>9. TypeOK'
  <2>1. \A n \in DOMAIN book' : accepted'[n] \in Seq(Kinds \X Origins) /\ begun'[n] \in States
    BY <1>4, <1>5, <1>6
  <2> QED  BY <1>1, <1>4, <1>5, <1>6, <2>1 DEF Construct, TypeOK
<1> QED  BY <1>5, <1>6, <1>8, <1>9 DEF IInv, BooksInv, ChainInv

LEMMA AssessStep ==
  ASSUME IInv, NEW n \in DOMAIN book, NEW target \in States, Assess(n, target)
  PROVE  IInv'
<1>1. /\ book \in Seq(Assessment) /\ accepted \in Seq(Seq(Kinds \X Origins)) /\ begun \in Seq(States)
      /\ DOMAIN accepted = DOMAIN book /\ DOMAIN begun = DOMAIN book
      /\ requires \subseteq Requirement
  BY DEF IInv, TypeOK, BooksInv
<1>2. PICK e \in Evidence :
        /\ Attests(e, book[n], target)
        /\ accepted' = [accepted EXCEPT ![n] = Append(@, <<e.kind, e.origin>>)]
  BY DEF Assess
<1> DEFINE ev == <<e.kind, e.origin>>
<1>3. ev \in Kinds \X Origins /\ ev = Required[target]
  BY <1>2 DEF Evidence, Attests
<1>4. book[n] \in Assessment /\ accepted[n] \in Seq(Kinds \X Origins) /\ begun[n] \in States
  BY <1>1
<1>5. /\ book' = [book EXCEPT ![n].state = target] /\ DOMAIN book' = DOMAIN book
      /\ book'[n] \in Assessment /\ book'[n].state = target
      /\ \A k \in DOMAIN book : k # n => book'[k] = book[k]
  BY <1>1, <1>4 DEF Assess, Assessment
<1>6. /\ DOMAIN accepted' = DOMAIN book
      /\ accepted'[n] = Append(accepted[n], ev)
      /\ \A k \in DOMAIN book : k # n => accepted'[k] = accepted[k]
  BY <1>1, <1>2
<1>7. Append(accepted[n], ev) \in Seq(Kinds \X Origins)
  BY <1>3, <1>4
<1>8. /\ book' \in Seq(Assessment) /\ accepted' \in Seq(Seq(Kinds \X Origins))
      /\ begun' = begun /\ requires' = requires
  <2>1. begun' = begun /\ requires' = requires
    BY DEF Assess
  <2>2. book' \in Seq(Assessment)
    BY <1>1, <1>5
  <2>3. accepted' \in Seq(Seq(Kinds \X Origins))
    BY <1>1, <1>2, <1>6, <1>7
  <2> QED  BY <2>1, <2>2, <2>3
<1>9. ASSUME NEW k \in DOMAIN book'
      PROVE  ChainOf(begun'[k], book'[k].state, accepted'[k])
  <2>1. CASE k = n
    <3>1. ChainOf(begun[n], book[n].state, accepted[n]) /\ book[n].state \in States
      BY <1>4 DEF IInv, ChainInv, Assessment
    <3>2. Legal(book[n], target)
      BY DEF Assess
    <3>3. ChainOf(begun[n], target, Append(accepted[n], ev))
      BY <1>3, <1>4, <3>1, <3>2, ChainGrows
    <3> QED  BY <2>1, <1>5, <1>6, <1>8, <3>3
  <2>2. CASE k # n
    BY <1>9, <2>2, <1>5, <1>6, <1>8 DEF IInv, ChainInv
  <2> QED  BY <2>1, <2>2
<1>10. TypeOK'
  <2>1. \A k \in DOMAIN book' : accepted'[k] \in Seq(Kinds \X Origins) /\ begun'[k] \in States
    BY <1>1, <1>4, <1>5, <1>6, <1>7, <1>8
  <2> QED  BY <1>1, <1>5, <1>6, <1>8, <2>1 DEF TypeOK
<1> QED  BY <1>1, <1>8, <1>9, <1>10 DEF IInv, BooksInv, ChainInv

LEMMA NextIInv == IInv /\ [Next]_vars => IInv'
<1> SUFFICES ASSUME IInv, [Next]_vars  PROVE IInv'
  OBVIOUS
<1>1. CASE UNCHANGED vars
  BY <1>1 DEF vars, IInv, TypeOK, BooksInv, ChainInv
<1> QED  BY <1>1, ConstructStep, AssessStep DEF Next

\* The inductive invariant holds in every behaviour.
THEOREM Invariance == Spec => []IInv
  BY InitIInv, NextIInv, PTL DEF Spec

(***************************************************************************)
(* The properties                                                          *)
(***************************************************************************)
\* Every variable keeps its type.
THEOREM TypeCorrect == Spec => []TypeOK
<1>1. IInv => TypeOK
  BY DEF IInv
<1> QED  BY <1>1, Invariance, PTL

\* No sequence of legal calls skips a state or its evidence.
THEOREM ChainComplete == Spec => []ChainIsComplete
<1>1. ASSUME IInv  PROVE ChainIsComplete
  <2> SUFFICES ASSUME NEW n \in DOMAIN book
               PROVE  LET first == Rank(begun[n])
                          chain == accepted[n]
                          climbed == IF book[n].state = "UNSUPPORTED" /\ begun[n] # "UNSUPPORTED"
                                     THEN Len(chain) - 1 ELSE Len(chain)
                      IN  /\ \A k \in 1..climbed : chain[k] = Required[Progression[first + k]]
                          /\ book[n].state \in Progressive => Rank(book[n].state) = first + Len(chain)
                          /\ climbed < Len(chain) => chain[Len(chain)] = Required["UNSUPPORTED"]
    BY DEF ChainIsComplete
  <2>1. ChainOf(begun[n], book[n].state, accepted[n]) /\ Len(accepted[n]) \in Nat
    BY <1>1 DEF IInv, ChainInv, TypeOK
  <2>2. "UNSUPPORTED" \notin Progressive
    BY DEF Progressive
  <2> DEFINE b == begun[n]
             s == book[n].state
             chain == accepted[n]
  <2>3. CASE /\ b \in Progressive /\ s \in Progressive
             /\ Rank(s) = Rank(b) + Len(chain) /\ Climbed(b, chain, Len(chain))
    BY <2>1, <2>2, <2>3 DEF Climbed
  <2>4. CASE b = "UNSUPPORTED" /\ s = "UNSUPPORTED" /\ chain = << >>
    BY <2>2, <2>4
  <2>5. CASE /\ b \in Progressive /\ s = "UNSUPPORTED"
             /\ Len(chain) > 0 /\ chain[Len(chain)] = Required["UNSUPPORTED"]
             /\ Climbed(b, chain, Len(chain) - 1)
    BY <2>1, <2>2, <2>5 DEF Climbed
  <2> QED  BY <2>1, <2>3, <2>4, <2>5 DEF ChainOf
<1> QED  BY <1>1, Invariance, PTL

\* Past the duplicate check the dict finds the one assessment of a clause.
LEMMA GateReads ==
  ASSUME NEW s, DOMAIN s \subseteq Nat
  PROVE  Satisfied(s) <=>
           /\ \A m, n \in DOMAIN s : s[m].clause = s[n].clause => m = n
           /\ \A r \in requires : \E n \in DOMAIN s : s[n].clause = r.clause /\ Meets(s[n], r)
<1> SUFFICES ASSUME \A m, n \in DOMAIN s : s[m].clause = s[n].clause => m = n
             PROVE  (\A r \in requires :
                       r.clause \in DOMAIN ByClause(s) /\ Meets(ByClause(s)[r.clause], r))
                    <=> \A r \in requires :
                          \E n \in DOMAIN s : s[n].clause = r.clause /\ Meets(s[n], r)
  BY DEF Satisfied
<1>1. ASSUME NEW n \in DOMAIN s PROVE ByClause(s)[s[n].clause] = s[n]
  <2> DEFINE P(k) == /\ s[k].clause = s[n].clause
                     /\ \A m \in DOMAIN s : s[m].clause = s[n].clause => m <= k
  <2>1. P(n) OBVIOUS
  <2>2. \A k \in DOMAIN s : P(k) => k = n OBVIOUS
  <2>3. (CHOOSE k \in DOMAIN s : P(k)) = n BY <2>1, <2>2
  <2> QED BY <2>3 DEF ByClause
<1>2. \A c : c \in DOMAIN ByClause(s) <=> \E n \in DOMAIN s : s[n].clause = c
  BY DEF ByClause
<1>3. ASSUME NEW r
      PROVE  r.clause \in DOMAIN ByClause(s) /\ Meets(ByClause(s)[r.clause], r)
               <=> \E n \in DOMAIN s : s[n].clause = r.clause /\ Meets(s[n], r)
  <2>1. ASSUME r.clause \in DOMAIN ByClause(s), Meets(ByClause(s)[r.clause], r)
        PROVE  \E n \in DOMAIN s : s[n].clause = r.clause /\ Meets(s[n], r)
    <3>1. PICK n \in DOMAIN s : s[n].clause = r.clause BY <1>2, <2>1
    <3>2. ByClause(s)[r.clause] = s[n] BY <1>1, <3>1
    <3> QED BY <2>1, <3>1, <3>2
  <2>2. ASSUME NEW n \in DOMAIN s, s[n].clause = r.clause, Meets(s[n], r)
        PROVE  r.clause \in DOMAIN ByClause(s) /\ Meets(ByClause(s)[r.clause], r)
    <3>1. r.clause \in DOMAIN ByClause(s) BY <1>2, <2>2
    <3>2. ByClause(s)[r.clause] = s[n] BY <1>1, <2>2
    <3> QED BY <2>2, <3>1, <3>2
  <2> QED BY <2>1, <2>2
<1> QED BY <1>3

\* The gate answers the same for every order of the assessments: the check for a
\* clause assessed twice comes before the dict in which the last would win.
THEOREM OrderIgnored ==
  ASSUME NEW s \in Seq(Assessment), NEW t \in Seq(Assessment),
         NEW f \in [DOMAIN t -> DOMAIN s],
         \A m, n \in DOMAIN t : f[m] = f[n] => m = n,
         \A k \in DOMAIN s : \E n \in DOMAIN t : f[n] = k,
         \A n \in DOMAIN t : t[n] = s[f[n]]
  PROVE  Satisfied(s) <=> Satisfied(t)
<1>1. DOMAIN s \subseteq Nat /\ DOMAIN t \subseteq Nat OBVIOUS
<1>2. \A n \in DOMAIN t : f[n] \in DOMAIN s OBVIOUS
<1>3. ASSUME Satisfied(s) PROVE Satisfied(t)
  <2>1. /\ \A k, l \in DOMAIN s : s[k].clause = s[l].clause => k = l
        /\ \A r \in requires : \E k \in DOMAIN s : s[k].clause = r.clause /\ Meets(s[k], r)
    BY ONLY <1>1, <1>3, GateReads
  <2>2. \A m, n \in DOMAIN t : t[m].clause = t[n].clause => m = n BY <1>2, <2>1
  <2>3. ASSUME NEW r \in requires
        PROVE  \E n \in DOMAIN t : t[n].clause = r.clause /\ Meets(t[n], r)
    <3>1. PICK k \in DOMAIN s : s[k].clause = r.clause /\ Meets(s[k], r) BY <2>1
    <3>2. PICK n \in DOMAIN t : f[n] = k OBVIOUS
    <3>3. t[n] = s[k] BY <3>2
    <3> QED BY <3>1, <3>3
  <2> QED BY ONLY <1>1, <2>2, <2>3, GateReads
<1>4. ASSUME Satisfied(t) PROVE Satisfied(s)
  <2>1. /\ \A m, n \in DOMAIN t : t[m].clause = t[n].clause => m = n
        /\ \A r \in requires : \E n \in DOMAIN t : t[n].clause = r.clause /\ Meets(t[n], r)
    BY ONLY <1>1, <1>4, GateReads
  <2>2. ASSUME NEW k \in DOMAIN s, NEW l \in DOMAIN s, s[k].clause = s[l].clause PROVE k = l
    <3>1. PICK m \in DOMAIN t : f[m] = k OBVIOUS
    <3>2. PICK n \in DOMAIN t : f[n] = l OBVIOUS
    <3>3. t[m].clause = t[n].clause BY <2>2, <3>1, <3>2
    <3> QED BY <2>1, <3>1, <3>2, <3>3
  <2>3. ASSUME NEW r \in requires
        PROVE  \E k \in DOMAIN s : s[k].clause = r.clause /\ Meets(s[k], r)
    <3>1. PICK n \in DOMAIN t : t[n].clause = r.clause /\ Meets(t[n], r) BY <2>1
    <3>2. f[n] \in DOMAIN s /\ t[n] = s[f[n]] BY <1>2
    <3> QED BY <3>1, <3>2
  <2> QED BY ONLY <1>1, <2>2, <2>3, GateReads
<1> QED BY <1>3, <1>4

\* Evidence never closes a gate, except by showing a capability unsupported.
THEOREM GateStaysPassed == Spec => GateStays
<1> DEFINE Excused ==
       \/ \E n \in DOMAIN book : book[n].state # "UNSUPPORTED" /\ book'[n].state = "UNSUPPORTED"
       \/ \E n \in DOMAIN book : Len(book') > Len(book) /\ book[n].clause = book'[Len(book')].clause
<1>1. ASSUME IInv, NEW n \in DOMAIN book, NEW target \in States, Assess(n, target),
             Satisfied(book), ~Satisfied(book')
      PROVE  Excused
  <2>a. book \in Seq(Assessment) /\ Legal(book[n], target) /\ book' = [book EXCEPT ![n].state = target]
    BY <1>1 DEF IInv, TypeOK, Assess
  <2>b. book[n] \in Assessment
    BY <2>a
  <2>c. /\ DOMAIN book' = DOMAIN book /\ book'[n] = [book[n] EXCEPT !.state = target]
        /\ \A k \in DOMAIN book : k # n => book'[k] = book[k]
    BY <2>a
  <2>d. /\ book'[n].state = target /\ book'[n].clause = book[n].clause
        /\ book'[n].identity = book[n].identity
    BY <2>b, <2>c DEF Assessment
  <2> SUFFICES ASSUME target # "UNSUPPORTED"  PROVE Satisfied(book')
    BY <1>1, <2>a, <2>d DEF Legal
  <2>1. requires' = requires /\ requires \subseteq Requirement
    BY <1>1 DEF IInv, TypeOK, Assess
  <2>2. /\ book[n].state \in Progressive \ {"CONFORMANT"}
        /\ target = Progression[Rank(book[n].state) + 1]
    <3>1. book[n].state \in States
      BY <2>b DEF Assessment
    <3> QED  BY <2>a, <3>1 DEF Legal, States
  <2>3. /\ target \in Progressive /\ Rank(target) = Rank(book[n].state) + 1
        /\ Rank(book[n].state) \in 1..5 /\ target \notin {"UNKNOWN", "UNSUPPORTED"}
    <3>1. Rank("UNKNOWN") = 1 /\ "UNSUPPORTED" \notin Progressive
      BY RankIsPosition DEF Progression, Progressive
    <3> QED  BY <2>2, <3>1, Terminal, RankIsPosition
  <2>4. /\ DOMAIN book' = DOMAIN book
        /\ \A k \in DOMAIN book : /\ book'[k].clause = book[k].clause
                                  /\ book'[k].identity = book[k].identity
                                  /\ k # n => book'[k] = book[k]
        /\ book'[n].state = target
    BY <2>c, <2>d
  <2>5. ASSUME NEW k \in DOMAIN book, NEW r \in requires, Meets(book[k], r)
        PROVE  Meets(book'[k], r)
    <3>1. r.minimum \in Progressive /\ Rank(r.minimum) \in 1..6
      BY <2>1, RankIsPosition DEF Requirement
    <3>2. CASE k = n
      BY <2>5, <3>1, <3>2, <2>3, <2>4 DEF Meets
    <3>3. CASE k # n
      BY <2>5, <3>3, <2>4
    <3> QED  BY <3>2, <3>3
  <2>6. DOMAIN book \subseteq Nat /\ DOMAIN book' \subseteq Nat
    BY <2>a, <2>4
  <2>7. /\ \A k, l \in DOMAIN book : book[k].clause = book[l].clause => k = l
        /\ \A r \in requires : \E k \in DOMAIN book : book[k].clause = r.clause /\ Meets(book[k], r)
    BY <1>1, <2>6, GateReads
  <2>8. \A k, l \in DOMAIN book' : book'[k].clause = book'[l].clause => k = l
    BY <2>4, <2>7
  <2>9. \A r \in requires : \E k \in DOMAIN book' : book'[k].clause = r.clause /\ Meets(book'[k], r)
    BY <2>4, <2>5, <2>7
  <2> QED  BY <2>6, <2>8, <2>9, GateReads
<1>2. ASSUME IInv, NEW i \in Identity, NEW c \in Clause, NEW s \in States, Construct(i, c, s),
             Satisfied(book), ~Satisfied(book')
      PROVE  Excused
  <2> SUFFICES ASSUME \A n \in DOMAIN book : book[n].clause # c  PROVE Satisfied(book')
    <3>1. book \in Seq(Assessment) /\ book' = Append(book, [identity |-> i, clause |-> c, state |-> s])
      BY <1>2 DEF IInv, TypeOK, Construct
    <3>2. Len(book') > Len(book) /\ book'[Len(book')].clause = c
      BY <3>1
    <3> QED  BY <1>2, <3>2
  <2>1. /\ book \in Seq(Assessment) /\ requires' = requires
        /\ book' = Append(book, [identity |-> i, clause |-> c, state |-> s])
    BY <1>2 DEF IInv, TypeOK, Construct
  <2>2. /\ DOMAIN book = 1..Len(book) /\ DOMAIN book' = 1..(Len(book) + 1) /\ Len(book) \in Nat
        /\ book'[Len(book) + 1].clause = c
        /\ \A n \in 1..Len(book) : book'[n] = book[n]
    BY <2>1
  <2>a. /\ \A k, l \in DOMAIN book : book[k].clause = book[l].clause => k = l
        /\ \A r \in requires : \E k \in DOMAIN book : book[k].clause = r.clause /\ Meets(book[k], r)
    BY <1>2, <2>2, GateReads
  <2>3. \A k, n \in DOMAIN book' : book'[k].clause = book'[n].clause => k = n
    <3> SUFFICES ASSUME NEW k \in DOMAIN book', NEW n \in DOMAIN book',
                        book'[k].clause = book'[n].clause
                 PROVE  k = n
      OBVIOUS
    <3>1. k \in 1..Len(book) \/ k = Len(book) + 1
      BY <2>2
    <3>2. n \in 1..Len(book) \/ n = Len(book) + 1
      BY <2>2
    <3> QED  BY <3>1, <3>2, <2>2, <2>a
  <2>4. \A r \in requires : \E n \in DOMAIN book' : book'[n].clause = r.clause /\ Meets(book'[n], r)
    BY <2>2, <2>a
  <2>5. DOMAIN book' \subseteq Nat
    BY <2>2
  <2> QED  BY <2>3, <2>4, <2>5, GateReads
<1>3. IInv /\ Next => (Satisfied(book) /\ ~Satisfied(book') => Excused)
  BY <1>1, <1>2 DEF Next
<1> QED  BY <1>3, Invariance, PTL DEF Spec, GateStays
=============================================================================
