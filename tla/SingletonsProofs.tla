-------------------------- MODULE SingletonsProofs --------------------------
(***************************************************************************)
(* The singletons of Singletons, for any threads, addresses, names and     *)
(* values, any width of a counter and any number of uses: each class gets  *)
(* one object, counts are kept in it whole but for wraps, and a histogram  *)
(* tells the values that were recorded.                                    *)
(***************************************************************************)
EXTENDS Singletons, SequenceTheorems, TLAPS

-----------------------------------------------------------------------------
(* Counters that wrap.                                                     *)

\* A number and what is left of it differ by whole wraps.
LEMMA Division ==
    ASSUME NEW d \in Nat \ {0}, NEW n \in Int
    PROVE  n % d \in Int /\ n \div d \in Int /\ n = (n % d) + (n \div d) * d
OBVIOUS

\* Whole wraps leave nothing.
LEMMA WholeWraps ==
    ASSUME NEW d \in Nat \ {0}, NEW n \in Int, NEW q \in Int
    PROVE  (n + q * d) % d = n % d
<1>1. PICK r \in Int, p \in Int : r = n % d /\ p = n \div d
  BY Division
<1>2. r \in 0..(d - 1) /\ n = r + p * d
  BY <1>1, Division
<1>3. PICK k \in Int : k = p + q
  OBVIOUS
<1>4. n + q * d = r + k * d
  BY <1>2, <1>3
<1>5. (r + k * d) % d = r
  BY <1>2
<1> QED
  BY <1>1, <1>4, <1>5

\* A counter that wraps and takes more is as one that takes both at once.
LEMMA WrapsOnce ==
    ASSUME NEW d \in Nat \ {0}, NEW n \in Int, NEW more \in Int
    PROVE  ((n % d) + more) % d = (n + more) % d
<1>1. PICK r \in Int, q \in Int : r = n % d /\ n = r + q * d
  BY Division
<1>2. PICK m \in Int : m = r + more
  BY <1>1
<1>3. n + more = m + q * d
  BY <1>1, <1>2
<1>4. (m + q * d) % d = m % d
  BY WholeWraps
<1> QED
  BY <1>1, <1>2, <1>3, <1>4

-----------------------------------------------------------------------------
(* What a histogram tells of the values recorded in it.                    *)

Data == [min_value : Int \cup {NaN}, max_value : Int \cup {NaN}, count : Nat]

\* The data is of the values in s.  Without NaN its extremes bound them all, and
\* each is one of them or what it began with.
Tells(data, s) ==
    /\ data \in Data /\ data.count = Len(s)
    /\ NaN \notin ToSet(s) =>
         /\ data.min_value \in ToSet(s) \cup {Greatest}
         /\ data.max_value \in ToSet(s) \cup {-Greatest}
         /\ data.min_value <= Greatest /\ -Greatest <= data.max_value
         /\ \A v \in ToSet(s) : data.min_value <= v /\ v <= data.max_value

\* One more value in a sequence.
LEMMA OneMore ==
    ASSUME NEW S, NEW s \in Seq(S), NEW v \in S
    PROVE  /\ Append(s, v) \in Seq(S) /\ Len(Append(s, v)) = Len(s) + 1
           /\ ToSet(Append(s, v)) = ToSet(s) \cup {v}
           /\ Append(s, v) # <<>>
<1>1. /\ Append(s, v) \in Seq(S) /\ Len(Append(s, v)) = Len(s) + 1
      /\ \A i \in 1..Len(s) : Append(s, v)[i] = s[i]
      /\ Append(s, v)[Len(s) + 1] = v
  OBVIOUS
<1>2. DOMAIN Append(s, v) = DOMAIN s \cup {Len(s) + 1}
  BY <1>1
<1>3. \A i \in DOMAIN s : Append(s, v)[i] = s[i]
  BY <1>1
<1> QED
  BY <1>1, <1>2, <1>3 DEF ToSet

\* The data of no value is what a histogram begins with.
LEMMA NoneRecorded ==
    ASSUME SingletonsAssumption
    PROVE  Tells(HistogramData, <<>>)
<1>1. Len(<<>>) = 0 /\ ToSet(<<>>) = {}
  BY DEF ToSet
<1>2. HistogramData \in Data
  BY DEF HistogramData, Data, SingletonsAssumption
<1> QED
  BY <1>1, <1>2 DEF HistogramData, SingletonsAssumption, Tells

\* One more value is told of, too.
LEMMA MoreRecorded ==
    ASSUME SingletonsAssumption, NEW s \in Seq(Values), NEW v \in Values,
           NEW data, Tells(data, s), NEW more \in Recorded(data, v)
    PROVE  Tells(more, Append(s, v))
<1>1. v \in Int \cup {NaN} /\ data \in Data /\ NaN \notin Int
      /\ Greatest \in Nat
  BY DEF SingletonsAssumption, Tells
<1>2. /\ more.count = data.count + 1
      /\ more.min_value \in {v, data.min_value}
      /\ more.max_value \in {v, data.max_value}
      /\ more = [min_value |-> more.min_value, max_value |-> more.max_value,
                 count |-> more.count]
  BY DEF Recorded
<1>3. more \in Data
  BY <1>1, <1>2 DEF Data
<1>4. Len(Append(s, v)) = Len(s) + 1 /\ ToSet(Append(s, v)) = ToSet(s) \cup {v}
  BY OneMore
<1>5. ASSUME NaN \notin ToSet(s) \cup {v}
      PROVE  LET seen == ToSet(s) \cup {v}
             IN  /\ more.min_value \in seen \cup {Greatest}
                 /\ more.max_value \in seen \cup {-Greatest}
                 /\ more.min_value <= Greatest /\ -Greatest <= more.max_value
                 /\ \A u \in seen : more.min_value <= u /\ u <= more.max_value
  <2>1. ToSet(s) \subseteq Int /\ v \in Int /\ v # NaN
    BY <1>1, <1>5 DEF ToSet, SingletonsAssumption
  <2>2. PICK low \in Int, high \in Int :
           /\ low = data.min_value /\ high = data.max_value
           /\ low # NaN /\ high # NaN
    BY <1>1, <1>5, <2>1 DEF Tells
  <2>3. /\ low \in ToSet(s) \cup {Greatest} /\ high \in ToSet(s) \cup {-Greatest}
        /\ low <= Greatest /\ -Greatest <= high
        /\ \A u \in ToSet(s) : low <= u /\ u <= high
    BY <1>5, <2>2 DEF Tells
  <2>4. /\ more.min_value \in {IF v < low THEN v ELSE low, IF low < v THEN low ELSE v}
        /\ more.max_value \in {IF high < v THEN v ELSE high, IF v < high THEN high ELSE v}
    BY <2>1, <2>2 DEF Recorded, Less
  <2>5. /\ more.min_value = (IF v < low THEN v ELSE low)
        /\ more.max_value = (IF high < v THEN v ELSE high)
    BY <2>1, <2>2, <2>4
  <2>6. \A u \in ToSet(s) \cup {v} : more.min_value <= u /\ u <= more.max_value
    BY <2>1, <2>3, <2>5
  <2> QED
    BY <1>1, <2>1, <2>3, <2>5, <2>6
<1> QED
  BY <1>2, <1>3, <1>4, <1>5 DEF Tells

-----------------------------------------------------------------------------
(* The inductive invariant.                                                *)

\* A thread in a call, and the object it has a pointer to.
Busy == [at : {"once", "make", "call"}, does : Calls, this : Objects \cup {Null}]

Types ==
    /\ init_flag_ \in [Classes -> {"fresh", "running", "done"}]
    /\ instance_ \in [Classes -> Objects \cup {Null}]
    /\ count = [o \in DOMAIN count |-> count[o]]
    /\ histograms_ = [o \in DOMAIN count |-> histograms_[o]]
    /\ call \in [Threads -> Busy \cup {Idle}]
    /\ counted \in [Classes -> Int]
    /\ records \in [Names -> Seq(Values)]

\* While the work of a once_flag runs, one thread makes the object, and no other.
OneMaker ==
    \A t \in Threads : At(t, "make") =>
        /\ init_flag_[Class(t)] = "running"
        /\ \A u \in Threads : At(u, "make") /\ Class(u) = Class(t) => u = t

\* The object of a class is there once the flag is done, and is no other's.
OneObject ==
    \A c \in Classes :
        /\ init_flag_[c] = "done" <=> instance_[c] # Null
        /\ instance_[c] # Null =>
             /\ instance_[c] \in DOMAIN count
             /\ \A d \in Classes \ {c} : instance_[d] # instance_[c]

\* A thread in a method is in one of the object of its class.
OfTheClass ==
    \A t \in Threads : At(t, "call") =>
        instance_[Class(t)] # Null /\ call[t].this = instance_[Class(t)]

\* Nothing is counted before there is an object, and everything after.
AllCounted ==
    \A c \in Classes :
        IF instance_[c] = Null THEN counted[c] = 0
        ELSE count[instance_[c]] = Wrapped(counted[c])

\* Nor is a value recorded before.
AllRecorded ==
    LET map == histograms_[instance_["Statistics"]]
    IN  IF instance_["Statistics"] = Null
        THEN \A name \in Names : records[name] = <<>>
        ELSE /\ DOMAIN map = {name \in Names : records[name] # <<>>}
             /\ \A name \in DOMAIN map : Tells(map[name], records[name])

IInv ==
    /\ Types /\ OneMaker /\ OneObject /\ OfTheClass
    /\ AllCounted /\ AllRecorded

-----------------------------------------------------------------------------
(* The steps.                                                              *)

\* What a call is of.
LEMMA CallsAre ==
    ASSUME SingletonsAssumption, NEW what \in Calls
    PROVE  /\ ClassOf(what.macro) \in Classes
           /\ what.macro \in Counting => Counts(what.macro) \in Int
           /\ what.macro = "STATS_RECORD" =>
                /\ what.name \in Names /\ what.value \in Values
                /\ ClassOf(what.macro) = "Statistics"
           /\ what.macro = "ResetAllStats" => ClassOf(what.macro) = "Statistics"
<1>1. ClassOf(what.macro) \in Classes
  BY DEF ClassOf, Classes
<1>2. what.macro \in Counting => Counts(what.macro) \in Int
  BY DEF Counting, Counts, STATS, LOG
<1>3. "STATS_RECORD" \notin Counting /\ "STATS_RECORD" # "ResetAllStats"
  BY DEF Counting, LOG
<1>4. what.macro = "STATS_RECORD" => what.name \in Names /\ what.value \in Values
  BY <1>3 DEF Calls
<1>5. /\ ClassOf("STATS_RECORD") = "Statistics"
      /\ ClassOf("ResetAllStats") = "Statistics"
  BY DEF ClassOf, LOG
<1> QED
  BY <1>1, <1>2, <1>4, <1>5

\* A thread at a place of a call is busy.
LEMMA BusyThread ==
    ASSUME SingletonsAssumption, Types, NEW t \in Threads, NEW place, At(t, place)
    PROVE  /\ call[t] \in Busy /\ call[t] # Idle /\ call[t].at = place
           /\ Class(t) \in Classes
<1>1. call[t] \in Busy
  BY DEF Types, At
<1>2. call[t].does \in Calls
  BY <1>1 DEF Busy
<1> QED
  BY <1>1, <1>2, CallsAre DEF At, Class

\* One that is not idle is told from it by its place.
LEMMA BusyIsNotIdle == \A b \in Busy : b # Idle
<1>1. Idle.at = "idle"
  BY DEF Idle
<1> QED
  BY <1>1 DEF Busy

\* A thread goes on in its call, and the others stay where they are.
LEMMA GoesOn ==
    ASSUME SingletonsAssumption, Types, NEW t \in Threads, NEW place,
           At(t, place), NEW next \in {"once", "make", "call"}, Go(t, next)
    PROVE  /\ call' \in [Threads -> Busy \cup {Idle}]
           /\ call'[t] \in Busy /\ call'[t].at = next
           /\ call'[t].does = call[t].does
           /\ \A u \in Threads \ {t} : call'[u] = call[u]
<1>1. call[t] \in Busy
  BY BusyThread
<1>2. [call[t] EXCEPT !.at = next] \in Busy
  BY <1>1 DEF Busy
<1>3. call' = [call EXCEPT ![t] = [call[t] EXCEPT !.at = next]]
  BY <1>1 DEF Go, Types
<1>4. call'[t] = [call[t] EXCEPT !.at = next]
  BY <1>3 DEF Types
<1> QED
  BY <1>1, <1>2, <1>3, <1>4 DEF Types, Busy

\* A thread returns, and the others stay where they are.
LEMMA Returns ==
    ASSUME SingletonsAssumption, Types, NEW t \in Threads,
           call' = [call EXCEPT ![t] = Idle]
    PROVE  /\ call' \in [Threads -> Busy \cup {Idle}]
           /\ call'[t] = Idle
           /\ \A u \in Threads \ {t} : call'[u] = call[u]
BY DEF Types

\* Where the threads are matters only by those that make and those that work.
LEMMA Elsewhere ==
    ASSUME IInv, NEW t \in Threads,
           \A u \in Threads \ {t} : call'[u] = call[u],
           call'[t] = Idle \/ (call'[t] # Idle /\ call'[t].at = "once"),
           UNCHANGED init_flag_, UNCHANGED instance_
    PROVE  OneMaker' /\ OfTheClass'
<1>1. \A u \in Threads, p \in {"make", "call"} :
         At(u, p)' => u # t /\ At(u, p) /\ Class(u)' = Class(u) /\ call'[u] = call[u]
  BY DEF At, Class
<1>2. OneMaker'
  BY <1>1 DEF IInv, OneMaker
<1>3. OfTheClass'
  BY <1>1 DEF IInv, OfTheClass
<1> QED
  BY <1>2, <1>3

\* A use begins.
LEMMA UseCorrect ==
    ASSUME SingletonsAssumption, IInv, NEW t \in Threads, NEW what \in Calls,
           Use(t, what)
    PROVE  IInv'
<1> DEFINE new == [at |-> "once", does |-> what, this |-> Null]
<1>1. new \in Busy
  BY DEF Busy
<1>2. call' \in [Threads -> Busy \cup {Idle}]
  BY <1>1 DEF Use, IInv, Types
<1>3. call'[t] # Idle /\ call'[t].at = "once"
  BY <1>1, BusyIsNotIdle DEF Use, IInv, Types
<1>4. \A u \in Threads \ {t} : call'[u] = call[u]
  BY DEF Use, IInv, Types
<1>5. UNCHANGED <<init_flag_, instance_, count, histograms_, counted, records>>
  BY DEF Use, objects, history
<1>6. OneMaker' /\ OfTheClass'
  BY <1>3, <1>4, <1>5, Elsewhere
<1>7. Types' /\ OneObject'
  BY <1>2, <1>5 DEF IInv, Types, OneObject
<1> QED
  BY <1>5, <1>6, <1>7 DEF IInv, AllCounted, AllRecorded

\* One thread comes to make the object of its class, which there is not yet.
LEMMA OnceCorrect ==
    ASSUME SingletonsAssumption, IInv, NEW t \in Threads, Once(t)
    PROVE  IInv'
<1> DEFINE c == Class(t)
<1>1. c \in Classes /\ init_flag_[c] = "fresh"
  BY BusyThread DEF Once, IInv
<1>2. /\ call' \in [Threads -> Busy \cup {Idle}]
      /\ call'[t] \in Busy /\ call'[t].at = "make"
      /\ call'[t].does = call[t].does
      /\ \A u \in Threads \ {t} : call'[u] = call[u]
  BY GoesOn DEF Once, IInv
<1>3. /\ UNCHANGED <<instance_, count, histograms_, counted, records>>
      /\ init_flag_' = [init_flag_ EXCEPT ![c] = "running"]
  BY DEF Once, objects, history
<1>4. Types'
  BY <1>2, <1>3 DEF IInv, Types
<1>5. init_flag_'[c] = "running" /\ \A d \in Classes \ {c} : init_flag_'[d] = init_flag_[d]
  BY <1>1, <1>3 DEF IInv, Types
<1>6. Class(t)' = c /\ \A u \in Threads \ {t} : Class(u)' = Class(u)
  BY <1>2 DEF Class
<1>7. \A u \in Threads \ {t} : \A p : At(u, p)' <=> At(u, p)
  BY <1>2 DEF At
<1>8. \A u \in Threads \ {t} : At(u, "make") => Class(u) # c /\ Class(u) \in Classes
  BY <1>1, BusyThread DEF IInv, OneMaker
<1>9. OneMaker'
  <2> SUFFICES ASSUME NEW u \in Threads, At(u, "make")'
               PROVE  /\ init_flag_'[Class(u)'] = "running"
                      /\ \A w \in Threads : At(w, "make")' /\ Class(w)' = Class(u)' => w = u
    BY DEF OneMaker
  <2> HIDE DEF c
  <2>1. CASE u = t
    BY <2>1, <1>5, <1>6, <1>7, <1>8
  <2>2. CASE u # t
    BY <2>2, <1>5, <1>6, <1>7, <1>8 DEF IInv, OneMaker
  <2> QED
    BY <2>1, <2>2
<1>10. OfTheClass'
  <2> SUFFICES ASSUME NEW u \in Threads, At(u, "call")'
               PROVE  /\ instance_'[Class(u)'] # Null
                      /\ call'[u].this = instance_'[Class(u)']
    BY DEF OfTheClass
  <2>1. u # t
    BY <1>2 DEF At
  <2> QED
    BY <2>1, <1>2, <1>3, <1>6, <1>7 DEF IInv, OfTheClass
<1>11. OneObject'
  <2> HIDE DEF c
  <2> QED
    BY <1>1, <1>3, <1>5 DEF IInv, OneObject
<1> QED
  BY <1>3, <1>4, <1>9, <1>10, <1>11 DEF IInv, AllCounted, AllRecorded

\* The constructor throws, and the flag is as it was before.
LEMMA MakeThrowsCorrect ==
    ASSUME SingletonsAssumption, IInv, NEW t \in Threads, MakeThrows(t)
    PROVE  IInv'
<1> DEFINE c == Class(t)
<1>1. c \in Classes /\ init_flag_[c] = "running"
  BY BusyThread DEF MakeThrows, IInv, OneMaker
<1>2. /\ call' \in [Threads -> Busy \cup {Idle}] /\ call'[t] = Idle
      /\ \A u \in Threads \ {t} : call'[u] = call[u]
  BY Returns DEF MakeThrows, IInv
<1>3. /\ UNCHANGED <<instance_, count, histograms_, counted, records>>
      /\ init_flag_' = [init_flag_ EXCEPT ![c] = "fresh"]
  BY DEF MakeThrows, objects, history
<1>4. Types'
  BY <1>2, <1>3 DEF IInv, Types
<1>5. init_flag_'[c] = "fresh" /\ \A d \in Classes \ {c} : init_flag_'[d] = init_flag_[d]
  BY <1>1, <1>3 DEF IInv, Types
<1>6. \A u \in Threads \ {t} :
         /\ Class(u)' = Class(u)
         /\ \A p : At(u, p)' <=> At(u, p)
  BY <1>2 DEF Class, At
<1>7. \A p : ~ At(t, p)'
  BY <1>2 DEF At
<1>8. \A u \in Threads \ {t} : At(u, "make") => Class(u) # c /\ Class(u) \in Classes
  BY BusyThread DEF IInv, OneMaker, MakeThrows
<1>9. OneMaker'
  <2> SUFFICES ASSUME NEW u \in Threads, At(u, "make")'
               PROVE  /\ init_flag_'[Class(u)'] = "running"
                      /\ \A w \in Threads : At(w, "make")' /\ Class(w)' = Class(u)' => w = u
    BY DEF OneMaker
  <2> HIDE DEF c
  <2> QED
    BY <1>5, <1>6, <1>7, <1>8 DEF IInv, OneMaker
<1>10. OfTheClass'
  BY <1>2, <1>3, <1>6, <1>7 DEF IInv, OfTheClass
<1>11. OneObject'
  <2> HIDE DEF c
  <2> QED
    BY <1>1, <1>3, <1>5 DEF IInv, OneObject
<1> QED
  BY <1>3, <1>4, <1>9, <1>10, <1>11 DEF IInv, AllCounted, AllRecorded

\* No wraps leave 0.
LEMMA WrappedZero ==
    ASSUME SingletonsAssumption
    PROVE  Wrapped(0) = 0
<1>1. \A d \in Nat \ {0} : 0 % d = 0
  OBVIOUS
<1> QED
  BY <1>1 DEF SingletonsAssumption, Wrapped

\* The object is made at an address of its own, and the flag is done.
LEMMA MakeCorrect ==
    ASSUME SingletonsAssumption, IInv, NEW t \in Threads, NEW o \in Objects,
           Make(t, o)
    PROVE  IInv'
<1> DEFINE c == Class(t)
<1>1. c \in Classes /\ init_flag_[c] = "running" /\ instance_[c] = Null
  BY BusyThread DEF Make, IInv, OneMaker, OneObject
<1>2. /\ call' \in [Threads -> Busy \cup {Idle}]
      /\ call'[t] \in Busy /\ call'[t].at = "once"
      /\ call'[t].does = call[t].does
      /\ \A u \in Threads \ {t} : call'[u] = call[u]
  BY GoesOn DEF Make, IInv
<1>3. /\ UNCHANGED <<counted, records>>
      /\ init_flag_' = [init_flag_ EXCEPT ![c] = "done"]
      /\ instance_' = [instance_ EXCEPT ![c] = o]
      /\ o \notin DOMAIN count
  BY DEF Make, history
<1>4. /\ DOMAIN count' = DOMAIN count \cup {o} /\ count'[o] = 0
      /\ \A p \in DOMAIN count : count'[p] = count[p]
      /\ count' = [p \in DOMAIN count' |-> count'[p]]
  BY <1>3 DEF Make
<1>5. /\ histograms_'[o] = <<>>
      /\ \A p \in DOMAIN count : histograms_'[p] = histograms_[p]
      /\ histograms_' = [p \in DOMAIN count' |-> histograms_'[p]]
  BY <1>3, <1>4 DEF Make
<1>6. /\ init_flag_'[c] = "done" /\ instance_'[c] = o /\ o # Null
      /\ \A d \in Classes \ {c} : /\ init_flag_'[d] = init_flag_[d]
                                  /\ instance_'[d] = instance_[d]
  BY <1>1, <1>3 DEF IInv, Types, SingletonsAssumption
<1>7. Types'
  <2>1. /\ init_flag_' \in [Classes -> {"fresh", "running", "done"}]
        /\ instance_' \in [Classes -> Objects \cup {Null}]
    BY <1>1, <1>3 DEF IInv, Types
  <2> QED
    BY <1>2, <1>3, <1>4, <1>5, <2>1 DEF IInv, Types
<1>8. \A u \in Threads \ {t} :
         /\ Class(u)' = Class(u)
         /\ \A p : At(u, p)' <=> At(u, p)
  BY <1>2 DEF Class, At
<1>9. ~ At(t, "make")' /\ ~ At(t, "call")'
  BY <1>2 DEF At
<1>10. \A u \in Threads \ {t} :
         /\ At(u, "make") => Class(u) # c /\ Class(u) \in Classes
         /\ At(u, "call") => Class(u) # c /\ Class(u) \in Classes
  BY <1>1, BusyThread DEF IInv, OneMaker, OfTheClass, Make
<1> HIDE DEF c
<1>11. OneMaker'
  <2> SUFFICES ASSUME NEW u \in Threads, At(u, "make")'
               PROVE  /\ init_flag_'[Class(u)'] = "running"
                      /\ \A w \in Threads : At(w, "make")' /\ Class(w)' = Class(u)' => w = u
    BY DEF OneMaker
  <2> QED
    BY <1>6, <1>8, <1>9, <1>10 DEF IInv, OneMaker
<1>12. OfTheClass'
  BY <1>2, <1>6, <1>8, <1>9, <1>10 DEF IInv, OfTheClass
<1>13. OneObject'
  BY <1>1, <1>3, <1>4, <1>6 DEF IInv, OneObject
<1>14. AllCounted'
  <2> SUFFICES ASSUME NEW d \in Classes
               PROVE  IF instance_'[d] = Null THEN counted'[d] = 0
                      ELSE count'[instance_'[d]] = Wrapped(counted'[d])
    BY DEF AllCounted, Wrapped
  <2>1. CASE d = c
    <3>1. counted'[d] = 0
      BY <1>1, <1>3, <2>1 DEF IInv, AllCounted
    <3> QED
      BY <1>4, <1>6, <2>1, <3>1, WrappedZero
  <2>2. CASE d # c
    BY <1>3, <1>4, <1>6, <2>2 DEF IInv, AllCounted, OneObject
  <2> QED
    BY <2>1, <2>2
<1>15. AllRecorded'
  <2>1. "Statistics" \in Classes
    BY DEF Classes
  <2>2. CASE c = "Statistics"
    <3>1. instance_'["Statistics"] = o /\ histograms_'[o] = <<>>
      BY <1>5, <1>6, <2>2
    <3>2. \A name \in Names : records'[name] = <<>>
      BY <1>1, <1>3, <2>2 DEF IInv, AllRecorded
    <3>3. DOMAIN histograms_'[o] = {}
      BY <3>1
    <3> QED
      BY <1>6, <3>1, <3>2, <3>3 DEF AllRecorded
  <2>3. CASE c # "Statistics"
    <3>1. instance_'["Statistics"] = instance_["Statistics"]
      BY <1>6, <2>1, <2>3
    <3>2. instance_["Statistics"] # Null =>
            histograms_'[instance_["Statistics"]] = histograms_[instance_["Statistics"]]
      BY <1>5, <2>1 DEF IInv, OneObject
    <3> QED
      BY <1>3, <3>1, <3>2 DEF IInv, AllRecorded
  <2> QED
    BY <2>2, <2>3
<1> QED
  BY <1>7, <1>11, <1>12, <1>13, <1>14, <1>15 DEF IInv

\* A thread gets the pointer once the object is there.
LEMMA GetInstanceCorrect ==
    ASSUME SingletonsAssumption, IInv, NEW t \in Threads, GetInstance(t)
    PROVE  IInv'
<1> DEFINE c == Class(t)
           new == [call[t] EXCEPT !.at = "call", !.this = instance_[c]]
<1>1. /\ c \in Classes /\ init_flag_[c] = "done" /\ call[t] \in Busy
      /\ instance_[c] # Null /\ instance_[c] \in Objects \cup {Null}
  BY BusyThread DEF GetInstance, IInv, OneObject, Types
<1>2. new \in Busy /\ new.at = "call" /\ new.this = instance_[c] /\ new.does = call[t].does
  BY <1>1 DEF Busy
<1>3. call' = [call EXCEPT ![t] = new]
  BY <1>1 DEF GetInstance, IInv, Types
<1>4. /\ call' \in [Threads -> Busy \cup {Idle}] /\ call'[t] = new
      /\ \A u \in Threads \ {t} : call'[u] = call[u]
  BY <1>2, <1>3 DEF IInv, Types
<1>5. UNCHANGED <<init_flag_, instance_, count, histograms_, counted, records>>
  BY DEF GetInstance, objects, history
<1>6. \A u \in Threads \ {t} :
         /\ Class(u)' = Class(u)
         /\ \A p : At(u, p)' <=> At(u, p)
  BY <1>4 DEF Class, At
<1>7. Class(t)' = c /\ ~ At(t, "make")'
  BY <1>2, <1>4 DEF Class, At
<1> HIDE DEF c, new
<1>8. OneMaker'
  BY <1>5, <1>6, <1>7 DEF IInv, OneMaker
<1>9. OfTheClass'
  BY <1>1, <1>2, <1>4, <1>5, <1>6, <1>7 DEF IInv, OfTheClass
<1>10. Types' /\ OneObject'
  BY <1>4, <1>5 DEF IInv, Types, OneObject
<1> QED
  BY <1>5, <1>8, <1>9, <1>10 DEF IInv, AllCounted, AllRecorded

\* A method works on the object of its class, and its thread returns.
LEMMA MethodOfTheClass ==
    ASSUME SingletonsAssumption, IInv, NEW t \in Threads, NEW macros,
           Method(t, macros)
    PROVE  /\ call[t].does \in Calls /\ call[t].does.macro \in macros
           /\ Class(t) \in Classes /\ instance_[Class(t)] # Null
           /\ call[t].this = instance_[Class(t)]
           /\ call[t].this \in DOMAIN count
           /\ \A d \in Classes \ {Class(t)} : instance_[d] # call[t].this
           /\ call' \in [Threads -> Busy \cup {Idle}]
           /\ OneMaker' /\ OfTheClass'
           /\ UNCHANGED <<init_flag_, instance_>>
<1>1. /\ call[t] \in Busy /\ Class(t) \in Classes
      /\ instance_[Class(t)] # Null /\ call[t].this = instance_[Class(t)]
  BY BusyThread DEF Method, IInv, OfTheClass
<1>2. /\ call' \in [Threads -> Busy \cup {Idle}]
      /\ call'[t] = Idle
      /\ \A u \in Threads \ {t} : call'[u] = call[u]
  BY Returns DEF Method, IInv
<1>3. OneMaker' /\ OfTheClass'
  BY <1>2, Elsewhere DEF Method
<1> QED
  BY <1>1, <1>2, <1>3 DEF Method, Busy, IInv, OneObject

\* A counter counts, and wraps.
LEMMA CountCorrect ==
    ASSUME SingletonsAssumption, IInv, NEW t \in Threads, Count(t)
    PROVE  IInv'
<1>a. Method(t, Counting)
  BY DEF Count
<1>b. /\ call[t].does \in Calls /\ call[t].does.macro \in Counting
      /\ Class(t) \in Classes
  BY <1>a, MethodOfTheClass
<1>c. Counts(call[t].does.macro) \in Int
  BY <1>b, CallsAre
<1>1. PICK c \in Classes, o \in Objects, n \in Int :
        /\ c = Class(t) /\ o = call[t].this /\ n = Counts(call[t].does.macro)
        /\ o = instance_[c] /\ o # Null /\ o \in DOMAIN count
        /\ \A d \in Classes \ {c} : instance_[d] # o
  BY <1>a, <1>b, <1>c, MethodOfTheClass, SingletonsAssumption
     DEF SingletonsAssumption, IInv, Types
<1>2. /\ call' \in [Threads -> Busy \cup {Idle}] /\ OneMaker' /\ OfTheClass'
      /\ UNCHANGED <<init_flag_, instance_, histograms_, records>>
      /\ count' = [count EXCEPT ![o] = Wrapped(@ + n)]
      /\ counted' = [counted EXCEPT ![c] = @ + n]
  BY <1>1, MethodOfTheClass DEF Count
<1>3. /\ DOMAIN count' = DOMAIN count
      /\ count'[o] = Wrapped(count[o] + n)
      /\ \A p \in DOMAIN count : p # o => count'[p] = count[p]
      /\ count' = [p \in DOMAIN count' |-> count'[p]]
  BY <1>1, <1>2
<1>4. /\ counted' \in [Classes -> Int] /\ counted'[c] = counted[c] + n
      /\ \A d \in Classes \ {c} : counted'[d] = counted[d]
  BY <1>1, <1>2 DEF IInv, Types
<1>5. Types' /\ OneObject'
  BY <1>2, <1>3, <1>4 DEF IInv, Types, OneObject
<1>6. AllCounted'
  <2> SUFFICES ASSUME NEW d \in Classes
               PROVE  IF instance_'[d] = Null THEN counted'[d] = 0
                      ELSE count'[instance_'[d]] = Wrapped(counted'[d])
    BY DEF AllCounted, Wrapped
  <2>1. CASE d = c
    <3>1. count[o] = Wrapped(counted[c])
      BY <1>1 DEF IInv, AllCounted
    <3>2. PICK k \in Int, w \in Nat \ {0} : k = counted[c] /\ w = 2 ^ CounterBits
      BY DEF IInv, Types, SingletonsAssumption
    <3>3. ((k % w) + n) % w = (k + n) % w
      BY WrapsOnce
    <3> QED
      BY <1>1, <1>2, <1>3, <1>4, <2>1, <3>1, <3>2, <3>3 DEF Wrapped
  <2>2. CASE d # c
    BY <1>1, <1>2, <1>3, <1>4, <2>2 DEF IInv, AllCounted, OneObject
  <2> QED
    BY <2>1, <2>2
<1> QED
  BY <1>2, <1>5, <1>6 DEF IInv, AllRecorded

\* A value is recorded, be it the first of its name or not.
LEMMA RecordValueCorrect ==
    ASSUME SingletonsAssumption, IInv, NEW t \in Threads, RecordValue(t)
    PROVE  IInv'
<1>a. Method(t, {"STATS_RECORD"})
  BY DEF RecordValue
<1>b. call[t].does \in Calls /\ call[t].does.macro = "STATS_RECORD"
  BY <1>a, MethodOfTheClass
<1>c. /\ call[t].does.name \in Names /\ call[t].does.value \in Values
      /\ Class(t) = "Statistics"
  BY <1>b, CallsAre DEF Class
<1>1. PICK o \in Objects, name \in Names, v \in Values :
        /\ o = call[t].this /\ name = call[t].does.name /\ v = call[t].does.value
        /\ o = instance_["Statistics"] /\ o # Null /\ o \in DOMAIN count
  BY <1>a, <1>c, MethodOfTheClass, SingletonsAssumption
     DEF SingletonsAssumption, IInv, Types
<1> DEFINE map == histograms_[o]
<1>d. PICK data \in Recorded(Histogram(map, name), v) :
        histograms_' = [histograms_ EXCEPT ![o] = With(@, name, data)]
  <2>1. \E data \in Recorded(Histogram(histograms_[call[t].this], call[t].does.name),
                           call[t].does.value) :
          histograms_' = [histograms_ EXCEPT
                            ![call[t].this] = With(@, call[t].does.name, data)]
    BY DEF RecordValue
  <2> QED
    BY <1>1, <2>1
<1> DEFINE new == With(map, name, data)
<1>2. /\ call' \in [Threads -> Busy \cup {Idle}] /\ OneMaker' /\ OfTheClass'
      /\ UNCHANGED <<init_flag_, instance_, count, counted>>
      /\ histograms_' = [histograms_ EXCEPT ![o] = new]
      /\ records' = [records EXCEPT ![name] = Append(@, v)]
  BY <1>1, <1>d, MethodOfTheClass DEF RecordValue, IInv, Types
<1>3. /\ histograms_'[o] = new
      /\ histograms_' = [p \in DOMAIN count' |-> histograms_'[p]]
  BY <1>1, <1>2 DEF IInv, Types
<1>4. /\ records[name] \in Seq(Values)
      /\ Append(records[name], v) \in Seq(Values) /\ Append(records[name], v) # <<>>
  BY OneMore DEF IInv, Types
<1>5. /\ records' \in [Names -> Seq(Values)]
      /\ records'[name] = Append(records[name], v)
      /\ \A n \in Names \ {name} : records'[n] = records[n]
  BY <1>2, <1>4 DEF IInv, Types
<1>6. Types' /\ OneObject'
  BY <1>2, <1>3, <1>5 DEF IInv, Types, OneObject
<1>e. /\ DOMAIN new = DOMAIN map \cup {name} /\ new[name] = data
      /\ \A n \in DOMAIN map : n # name => new[n] = map[n]
  BY DEF With
<1>7. DOMAIN map = {n \in Names : records[n] # <<>>}
  BY <1>1 DEF IInv, AllRecorded
<1>8. \A n \in DOMAIN map : Tells(map[n], records[n])
  BY <1>1 DEF IInv, AllRecorded
<1>9. DOMAIN new = {n \in Names : records'[n] # <<>>}
  BY <1>4, <1>5, <1>7, <1>e
<1>10. Tells(new[name], records'[name])
  <2>1. Tells(Histogram(map, name), records[name])
    <3>1. CASE name \in DOMAIN map
      BY <1>8, <3>1 DEF Histogram
    <3>2. CASE name \notin DOMAIN map
      BY <1>7, <3>2, NoneRecorded DEF Histogram
    <3> QED
      BY <3>1, <3>2
  <2>2. Tells(data, Append(records[name], v))
    BY <1>4, <1>d, <2>1, MoreRecorded
  <2> QED
    BY <1>5, <1>e, <2>2
<1>11. ASSUME NEW n \in DOMAIN new
       PROVE  Tells(new[n], records'[n])
  <2>1. CASE n = name
    BY <1>10, <2>1
  <2>2. CASE n # name
    <3>1. n \in DOMAIN map /\ n \in Names \ {name} /\ new[n] = map[n]
      BY <1>7, <1>e, <1>11, <2>2
    <3>2. records'[n] = records[n]
      BY <1>5, <3>1
    <3> HIDE DEF map, new
    <3>3. Tells(map[n], records[n])
      BY <1>8, <3>1
    <3> QED
      BY <3>1, <3>2, <3>3
  <2> QED
    BY <2>1, <2>2
<1> HIDE DEF map, new
<1>12. AllRecorded'
  BY <1>1, <1>2, <1>3, <1>9, <1>11 DEF AllRecorded
<1> QED
  BY <1>2, <1>6, <1>12 DEF IInv, AllCounted

\* A reset clears the counters, the histograms and what was due.
LEMMA ResetCorrect ==
    ASSUME SingletonsAssumption, IInv, NEW t \in Threads, ResetAllStats(t)
    PROVE  IInv'
<1>1. PICK o :
        /\ o = call[t].this
        /\ o = instance_["Statistics"] /\ o # Null /\ o \in DOMAIN count
        /\ \A d \in Classes \ {"Statistics"} : instance_[d] # o
  BY MethodOfTheClass, CallsAre DEF ResetAllStats, Class
<1>2. /\ call' \in [Threads -> Busy \cup {Idle}] /\ OneMaker' /\ OfTheClass'
      /\ UNCHANGED <<init_flag_, instance_>>
      /\ count' = [count EXCEPT ![o] = 0]
      /\ histograms_' = [histograms_ EXCEPT ![o] = <<>>]
      /\ counted' = [counted EXCEPT !["Statistics"] = 0]
      /\ records' = [name \in Names |-> <<>>]
  BY <1>1, MethodOfTheClass DEF ResetAllStats
<1>3. /\ DOMAIN count' = DOMAIN count /\ count'[o] = 0
      /\ \A p \in DOMAIN count : p # o => count'[p] = count[p]
      /\ count' = [p \in DOMAIN count' |-> count'[p]]
      /\ histograms_'[o] = <<>>
      /\ histograms_' = [p \in DOMAIN count' |-> histograms_'[p]]
  BY <1>1, <1>2 DEF IInv, Types
<1>4. /\ "Statistics" \in Classes /\ counted' \in [Classes -> Int]
      /\ counted'["Statistics"] = 0
      /\ \A d \in Classes \ {"Statistics"} : counted'[d] = counted[d]
  BY <1>2 DEF IInv, Types, Classes
<1>5. records' \in [Names -> Seq(Values)] /\ \A name \in Names : records'[name] = <<>>
  BY <1>2
<1>6. Types' /\ OneObject'
  BY <1>2, <1>3, <1>4, <1>5 DEF IInv, Types, OneObject
<1>7. AllCounted'
  <2> SUFFICES ASSUME NEW d \in Classes
               PROVE  IF instance_'[d] = Null THEN counted'[d] = 0
                      ELSE count'[instance_'[d]] = Wrapped(counted'[d])
    BY DEF AllCounted, Wrapped
  <2>1. CASE d = "Statistics"
    BY <1>1, <1>2, <1>3, <1>4, <2>1, WrappedZero
  <2>2. CASE d # "Statistics"
    BY <1>1, <1>2, <1>3, <1>4, <2>2 DEF IInv, AllCounted, OneObject
  <2> QED
    BY <2>1, <2>2
<1>8. AllRecorded'
  <2>1. DOMAIN histograms_'[o] = {}
    BY <1>3
  <2> QED
    BY <1>1, <1>2, <1>5, <2>1 DEF AllRecorded
<1> QED
  BY <1>2, <1>6, <1>7, <1>8 DEF IInv

\* Every step of any thread, and none, keeps the invariant.
LEMMA StepCorrect ==
    ASSUME SingletonsAssumption, IInv, [Next]_vars
    PROVE  IInv'
<1>1. CASE UNCHANGED vars
  <2>1. /\ UNCHANGED <<init_flag_, instance_, count, histograms_>>
        /\ UNCHANGED <<call, counted, records>>
    BY <1>1 DEF vars, objects, history
  <2>2. Types' /\ OneObject'
    BY <2>1 DEF IInv, Types, OneObject
  <2>3. OneMaker' /\ OfTheClass'
    BY <2>1 DEF IInv, OneMaker, OfTheClass, At, Class
  <2> QED
    BY <2>1, <2>2, <2>3 DEF IInv, AllCounted, AllRecorded
<1> QED
  BY <1>1, UseCorrect, OnceCorrect, MakeThrowsCorrect, MakeCorrect,
     GetInstanceCorrect, CountCorrect, RecordValueCorrect, ResetCorrect
  DEF Next, Work

\* At first no class has an object, and nothing was counted or recorded.
LEMMA InitCorrect ==
    ASSUME SingletonsAssumption, Init
    PROVE  IInv
<1>1. DOMAIN count = {} /\ DOMAIN histograms_ = {}
  BY DEF Init
<1>2. \A t \in Threads : \A place : ~ At(t, place)
  BY DEF Init, At
<1>3. Types
  <2>1. count = [o \in DOMAIN count |-> count[o]]
    BY DEF Init
  <2>2. histograms_ = [o \in DOMAIN count |-> histograms_[o]]
    BY <1>1 DEF Init
  <2> QED
    BY <2>1, <2>2 DEF Init, Types
<1>4. OneMaker /\ OfTheClass
  BY <1>2 DEF OneMaker, OfTheClass
<1>5. OneObject
  BY DEF Init, OneObject
<1>6. AllCounted /\ AllRecorded
  BY DEF Init, AllCounted, AllRecorded, Classes
<1> QED
  BY <1>3, <1>4, <1>5, <1>6 DEF IInv

\* So it holds always.
LEMMA Invariance == Spec => []IInv
BY InitCorrect, StepCorrect, SingletonsAssumption, PTL DEF Spec

-----------------------------------------------------------------------------

\* However the first uses of a class race, and whichever of its constructors
\* throw, it has one object, and that has every count since the last reset.
THEOREM NoneMiscounted == Spec => []NothingMiscounted
<1>1. ASSUME IInv, NEW t \in Threads, At(t, "call")
      PROVE  call[t].this = instance_[Class(t)] /\ call[t].this \in DOMAIN count
  <2>1. Class(t) \in Classes
    BY <1>1, BusyThread, SingletonsAssumption DEF IInv
  <2> QED
    BY <1>1, <2>1 DEF IInv, OneObject, OfTheClass
<1>2. IInv => NothingMiscounted
  BY <1>1 DEF IInv, AllCounted, NothingMiscounted
<1> QED
  BY <1>2, Invariance, PTL

\* A histogram counts the values recorded since the last reset, and as long as
\* there is a finite one among them and no NaN, its extremes are of them and
\* bound them, whatever their signs.
THEOREM ExtremesAreReal == Spec => []ExtremesWereRecorded
<1>1. ASSUME IInv, instance_["Statistics"] # Null,
             NEW name \in DOMAIN histograms_[instance_["Statistics"]]
      PROVE  LET data == histograms_[instance_["Statistics"]][name]
                 seen == ToSet(records[name])
             IN  /\ data.count = Len(records[name])
                 /\ NaN \notin seen /\ seen \cap (-Greatest .. Greatest) # {} =>
                      /\ data.min_value \in seen /\ data.max_value \in seen
                      /\ \A v \in seen :
                           data.min_value <= v /\ v <= data.max_value
  <2> DEFINE data == histograms_[instance_["Statistics"]][name]
             seen == ToSet(records[name])
  <2>1. Tells(data, records[name])
    BY <1>1 DEF IInv, AllRecorded
  <2> HIDE DEF data
  <2>2. ASSUME NaN \notin seen, NEW f \in seen \cap (-Greatest .. Greatest)
        PROVE  data.min_value \in seen /\ data.max_value \in seen
    <3>1. /\ data.min_value \in seen \cup {Greatest}
          /\ data.max_value \in seen \cup {-Greatest}
          /\ data.min_value <= f /\ f <= data.max_value
      BY <2>1, <2>2 DEF Tells
    <3> HIDE DEF seen
    <3>2. data.min_value = Greatest => f = Greatest
      BY <2>2, <3>1, SingletonsAssumption DEF SingletonsAssumption
    <3>3. data.max_value = -Greatest => f = -Greatest
      BY <2>2, <3>1, SingletonsAssumption DEF SingletonsAssumption
    <3> QED
      BY <2>2, <3>1, <3>2, <3>3
  <2>3. /\ data.count = Len(records[name])
        /\ NaN \notin seen => \A v \in seen :
             data.min_value <= v /\ v <= data.max_value
    BY <2>1 DEF Tells
  <2> QED
    BY <2>2, <2>3 DEF data
<1>2. IInv => ExtremesWereRecorded
  BY <1>1 DEF IInv, AllRecorded, ExtremesWereRecorded
<1> QED
  BY <1>2, Invariance, PTL

=============================================================================
