----------------------------- MODULE Singletons -----------------------------
(***************************************************************************)
(* The macros of Core/Statistics.h and Common/Logger.h, which any thread   *)
(* may use at any time: each gets the one object of its class, made by the *)
(* first call, and calls a method of it.                                   *)
(*                                                                         *)
(* GetInstance has no body in the repository; init_flag_, a once_flag,     *)
(* fixes how instance_ is set: by std::call_once.  The methods have none   *)
(* either.  Under their mutex they do what their names and the fields say: *)
(* a counter goes up or down, a histogram keeps the extremes and the count *)
(* of its values, the log gets a line, and a reset clears all.             *)
(*                                                                         *)
(* A value is a double, of which only the order is told here: integers as  *)
(* far as Greatest, an infinity beyond them at either end, and NaN, which  *)
(* is neither less nor greater than anything.  The sum, which rounds, is   *)
(* left out, and the average with it.                                      *)
(***************************************************************************)
EXTENDS Integers, SequencesExt

CONSTANTS
    Threads,
    Objects,        \* the addresses an object can have
    Null,
    CounterBits,    \* bits of a counter: 64 in the source
    Names,          \* names of histograms
    Values,         \* the values recorded
    NaN,
    Greatest,       \* std::numeric_limits<double>::max()
    Tiniest,        \* std::numeric_limits<double>::min(), the least above zero
    MaxCalls        \* bound: uses of the singletons in a behaviour

ASSUME SingletonsAssumption ==
    /\ Null \notin Objects
    /\ CounterBits \in Nat /\ MaxCalls \in Nat
    \* Of 2 ^ CounterBits, a prover does not know it of itself.
    /\ 2 ^ CounterBits \in Nat \ {0}
    /\ Greatest \in Nat /\ Tiniest \in Nat \ {0}
    /\ NaN \notin Int
    /\ Values \subseteq (-(Greatest + 1) .. Greatest + 1) \cup {NaN}

\* What a macro of Statistics.h adds to a counter: value is 1 if not given.
STATS == [STATS_INCREMENT |-> 1, STATS_DECREMENT |-> -1,
          STATS_SET_GAUGE |-> 0, STATS_RECORD |-> 0]

\* The macros of Logger.h, one for each level.
LOG == {"LOG_DEBUG", "LOG_INFO", "LOG_WARNING", "LOG_ERROR", "LOG_CRITICAL"}

\* The macros that count, or may: all but the one that records a value.
Counting == LOG \cup (DOMAIN STATS \ {"STATS_RECORD"})

\* A use of a macro, with the name and the value to record, or a reset.
Calls ==
    [macro : Counting]
    \cup [macro : {"STATS_RECORD"}, name : Names, value : Values]
    \cup {[macro |-> "ResetAllStats"]}

ClassOf(macro) == IF macro \in LOG THEN "Logger" ELSE "Statistics"

\* What a use of the macro adds to the count of its object.
Counts(macro) == IF macro \in LOG THEN 1 ELSE STATS[macro]

Classes == {"Logger", "Statistics"}

\* MUTANT: min() taken for the lowest double.
HistogramData_Min ==
    [min_value |-> Greatest, max_value |-> Tiniest, count |-> 0]

HistogramData ==
    [min_value |-> Greatest, max_value |-> -Greatest, count |-> 0]

VARIABLES
    init_flag_,  \* of each class: whether call_once has done its work
    instance_,   \* of each class
    count,       \* the count of each object that was made
    histograms_, \* of each object: name -> its data, of the names in the map
    call,        \* where each thread is in a call
    uses,        \* calls so far
    counted,     \* what the calls of each class add up to since the last reset
    records      \* name -> the values recorded since the last reset

history == <<counted, records>>
objects == <<instance_, count, histograms_>>
vars == <<init_flag_, objects, call, uses, history>>

Idle == [at |-> "idle"]

Init ==
    /\ init_flag_ = [c \in Classes |-> "fresh"]
    /\ instance_ = [c \in Classes |-> Null]
    /\ count = <<>> /\ histograms_ = <<>>
    /\ call = [t \in Threads |-> Idle]
    /\ uses = 0
    /\ counted = [c \in Classes |-> 0]
    /\ records = [name \in Names |-> <<>>]

Wrapped(n) == n % 2 ^ CounterBits

-----------------------------------------------------------------------------

At(t, place) == call[t] # Idle /\ call[t].at = place

Go(t, place) == call' = [call EXCEPT ![t].at = place]

Class(t) == ClassOf(call[t].does.macro)

\* A macro is used, or the statistics are reset: GetInstance first.
Use(t, what) ==
    /\ call[t] = Idle /\ uses < MaxCalls
    /\ call' = [call EXCEPT ![t] = [at |-> "once", does |-> what, this |-> Null]]
    /\ uses' = uses + 1
    /\ UNCHANGED <<init_flag_, objects, history>>

\* MUTANT: a thread that comes while another makes the object makes one, too.
Once_TestsInstance(t) ==
    /\ At(t, "once") /\ instance_[Class(t)] = Null
    /\ init_flag_' = [init_flag_ EXCEPT ![Class(t)] = "running"]
    /\ Go(t, "make")
    /\ UNCHANGED <<objects, uses, history>>

\* call_once: one thread makes the object, and the others wait for it.
Once(t) ==
    /\ At(t, "once") /\ init_flag_[Class(t)] = "fresh"
    /\ init_flag_' = [init_flag_ EXCEPT ![Class(t)] = "running"]
    /\ Go(t, "make")
    /\ UNCHANGED <<objects, uses, history>>

\* MUTANT: the flag is left as it is.
MakeThrows_LeavesFlag(t) ==
    /\ At(t, "make")
    /\ call' = [call EXCEPT ![t] = Idle]
    /\ UNCHANGED <<init_flag_, objects, uses, history>>

\* The constructor throws: so does GetInstance, and another call may try.
MakeThrows(t) ==
    /\ At(t, "make")
    /\ init_flag_' = [init_flag_ EXCEPT ![Class(t)] = "fresh"]
    /\ call' = [call EXCEPT ![t] = Idle]
    /\ UNCHANGED <<objects, uses, history>>

Make(t, o) ==
    /\ At(t, "make") /\ o \notin DOMAIN count
    /\ count' = [p \in DOMAIN count \cup {o} |-> IF p = o THEN 0 ELSE count[p]]
    /\ histograms_' = [p \in DOMAIN count \cup {o} |->
                         IF p = o THEN <<>> ELSE histograms_[p]]
    /\ instance_' = [instance_ EXCEPT ![Class(t)] = o]
    /\ init_flag_' = [init_flag_ EXCEPT ![Class(t)] = "done"]
    /\ Go(t, "once")
    /\ UNCHANGED <<uses, history>>

GetInstance(t) ==
    /\ At(t, "once") /\ init_flag_[Class(t)] = "done"
    /\ call' = [call EXCEPT ![t].at = "call", ![t].this = instance_[Class(t)]]
    /\ UNCHANGED <<init_flag_, objects, uses, history>>

\* A method of the object runs and returns.
Method(t, macros) ==
    /\ At(t, "call") /\ call[t].does.macro \in macros
    /\ call' = [call EXCEPT ![t] = Idle]
    /\ UNCHANGED <<init_flag_, instance_, uses>>

\* The macros of Logger.h, the counters and the gauges.
Count(t) ==
    LET n == Counts(call[t].does.macro)
    IN  /\ Method(t, Counting)
        /\ count' = [count EXCEPT ![call[t].this] = Wrapped(@ + n)]
        /\ counted' = [counted EXCEPT ![Class(t)] = @ + n]
        /\ UNCHANGED <<histograms_, records>>

\* operator[] of the map makes the data of a name that it does not hold.
Histogram(map, name) ==
    IF name \in DOMAIN map THEN map[name] ELSE HistogramData

With(map, name, data) ==
    [n \in DOMAIN map \cup {name} |-> IF n = name THEN data ELSE map[n]]

\* v < w of doubles
Less(v, w) == v # NaN /\ w # NaN /\ v < w

\* The data with one more value.  An extreme may be compared with the value or
\* the value with it: which, tells only with NaN.
Recorded(data, v) ==
    [min_value : {IF Less(v, data.min_value) THEN v ELSE data.min_value,
                  IF Less(data.min_value, v) THEN data.min_value ELSE v},
     max_value : {IF Less(data.max_value, v) THEN v ELSE data.max_value,
                  IF Less(v, data.max_value) THEN data.max_value ELSE v},
     count : {data.count + 1}]

RecordValue(t) ==
    LET name == call[t].does.name
        v    == call[t].does.value
    IN  /\ Method(t, {"STATS_RECORD"})
        /\ \E data \in Recorded(Histogram(histograms_[call[t].this], name), v) :
             histograms_' = [histograms_ EXCEPT
                               ![call[t].this] = With(@, name, data)]
        /\ records' = [records EXCEPT ![name] = Append(@, v)]
        /\ UNCHANGED <<count, counted>>

ResetAllStats(t) ==
    /\ Method(t, {"ResetAllStats"})
    /\ count' = [count EXCEPT ![call[t].this] = 0]
    /\ histograms_' = [histograms_ EXCEPT ![call[t].this] = <<>>]
    /\ counted' = [counted EXCEPT !["Statistics"] = 0]
    /\ records' = [name \in Names |-> <<>>]

Work(t) ==
    \/ Once(t) \/ MakeThrows(t) \/ GetInstance(t)
    \/ Count(t) \/ RecordValue(t) \/ ResetAllStats(t)
    \/ \E o \in Objects : Make(t, o)

Next == \E t \in Threads : Work(t) \/ \E what \in Calls : Use(t, what)

Spec == Init /\ [][Next]_vars

\* Threads run on; nobody has to use a macro.
FairSpec == Spec /\ \A t \in Threads : WF_vars(Work(t))

-----------------------------------------------------------------------------
(* Correctness.                                                            *)

\* A class has one object, made before anybody has a pointer to it: however the
\* first uses race, no count is kept in an object that the next use misses.
NothingMiscounted ==
    /\ \A t \in Threads : At(t, "call") =>
         call[t].this = instance_[Class(t)] /\ call[t].this \in DOMAIN count
    /\ \A c \in Classes : instance_[c] # Null =>
         count[instance_[c]] = Wrapped(counted[c])

\* However often the statistics were reset, a histogram counts the values
\* recorded since, none of them in an object that the next use misses; and if
\* there is a finite one among them and no NaN, its extremes are recorded values
\* that bound all others, whatever their signs: what a histogram begins with
\* does not show.
ExtremesWereRecorded ==
    LET map  == histograms_[instance_["Statistics"]]
    IN  instance_["Statistics"] # Null =>
          /\ DOMAIN map = {name \in Names : records[name] # <<>>}
          /\ \A name \in DOMAIN map :
               LET data == map[name]
                   seen == ToSet(records[name])
               IN  /\ data.count = Len(records[name])
                   /\ NaN \notin seen /\ seen \cap (-Greatest .. Greatest) # {} =>
                        /\ data.min_value \in seen /\ data.max_value \in seen
                        /\ \A v \in seen :
                             data.min_value <= v /\ v <= data.max_value

\* Once threads begin no new use of a macro, every use comes to an end, though
\* constructors throw under those that wait for the object.  (While others keep
\* coming, call_once does not promise a thread its turn.)
UsesEnd ==
    <>[][\A t \in Threads, what \in Calls : ~ Use(t, what)]_vars
        => \A t \in Threads : <>[](call[t] = Idle)

=============================================================================
