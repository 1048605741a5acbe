------------------------------ MODULE RCString ------------------------------
(***************************************************************************)
(* ThreadSafeRCString (RCString/src/thread_safe_rc_string.cpp): strings    *)
(* that share their data until one of them is modified.  Strings are used  *)
(* by different threads, and a string is not modified while another thread *)
(* uses it: only the data are shared.  Each access to the reference count  *)
(* is a step.                                                              *)
(*                                                                         *)
(* A content is a bit that every modification changes; the buffer and its  *)
(* capacity are left out.                                                  *)
(***************************************************************************)
EXTENDS Naturals, FiniteSets

CONSTANTS
    Strings,
    Datas,      \* the StringData objects, at most one more than strings at once
    Wrap        \* the count is taken modulo Wrap, 2^32 in the code

kUnsharedRefMark == Wrap - 1

None == "none"

StringAssumption ==
    /\ IsFiniteSet(Strings) /\ None \notin Strings \cup Datas
    /\ Wrap \in Nat /\ Wrap > Cardinality(Strings) + 1

VARIABLES
    pc,           \* "none" for no string, "idle", or the next step of its call
    job,          \* "append", "index" or "destroy"
    other,        \* the string that one under construction copies
    data_,
    new_data,     \* the clone that PrepareToModify has made
    ref_count_,
    content,
    allocated,    \* the data that have been made and not deleted
    reference,    \* strings of which a reference to a character is in use
    value         \* history: the content a string has by its own calls

vars == <<pc, job, other, data_, new_data, ref_count_, content, allocated, reference, value>>

Init ==
    /\ pc = [s \in Strings |-> "none"]
    /\ job = [s \in Strings |-> None]
    /\ other = [s \in Strings |-> None]
    /\ data_ = [s \in Strings |-> None]
    /\ new_data = [s \in Strings |-> None]
    /\ ref_count_ = [d \in Datas |-> 0]
    /\ content = [d \in Datas |-> 0]
    /\ allocated = {}
    /\ reference = {}
    /\ value = [s \in Strings |-> 0]

-----------------------------------------------------------------------------

Unsharedable(d) == ref_count_[d] = kUnsharedRefMark
Unique(d) == ref_count_[d] = 1 \/ Unsharedable(d)

Copied(s) == \E t \in Strings : other[t] = s

\* A new StringData with a content.
New(d, c) ==
    /\ d \in Datas \ allocated
    /\ allocated' = allocated \cup {d}
    /\ ref_count_' = [ref_count_ EXCEPT ![d] = 1]
    /\ content' = [content EXCEPT ![d] = c]

Delete(d) ==
    /\ allocated' = allocated \ {d}
    /\ ref_count_' = [ref_count_ EXCEPT ![d] = 0]
    /\ content' = [content EXCEPT ![d] = 0]

Construct(s, d) ==
    /\ pc[s] = "none"
    /\ New(d, 0)
    /\ pc' = [pc EXCEPT ![s] = "idle"]
    /\ data_' = [data_ EXCEPT ![s] = d]
    /\ value' = [value EXCEPT ![s] = 0]
    /\ UNCHANGED <<job, other, new_data, reference>>

\* The copy constructor asks whether the data of o may be shared.
CopyFrom(s, o) ==
    /\ pc[s] = "none" /\ pc[o] = "idle"
    /\ other' = [other EXCEPT ![s] = o]
    /\ pc' = [pc EXCEPT ![s] = IF Unsharedable(data_[o]) THEN "copy" ELSE "addref"]
    /\ UNCHANGED <<job, data_, new_data, ref_count_, content, allocated, reference, value>>

Constructed(s, d) ==
    /\ pc' = [pc EXCEPT ![s] = "idle"]
    /\ data_' = [data_ EXCEPT ![s] = d]
    /\ value' = [value EXCEPT ![s] = value[other[s]]]
    /\ other' = [other EXCEPT ![s] = None]
    /\ UNCHANGED <<job, new_data, reference>>

AddRef(s) ==
    /\ pc[s] = "addref"
    /\ LET d == data_[other[s]] IN
       /\ ref_count_' = [ref_count_ EXCEPT ![d] = (@ + 1) % Wrap]
       /\ Constructed(s, d)
    /\ UNCHANGED <<content, allocated>>

Copy(s, d) ==
    /\ pc[s] = "copy"
    /\ New(d, content[data_[other[s]]])
    /\ Constructed(s, d)

-----------------------------------------------------------------------------

\* A call on s: Append and operator[] ask in PrepareToModify whether the data are
\* its own, the destructor goes on to Release.  Append and the end of the string
\* leave no reference to a character valid.
Call(s, j) ==
    /\ pc[s] = "idle" /\ ~ Copied(s)
    /\ job' = [job EXCEPT ![s] = j]
    /\ pc' = [pc EXCEPT ![s] = IF j = "destroy" THEN "release"
                               ELSE IF Unique(data_[s]) THEN "store" ELSE "clone"]
    /\ reference' = IF j = "index" THEN reference ELSE reference \ {s}
    /\ UNCHANGED <<other, data_, new_data, ref_count_, content, allocated, value>>

Clone(s, d) ==
    /\ pc[s] = "clone"
    /\ New(d, content[data_[s]])
    /\ new_data' = [new_data EXCEPT ![s] = d]
    /\ pc' = [pc EXCEPT ![s] = "release"]
    /\ UNCHANGED <<job, other, data_, reference, value>>

\* After Release the string is gone, or has the clone for its data.
Released(s) ==
    /\ pc' = [pc EXCEPT ![s] = IF job[s] = "destroy" THEN "none" ELSE "store"]
    /\ data_' = [data_ EXCEPT ![s] = new_data[s]]
    /\ new_data' = [new_data EXCEPT ![s] = None]
    /\ job' = [job EXCEPT ![s] = IF @ = "destroy" THEN None ELSE @]
    /\ value' = [value EXCEPT ![s] = IF job[s] = "destroy" THEN 0 ELSE @]
    /\ UNCHANGED <<other, reference>>

\* Mistake: marked data are counted like others.
ReleaseCounting(s) ==
    /\ pc[s] = "release"
    /\ pc' = [pc EXCEPT ![s] = "sub"]
    /\ UNCHANGED <<job, other, data_, new_data, ref_count_, content, allocated, reference, value>>

\* Release asks first whether the data are marked, ...
Release(s) ==
    /\ pc[s] = "release"
    /\ \/ Unsharedable(data_[s]) /\ Delete(data_[s]) /\ Released(s)
       \/ /\ ~ Unsharedable(data_[s])
          /\ pc' = [pc EXCEPT ![s] = "sub"]
          /\ UNCHANGED <<job, other, data_, new_data, ref_count_, content, allocated,
                         reference, value>>

\* ... and counts down.  Who counts to 0 deletes.
FetchSub(s) ==
    /\ pc[s] = "sub"
    /\ LET count == (ref_count_[data_[s]] + Wrap - 1) % Wrap IN
       IF count = 0 THEN Delete(data_[s])
       ELSE /\ ref_count_' = [ref_count_ EXCEPT ![data_[s]] = count]
            /\ UNCHANGED <<content, allocated>>
    /\ Released(s)

Toggled(s) ==
    /\ content' = [content EXCEPT ![data_[s]] = 1 - @]
    /\ value' = [value EXCEPT ![s] = 1 - @]

\* Mistake: operator[] leaves the data to be shared.
StoreSharedable(s) ==
    /\ pc[s] = "store"
    /\ pc' = [pc EXCEPT ![s] = "idle"]
    /\ job' = [job EXCEPT ![s] = None]
    /\ ref_count_' = [ref_count_ EXCEPT ![data_[s]] = 1]
    /\ IF job[s] = "append" THEN Toggled(s) /\ UNCHANGED reference
       ELSE reference' = reference \cup {s} /\ UNCHANGED <<content, value>>
    /\ UNCHANGED <<other, data_, new_data, allocated>>

\* MakeUnsharedable for operator[], which returns a reference, and ResetSharedable
\* for Append, which writes.
Store(s) ==
    /\ pc[s] = "store"
    /\ pc' = [pc EXCEPT ![s] = "idle"]
    /\ job' = [job EXCEPT ![s] = None]
    /\ ref_count_' = [ref_count_ EXCEPT ![data_[s]] =
                          IF job[s] = "index" THEN kUnsharedRefMark ELSE 1]
    /\ IF job[s] = "append" THEN Toggled(s) /\ UNCHANGED reference
       ELSE reference' = reference \cup {s} /\ UNCHANGED <<content, value>>
    /\ UNCHANGED <<other, data_, new_data, allocated>>

\* The client writes through a reference that operator[] returned.
WriteReference(s) ==
    /\ pc[s] = "idle" /\ s \in reference /\ ~ Copied(s)
    /\ Toggled(s)
    /\ UNCHANGED <<pc, job, other, data_, new_data, ref_count_, allocated, reference>>

Next ==
    \E s \in Strings :
        \/ \E d \in Datas : Construct(s, d) \/ Copy(s, d) \/ Clone(s, d)
        \/ \E o \in Strings : CopyFrom(s, o)
        \/ AddRef(s) \/ Release(s) \/ FetchSub(s) \/ Store(s) \/ WriteReference(s)
        \/ \E j \in {"append", "index", "destroy"} : Call(s, j)

Spec == Init /\ [][Next]_vars

-----------------------------------------------------------------------------
(* Properties.                                                             *)

Owners(d) == {s \in Strings : data_[s] = d} \cup {s \in Strings : new_data[s] = d}

\* The count of the data is that of the strings that have them, or the mark and
\* they have one; and data are deleted when no string has them, not before and
\* not later.
OwnersCounted ==
    /\ \A d \in Datas : d \in allocated <=> Owners(d) # {}
    /\ \A d \in allocated :
          \/ ref_count_[d] = Cardinality(Owners(d))
          \/ Unsharedable(d) /\ Cardinality(Owners(d)) = 1

\* No call on a string, and no write through a reference to one of its characters,
\* changes another string; the asserts of MakeUnsharedable, ResetSharedable and
\* CopyData find the data unique.
CopyOnWrite ==
    \A s \in Strings :
        /\ data_[s] # None => content[data_[s]] = value[s]
        /\ pc[s] = "store" => Unique(data_[s])

=============================================================================
