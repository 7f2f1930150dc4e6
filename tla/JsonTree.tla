------------------------------ MODULE JsonTree ------------------------------
(***************************************************************************)
(* The trees of src/src/json/cJSON.c: items on a heap that runs out,       *)
(* linked to siblings and children, and the calls that build, change, copy *)
(* and compare them.                                                       *)
(*                                                                         *)
(* An operator that stands for a C function takes the heap and returns it  *)
(* changed, with what the function returns in ret (of a Boolean, Nil is    *)
(* false).  left is the number of allocations that will succeed.           *)
(*                                                                         *)
(* The application owns the items in held.  It gives an item to a call at  *)
(* most once, adds named items to objects and others to arrays, makes no   *)
(* cycle, adds nothing through a reference, and deletes no item that a     *)
(* reference outside of it shows.  It looks up no name among items that    *)
(* have none: get_object_item would give strcmp a NULL there.              *)
(*                                                                         *)
(* An operator marked "Deviation" is a wrong variant of the one after it.  *)
(***************************************************************************)
EXTENDS Integers, SequencesExt

CONSTANTS
    NumBlocks,  \* bound: blocks of memory
    Names,      \* names of items
    Literals,   \* names that are literals in the application
    Fold(_),    \* tolower of a name
    Kinds,      \* the kinds of items the application creates
    MaxCalls,   \* bound: calls
    MaxCount,   \* bound: items of an array that is created in one call
    MaxRefs,    \* bound: references
    MaxAllocations, \* bound: allocations that succeed in a call
    MaxDropped  \* bound: items that calls without a result did not deal with

VARIABLES
    heap,     \* the items and the texts there are, each in a block of its own
    held,     \* the items the application holds
    dropped,  \* history: the items that a call without a result did not deal with
    calls     \* those to come

vars == <<heap, held, dropped, calls>>

Nil == 0
Block == 1 .. NumBlocks

\* A char *: what it points to, and in which block, if that is allocated.
Literal(t) == [text |-> t, at |-> Nil]
NoText == Literal("")

Blank == [type |-> "Invalid", is_reference |-> FALSE, string_is_const |-> FALSE,
          child |-> Nil, next |-> Nil, prev |-> Nil, valuestring |-> NoText, string |-> NoText]

Items(h) == DOMAIN h.items

Empty == [items |-> <<>>, texts |-> {}, left |-> NumBlocks, ret |-> Nil]

-----------------------------------------------------------------------------
(* Allocation.                                                             *)

Used(h) == Items(h) \cup h.texts

\* global_hooks.allocate fails, or gives the first free block.
CanAllocate(h) == 0 < h.left /\ Used(h) # Block
FreeBlock(h) == Min(Block \ Used(h))

\* cJSON_New_Item, and what the caller sets in it
NewItem(h, item) ==
    IF CanAllocate(h)
    THEN [h EXCEPT !.items = @ @@ (FreeBlock(h) :> item), !.left = @ - 1, !.ret = FreeBlock(h)]
    ELSE [h EXCEPT !.ret = Nil]

\* cJSON_strdup: ret is the block of the copy.
Strdup(h, text) ==
    IF text = "" THEN [h EXCEPT !.ret = Nil]
    ELSE IF CanAllocate(h)
    THEN [h EXCEPT !.texts = @ \cup {FreeBlock(h)}, !.left = @ - 1, !.ret = FreeBlock(h)]
    ELSE [h EXCEPT !.ret = Nil]

Free(h, text) == [h EXCEPT !.texts = @ \ {text.at}]

FreeItem(h, n) == [h EXCEPT !.items = Restrict(@, DOMAIN @ \ {n})]

\* cJSON_Delete of n, of the items after it, and of what they own.
RECURSIVE Delete(_, _)
Delete(h, n) ==
    IF n = Nil THEN h
    ELSE LET item == h.items[n]
             h1 == IF item.is_reference THEN h
                   ELSE Free(Delete(h, item.child), item.valuestring)
             h2 == IF item.string_is_const THEN h1 ELSE Free(h1, item.string)
         IN  Delete(FreeItem(h2, n), item.next)

\* The way out of a function that fails.
Fail(h, n) == [Delete(h, n) EXCEPT !.ret = Nil]

-----------------------------------------------------------------------------
(* Creating.                                                               *)

\* cJSON_CreateNumber; null, true and false are alike.
CreateNumber(h) == NewItem(h, [Blank EXCEPT !.type = "Number"])

\* cJSON_CreateArray, cJSON_CreateObject
CreateContainer(h, type) == NewItem(h, [Blank EXCEPT !.type = type])

\* cJSON_CreateString, cJSON_CreateRaw
CreateString(h) ==
    LET h1 == NewItem(h, [Blank EXCEPT !.type = "String"])
        n  == h1.ret
        h2 == Strdup(h1, "s")
    IN  IF n = Nil THEN h1
        ELSE IF h2.ret = Nil THEN Fail(h2, n)
        ELSE [h2 EXCEPT !.items[n].valuestring = [text |-> "s", at |-> h2.ret], !.ret = n]

\* cJSON_CreateStringReference
CreateStringReference(h) ==
    NewItem(h, [Blank EXCEPT !.type = "String", !.is_reference = TRUE, !.valuestring = Literal("s")])

\* cJSON_CreateObjectReference, cJSON_CreateArrayReference
CreateContainerReference(h, type, child) ==
    NewItem(h, [Blank EXCEPT !.type = type, !.is_reference = TRUE, !.child = child])

Create(h, what) ==
    CASE what = "Number" -> CreateNumber(h)
      [] what = "String" -> CreateString(h)
      [] what = "StringReference" -> CreateStringReference(h)
      [] OTHER -> CreateContainer(h, what)

\* suffix_object
Suffix(h, prev, n) == [h EXCEPT !.items[prev].next = n, !.items[n].prev = prev]

\* The loop of cJSON_CreateIntArray, cJSON_CreateFloatArray,
\* cJSON_CreateDoubleArray and cJSON_CreateStringArray, after item p of array a.
RECURSIVE CreateElements(_, _, _, _, _)
CreateElements(h, a, p, what, count) ==
    LET h1 == Create(h, what)
        n  == h1.ret
    IN  IF count = 0 THEN [h EXCEPT !.ret = a]
        ELSE IF n = Nil THEN Fail(h1, a)
        ELSE CreateElements(IF p = Nil THEN [h1 EXCEPT !.items[a].child = n] ELSE Suffix(h1, p, n),
                            a, n, what, count - 1)

CreateArrayOf(h, what, count) ==
    LET h1 == CreateContainer(h, "Array")
    IN  IF h1.ret = Nil THEN h1 ELSE CreateElements(h1, h1.ret, Nil, what, count)

-----------------------------------------------------------------------------
(* Looking up.                                                             *)

\* The items that follow from n, as the loops over them see them.
RECURSIVE Chain(_, _)
Chain(h, n) == IF n = Nil THEN <<>> ELSE <<n>> \o Chain(h, h.items[n].next)

Children(h, n) == Chain(h, h.items[n].child)

\* get_array_item, with which counted from 0
ArrayItem(h, n, which) ==
    IF which + 1 \in DOMAIN Children(h, n) THEN Children(h, n)[which + 1] ELSE Nil

SameName(a, b, case_sensitive) == a # "" /\ (IF case_sensitive THEN a = b ELSE Fold(a) = Fold(b))

\* get_object_item, where strcmp is given the name of every item passed.
ObjectItem(h, n, name, case_sensitive) ==
    LET found == SelectSeq(Children(h, n),
                    LAMBDA m : SameName(name, h.items[m].string.text, case_sensitive))
    IN  IF found = <<>> THEN Nil ELSE Head(found)

-----------------------------------------------------------------------------
(* Changing.                                                               *)

\* add_item_to_array
AddToArray(h, array, n) ==
    IF n = Nil THEN [h EXCEPT !.ret = Nil]
    ELSE LET h1 == IF h.items[array].child = Nil
                   THEN [h EXCEPT !.items[array].child = n]
                   ELSE Suffix(h, Last(Children(h, array)), n)
         IN  [h1 EXCEPT !.ret = n]

\* Deviation: the name an item had before is lost.
RenamedOver(h, n, string, is_const) ==
    [h EXCEPT !.items[n].string = string, !.items[n].string_is_const = is_const]

\* n gets another name, and its own is freed.
Renamed(h, n, string, is_const) ==
    [IF h.items[n].string_is_const THEN h ELSE Free(h, h.items[n].string)
        EXCEPT !.items[n].string = string, !.items[n].string_is_const = is_const]

\* add_item_to_object
AddToObject(h, object, name, n, constant_key) ==
    LET h1 == Strdup(h, name)
    IN  IF n = Nil THEN [h EXCEPT !.ret = Nil]
        ELSE IF constant_key THEN AddToArray(Renamed(h, n, Literal(name), TRUE), object, n)
        ELSE IF h1.ret = Nil THEN h1
        ELSE AddToArray(Renamed(h1, n, [text |-> name, at |-> h1.ret], FALSE), object, n)

\* create_reference
CreateReference(h, n) ==
    NewItem(h, [h.items[n] EXCEPT !.string = NoText, !.is_reference = TRUE,
                                  !.next = Nil, !.prev = Nil])

\* cJSON_AddNullToObject, ..., cJSON_AddArrayToObject
AddNewToObject(h, object, name, what) ==
    LET h1 == Create(h, what)
        h2 == AddToObject(h1, object, name, h1.ret, FALSE)
    IN  IF h2.ret = Nil THEN Fail(h2, h1.ret) ELSE h2

\* Deviation: the parent still begins with the item.
DetachKeptFirst(h, parent, n) ==
    LET item == h.items[n]
        h1 == IF item.prev = Nil THEN h ELSE [h EXCEPT !.items[item.prev].next = item.next]
        h2 == IF item.next = Nil THEN h1 ELSE [h1 EXCEPT !.items[item.next].prev = item.prev]
    IN  [h2 EXCEPT !.items[n].prev = Nil, !.items[n].next = Nil, !.ret = n]

\* cJSON_DetachItemViaPointer
DetachItem(h, parent, n) ==
    LET item == h.items[n]
        h1 == IF item.prev = Nil THEN h ELSE [h EXCEPT !.items[item.prev].next = item.next]
        h2 == IF item.next = Nil THEN h1 ELSE [h1 EXCEPT !.items[item.next].prev = item.prev]
        h3 == IF h.items[parent].child = n THEN [h2 EXCEPT !.items[parent].child = item.next] ELSE h2
    IN  [h3 EXCEPT !.items[n].prev = Nil, !.items[n].next = Nil, !.ret = n]

\* cJSON_InsertItemInArray, for which >= 0
InsertInArray(h, array, which, n) ==
    LET after == ArrayItem(h, array, which)
        prev  == h.items[after].prev
        h1 == [h EXCEPT !.items[n].next = after, !.items[n].prev = prev, !.items[after].prev = n]
    IN  IF after = Nil THEN AddToArray(h, array, n)
        ELSE IF h.items[array].child = after THEN [h1 EXCEPT !.items[array].child = n]
        ELSE [h1 EXCEPT !.items[prev].next = n]

\* cJSON_ReplaceItemViaPointer, of n with replacement # n
ReplaceItem(h, parent, n, replacement) ==
    LET item == h.items[n]
        h1 == [h EXCEPT !.items[replacement].next = item.next, !.items[replacement].prev = item.prev]
        h2 == IF item.next = Nil THEN h1 ELSE [h1 EXCEPT !.items[item.next].prev = replacement]
        h3 == IF item.prev = Nil THEN h2 ELSE [h2 EXCEPT !.items[item.prev].next = replacement]
        h4 == IF h.items[parent].child = n THEN [h3 EXCEPT !.items[parent].child = replacement] ELSE h3
    IN  Delete([h4 EXCEPT !.items[n].next = Nil, !.items[n].prev = Nil, !.ret = replacement], n)

\* replace_item_in_object.  Without memory the replacement has no name.
ReplaceInObject(h, object, name, replacement, case_sensitive) ==
    LET n  == ObjectItem(h, object, name, case_sensitive)
        h1 == IF h.items[replacement].string_is_const THEN h
              ELSE Free(h, h.items[replacement].string)
        h2 == Strdup(h1, name)
        string == IF h2.ret = Nil THEN NoText ELSE [text |-> name, at |-> h2.ret]
        h3 == [h2 EXCEPT !.items[replacement].string = string,
                         !.items[replacement].string_is_const = FALSE]
    IN  IF n = Nil THEN h3 ELSE ReplaceItem(h3, object, n, replacement)

-----------------------------------------------------------------------------
(* Copying and comparing.                                                  *)

\* Deviation: the first child is replaced by every other.
LinkOver(h, m, prev, c) == [h EXCEPT !.items[m].child = c]

LinkCopy(h, m, prev, c) ==
    IF prev = Nil THEN [h EXCEPT !.items[m].child = c] ELSE Suffix(h, prev, c)

\* cJSON_Duplicate of n, and its loop over the children cs, of which the copy
\* of the last is prev.
RECURSIVE Duplicate(_, _, _), DuplicateChildren(_, _, _, _)
Duplicate(h, n, recurse) ==
    LET item == h.items[n]
        h1 == NewItem(h, [Blank EXCEPT !.type = item.type, !.string_is_const = item.string_is_const])
        m  == h1.ret
        h2 == Strdup(h1, item.valuestring.text)
        h3 == [h2 EXCEPT !.items[m].valuestring = [text |-> item.valuestring.text, at |-> h2.ret]]
        h4 == IF item.string_is_const THEN [h3 EXCEPT !.ret = Nil] ELSE Strdup(h3, item.string.text)
        h5 == [h4 EXCEPT !.items[m].string = [text |-> item.string.text, at |-> h4.ret]]
    IN  IF m = Nil THEN h1
        ELSE IF item.valuestring # NoText /\ h2.ret = Nil THEN Fail(h2, m)
        ELSE IF item.string # NoText /\ ~ item.string_is_const /\ h4.ret = Nil THEN Fail(h3, m)
        ELSE IF recurse THEN DuplicateChildren(h5, m, Nil, Children(h, n))
        ELSE [h5 EXCEPT !.ret = m]
DuplicateChildren(h, m, prev, cs) ==
    LET h1 == Duplicate(h, Head(cs), TRUE)
        c  == h1.ret
    IN  IF cs = <<>> THEN [h EXCEPT !.ret = m]
        ELSE IF c = Nil THEN Fail(h1, m)
        ELSE DuplicateChildren(LinkCopy(h1, m, prev, c), m, c, Tail(cs))

\* cJSON_Compare.  Objects are compared both ways, by name.
RECURSIVE Compare(_, _, _, _), Includes(_, _, _, _)

\* Deviation: what b has besides a does not count.
SubsetOfMembers(h, a, b, case_sensitive) == Includes(h, a, b, case_sensitive)

SameMembers(h, a, b, case_sensitive) ==
    Includes(h, a, b, case_sensitive) /\ Includes(h, b, a, case_sensitive)

Compare(h, a, b, case_sensitive) ==
    LET x == h.items[a]  y == h.items[b]
        as == Children(h, a)  bs == Children(h, b)
    IN  /\ x.type = y.type
        /\ \/ a = b
           \/ x.type = "Number"
           \/ x.type = "String" /\ x.valuestring.text = y.valuestring.text
           \/ /\ x.type = "Array" /\ Len(as) = Len(bs)
              /\ \A i \in DOMAIN as : Compare(h, as[i], bs[i], case_sensitive)
           \/ x.type = "Object" /\ SameMembers(h, a, b, case_sensitive)
Includes(h, a, b, case_sensitive) ==
    \A m \in Range(Children(h, a)) :
        LET other == ObjectItem(h, b, h.items[m].string.text, case_sensitive)
        IN  other # Nil /\ Compare(h, m, other, case_sensitive)

-----------------------------------------------------------------------------
(* The application.                                                        *)

Item == Items(heap)
Container(n, type) == n \in Item /\ heap.items[n].type = type /\ ~ heap.items[n].is_reference

\* The application has built something, holds items of it, and will make n calls.
Built(h, items, n) ==
    /\ heap = [h EXCEPT !.left = 0, !.ret = Nil]
    /\ held = items /\ calls = n /\ dropped = {}

Init == Built(Empty, {}, MaxCalls)

\* The heap before a call that may allocate.
WithMemory == {[heap EXCEPT !.left = k] : k \in 0 .. MaxAllocations}

\* A call is over: it left h, it took the items in taken, gave item given, and
\* did not deal with the items in lost.
Done(h, taken, given, lost) ==
    /\ heap' = [h EXCEPT !.left = 0, !.ret = Nil]
    /\ held' = ((held \ taken) \cup {given}) \ {Nil}
    /\ dropped' = (dropped \cup lost) \cap Items(h)
    /\ Cardinality(dropped') <= MaxDropped
    /\ calls' = calls - 1

\* Whatever the items in ns show, at any depth.
RECURSIVE Shown(_, _)
Shown(h, ns) ==
    LET more == ns \cup UNION {Range(Children(h, n)) : n \in ns}
    IN  IF more = ns THEN ns ELSE Shown(h, more)

HasCycle(h) == \E n \in Items(h) : n \in Shown(h, Range(Children(h, n)))

\* The blocks that go with n alone.
Own(n) == Used(heap) \ Used(Delete([heap EXCEPT !.items[n].next = Nil], n))

References == {n \in Item : heap.items[n].is_reference}

\* No reference outside of n shows a part of it.
MayGo(n) ==
    \A r \in References \ Own(n) :
        heap.items[r].child \notin Own(n) /\ heap.items[r].valuestring.at \notin Own(n)

CreateItem ==
    \E h \in WithMemory :
        \/ \E what \in Kinds :
              /\ what = "StringReference" => Cardinality(References) < MaxRefs
              /\ Done(Create(h, what), {}, Create(h, what).ret, {})
        \/ \E what \in Kinds \cap {"Number", "String"}, count \in 1 .. MaxCount :
              LET h1 == CreateArrayOf(h, what, count) IN Done(h1, {}, h1.ret, {})
        \/ \E child \in Item, type \in Kinds \cap {"Array", "Object"} :
              LET h1 == CreateContainerReference(h, type, child)
              IN  /\ Cardinality(References) < MaxRefs
                  /\ Done(h1, {}, h1.ret, {})

AddItem ==
    \E n \in held, c \in Item : \E h \in WithMemory :
        \/ LET h1 == AddToArray(h, c, n)
           IN  Container(c, "Array") /\ ~ HasCycle(h1) /\ Done(h1, {n}, Nil, {})
        \/ \E name \in Names \cup Literals, constant_key \in BOOLEAN :
              LET h1 == AddToObject(h, c, name, n, constant_key)
              IN  /\ Container(c, "Object") /\ constant_key = (name \in Literals)
                  /\ ~ HasCycle(h1)
                  /\ Done(h1, {n}, Nil, IF h1.ret = Nil THEN {n} ELSE {})

\* cJSON_AddItemReferenceToArray, cJSON_AddItemReferenceToObject
AddReference ==
    \E n \in Item, c \in Item : \E h \in WithMemory :
        LET r == CreateReference(h, n)
            h1 == AddToArray(r, c, r.ret)
        IN  /\ Cardinality(References) < MaxRefs
            /\ \/ Container(c, "Array") /\ ~ HasCycle(h1) /\ Done(h1, {}, Nil, {})
               \/ \E name \in Names :
                     LET h2 == AddToObject(r, c, name, r.ret, FALSE)
                     IN  /\ Container(c, "Object") /\ ~ HasCycle(h2)
                         /\ Done(h2, {}, Nil, {r.ret} \ {h2.ret})

AddNew ==
    \E c \in Item, name \in Names, what \in Kinds \ {"StringReference"} : \E h \in WithMemory :
        /\ Container(c, "Object")
        /\ Done(AddNewToObject(h, c, name, what), {}, Nil, {})

\* cJSON_DetachItemFromArray, cJSON_DetachItemFromObject
Detach ==
    \E c \in Item : \E n \in Range(Children(heap, c)) :
        /\ ~ heap.items[c].is_reference
        /\ Done(DetachItem(heap, c, n), {}, n, {})

\* cJSON_DeleteItemFromArray, cJSON_DeleteItemFromObject
DeleteItem ==
    \E c \in Item : \E n \in Range(Children(heap, c)) :
        /\ ~ heap.items[c].is_reference /\ MayGo(n)
        /\ Done(Delete(DetachItem(heap, c, n), n), {}, Nil, {})

DeleteRoot == \E n \in held : MayGo(n) /\ Done(Delete(heap, n), {n}, Nil, {})

Insert ==
    \E n \in held, c \in Item : \E which \in 0 .. NumBlocks :
        LET h == InsertInArray(heap, c, which, n)
        IN  /\ Container(c, "Array") /\ which <= Len(Children(heap, c)) /\ c # n
            /\ ~ HasCycle(h) /\ Done(h, {n}, Nil, {})

\* cJSON_ReplaceItemInArray, cJSON_ReplaceItemInObject
Replace ==
    \E n \in held, c \in Item : \E h \in WithMemory :
        \/ \E m \in Range(Children(heap, c)) :
              LET h1 == ReplaceItem(h, c, m, n)
              IN  /\ Container(c, "Array") /\ MayGo(m) /\ c \notin Own(n)
                  /\ ~ HasCycle(h1) /\ Done(h1, {n}, Nil, {})
        \/ \E name \in Names, case_sensitive \in BOOLEAN :
              LET m  == ObjectItem(heap, c, name, case_sensitive)
                  h1 == ReplaceInObject(h, c, name, n, case_sensitive)
              IN  /\ Container(c, "Object") /\ c \notin Own(n)
                  /\ m # Nil => MayGo(m)
                  /\ ~ HasCycle(h1)
                  /\ Done(h1, {n}, Nil, IF m = Nil \/ h1.items[n].string = NoText THEN {n} ELSE {})

Copy(n, recurse) ==
    \E h \in WithMemory :
        LET h1 == Duplicate(h, n, recurse) IN Done(h1, {}, h1.ret, {})

Next ==
    /\ 0 < calls
    /\ \/ CreateItem \/ AddItem \/ AddReference \/ AddNew \/ Detach \/ DeleteItem \/ DeleteRoot
       \/ Insert \/ Replace
       \/ \E n \in Item, recurse \in BOOLEAN : Copy(n, recurse)

Spec == Init /\ [][Next]_vars

-----------------------------------------------------------------------------
\* The siblings of an item are linked both ways, the first has none before it,
\* and every pointer is to an item or a text there is (suffix_object,
\* cJSON_DetachItemViaPointer, cJSON_InsertItemInArray,
\* cJSON_ReplaceItemViaPointer).
LinksAreSound ==
    \A n \in Item :
        LET item == heap.items[n]
        IN  /\ {item.child, item.next, item.prev} \subseteq Item \cup {Nil}
            /\ {item.valuestring.at, item.string.at} \subseteq heap.texts \cup {Nil}
            /\ item.next # Nil => heap.items[item.next].prev = n
            /\ item.prev # Nil => heap.items[item.prev].next = n
            /\ item.child # Nil /\ ~ item.is_reference => heap.items[item.child].prev = Nil

\* The items whose cJSON_Delete frees block b.
Owners(b) ==
    {n \in Item :
        LET item == heap.items[n]
        IN  \/ b = item.next
            \/ ~ item.is_reference /\ b \in {item.child, item.valuestring.at}
            \/ ~ item.string_is_const /\ b = item.string.at}

\* Every block will be freed once: the application holds it, or one item owns
\* it.  Nothing is lost but what calls without a result did not deal with, even
\* when a function runs out of memory half-way.
OneOwner ==
    \A b \in Used(heap) :
        /\ Cardinality(Owners(b)) <= 1
        /\ b \in held => Owners(b) = {}
        /\ Owners(b) = {} => b \in held \cup dropped

\* So the application can go on with its items, and free them all.
TreesAreSound == LinksAreSound /\ OneOwner

\* What an item shows, for a comparison of names with or without their case.
RECURSIVE Value(_, _, _)
Value(h, n, case_sensitive) ==
    LET item == h.items[n]
        cs == Children(h, n)
    IN  <<item.type,
          CASE item.type = "Number" -> ""
            [] item.type = "String" -> item.valuestring.text
            [] item.type = "Array"  -> [i \in DOMAIN cs |-> Value(h, cs[i], case_sensitive)]
            [] item.type = "Object" ->
                   {<<IF case_sensitive THEN h.items[c].string.text ELSE Fold(h.items[c].string.text),
                      Value(h, c, case_sensitive)>> : c \in Range(cs)}>>

\* The items of every object that n shows have names, and different ones.
Distinct(n, case_sensitive) ==
    \A o \in Shown(heap, {n}) :
        heap.items[o].type = "Object" =>
            \A b, c \in Range(Children(heap, o)) :
                /\ heap.items[b].string # NoText
                /\ b # c => ~ SameName(heap.items[b].string.text, heap.items[c].string.text,
                                       case_sensitive)

\* cJSON_Compare tells whether two items are the same but for the order of the
\* items of objects.
CompareIsEquality ==
    \A a, b \in Item, case_sensitive \in BOOLEAN :
        Distinct(a, case_sensitive) /\ Distinct(b, case_sensitive) =>
            (Compare(heap, a, b, case_sensitive) <=>
                Value(heap, a, case_sensitive) = Value(heap, b, case_sensitive))

\* cJSON.h: "Duplicate will create a new, identical cJSON item to the one you
\* pass".
DuplicateIsIdentical ==
    [][held # held' => \A n \in Item : Copy(n, TRUE) =>
          \A m \in held' \ held : Value(heap', m, TRUE) = Value(heap, n, TRUE)]_vars

\* To the application an array or an object is a sequence of items.
Forest == INSTANCE JsonForest WITH
    kids <- [n \in Item |-> IF heap.items[n].is_reference THEN <<>> ELSE Children(heap, n)]

ImplementsForest == Forest!Spec
=============================================================================
