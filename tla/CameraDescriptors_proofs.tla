---------------------- MODULE CameraDescriptors_proofs ----------------------
(***************************************************************************)
(* Proofs about CameraDescriptors, for any bytes a kernel may give for a   *)
(* camera and any limits of libusb.                                        *)
(*                                                                         *)
(* The argument.  From the configuration descriptor to the end of the scan *)
(* the parser is in the buffer, behind that descriptor, and the array has  *)
(* settings of the interfaces that were begun and of no others (BaseInv).  *)
(* The settings are the interface descriptors that were passed, in order,  *)
(* each with the blocks behind it and endpoints of its own (TreeInv): what *)
(* is in front of the parser is either skipped, and then unknown, or added *)
(* to the tree.  What is allocated can be found from the interfaces that   *)
(* are counted, or from a stream, but for controls that a second input     *)
(* header made forgotten (MemoryInv); when the parser gives up it counts   *)
(* every interface that has something, which is what that rests on.        *)
(*                                                                         *)
(* With descriptors as USB wants them the element that is being built has  *)
(* the number that all settings to come have or exceed, and an endpoint    *)
(* that is still to come belongs to the last setting (KeptInv): then an    *)
(* endpoint is wanted exactly when one comes, and no error can be.  With   *)
(* blocks as UVC wants them as well, a stream has the formats and frames   *)
(* of the blocks of its interface that are not left to parse (ScannedInv), *)
(* so that a frame always finds the format before it.                      *)
(*                                                                         *)
(* Places are numbers, and the loops that skip stop at the least of a set  *)
(* of them, which exists because < is well-founded on Nat (WFMin).         *)
(***************************************************************************)
EXTENDS CameraDescriptors, SequenceTheorems, FiniteSetTheorems, WellFoundedInduction, TLAPS
------------------------------------------------------------------------------
(* The inductive invariant *)

Parsing  == pc \in {"configuration", "endpoints", "interface_done"}
Within   == pc \in {"endpoints", "interface_done"}
Scanning == pc \in {"parsed", "control", "streaming", "blocks", "open"}
Built    == IF Within THEN parsed + 1 ELSE IF pc = "configuration" THEN parsed ELSE config.count

Trees       == DOMAIN config.interfaces
Tree(i)     == config.interfaces[i]
SettingsOf(i) == ToSet(Tree(i))
Placed      == UNION {{a.at : a \in SettingsOf(i)} : i \in Trees}

\* The buffer has the configuration and what follows, and the parser is behind the first of them.
InBuffer ==
    /\ PlacesOf("config") # {} /\ First <= window.last
    /\ pos \in (First + 1)..(window.last + 1)
    /\ Within => Kind(pos) # "unknown"

\* The array has settings of the interfaces that were begun and no others.
Counts ==
    /\ \A i \in 0..(config.count - 1) : i \in Trees
    /\ Parsing => Built <= config.count
    /\ Within => Tree(parsed) # <<>>
    /\ \A i \in Trees : i >= Built => Tree(i) = <<>>

\* The settings are the interface descriptors that were passed, in order.
InPlace ==
    /\ Placed = {q \in Interfaces : q < pos}
    /\ \A i, j \in Trees : i < j => \A a \in SettingsOf(i), b \in SettingsOf(j) : a.at < b.at
    /\ \A i \in Trees : \A k, l \in DOMAIN Tree(i) : k < l => Tree(i)[k].at < Tree(i)[l].at
    /\ pc = "endpoints" => \A r \in (Setting.at + 1)..(pos - 1) : Desc(r).type \notin {"interface", "association"}

Saved(extra, p) == extra = Following(p) \/ (extra = {} /\ window.piece = "header")
SettingOK(a) ==
    /\ Saved(a.extra, a.at)
    /\ \A e \in ToSet(a.endpoints) : e.at \in EndpointsOf(a.at) /\ e.at < pos /\ Saved(e.extra, e.at)
Elements == \A i \in Trees : \A a \in SettingsOf(i) :
               SettingOK(a) /\ Desc(a.at).number = Desc(Tree(i)[1].at).number



------------------------------------------------------------------------------
(* Numbers and lists *)

\* A set of numbers has a least one, which is what Min is.
LEMMA MinFacts ==
    ASSUME NEW T, T \subseteq Nat, T # {}
    PROVE  Min(T) \in T /\ \A y \in T : Min(T) <= y
<1>1. \E x \in T : \A y \in T : ~ (<<y, x>> \in OpToRel(<, Nat))
    BY WFMin, NatLessThanWellFounded, Zenon
<1>2. PICK x \in T : \A y \in T : ~ (<<y, x>> \in OpToRel(<, Nat))
    BY <1>1
<1>3. \A y \in T : x <= y
  <2>1. \A y \in T : ~(y < x)
      BY <1>2 DEF OpToRel
  <2>2. \A y \in T : y \in Nat /\ x \in Nat
      OBVIOUS
  <2>3. QED
      BY <2>1, <2>2
<1>4. \E m : m \in T /\ \A y \in T : m <= y
    BY <1>3
<1>5. QED
    BY <1>4, Zenon DEF Min

\* It is the only one.
LEMMA MinIs ==
    ASSUME NEW T, T \subseteq Nat, NEW x \in T, \A y \in T : x <= y
    PROVE  Min(T) = x
<1>1. Min(T) \in T /\ \A y \in T : Min(T) <= y
    BY MinFacts
<1>2. Min(T) <= x /\ x <= Min(T) /\ x \in Nat /\ Min(T) \in Nat
    BY <1>1
<1>3. QED
    BY <1>2

\* The elements of a sequence, and those of one that got another.
LEMMA SeqFacts ==
    ASSUME NEW S, NEW s \in Seq(S)
    PROVE  /\ Len(s) \in Nat /\ DOMAIN s = 1..Len(s) /\ ToSet(s) \subseteq S
           /\ \A k \in DOMAIN s : s[k] \in S
           /\ s # <<>> <=> Len(s) > 0
<1>1. Len(s) \in Nat /\ DOMAIN s = 1..Len(s) /\ \A k \in DOMAIN s : s[k] \in S
    BY LenProperties, ElementOfSeq
<1>2. s # <<>> <=> Len(s) > 0
    BY <1>1, EmptySeq
<1>3. QED
    BY <1>1, <1>2 DEF ToSet

LEMMA AppendFacts ==
    ASSUME NEW S, NEW s \in Seq(S), NEW x \in S
    PROVE  /\ Append(s, x) \in Seq(S) /\ Len(Append(s, x)) = Len(s) + 1
           /\ Append(s, x) # <<>> /\ DOMAIN Append(s, x) = 1..(Len(s) + 1)
           /\ \A k \in 1..Len(s) : Append(s, x)[k] = s[k]
           /\ Append(s, x)[Len(s) + 1] = x /\ ToSet(Append(s, x)) = ToSet(s) \cup {x}
<1>1. /\ Append(s, x) \in Seq(S) /\ Len(Append(s, x)) = Len(s) + 1
      /\ \A k \in 1..Len(s) : Append(s, x)[k] = s[k] /\ Append(s, x)[Len(s) + 1] = x
    BY AppendProperties
<1>2. /\ Append(s, x)[Len(s) + 1] = x /\ \A k \in 1..Len(s) : Append(s, x)[k] = s[k]
    BY AppendProperties
<1>3. Len(s) \in Nat /\ DOMAIN s = 1..Len(s) /\ DOMAIN Append(s, x) = 1..(Len(s) + 1)
    BY <1>1, LenProperties
<1>4. 1..(Len(s) + 1) = 1..Len(s) \cup {Len(s) + 1}
    BY <1>3
<1>5. ToSet(Append(s, x)) = ToSet(s) \cup {x}
    BY <1>2, <1>3, <1>4 DEF ToSet
<1>6. Append(s, x) # <<>>
    BY <1>1, <1>3, EmptySeq
<1>7. QED
    BY <1>1, <1>2, <1>3, <1>5, <1>6

\* The last element is exchanged.
LEMMA LastFacts ==
    ASSUME NEW S, NEW s \in Seq(S), s # <<>>, NEW x \in S
    PROVE  LET t == [s EXCEPT ![Len(s)] = x]
           IN  /\ t \in Seq(S) /\ Len(t) = Len(s) /\ t # <<>> /\ DOMAIN t = DOMAIN s
               /\ \A k \in DOMAIN s : t[k] = IF k = Len(s) THEN x ELSE s[k]
               /\ Len(s) \in DOMAIN s /\ s[Len(s)] \in S
               /\ \A y \in ToSet(t) : y = x \/ y \in ToSet(s)
<1> DEFINE t == [s EXCEPT ![Len(s)] = x]
<1>1. Len(s) \in Nat /\ Len(s) > 0 /\ DOMAIN s = 1..Len(s) /\ \A k \in DOMAIN s : s[k] \in S
    BY SeqFacts
<1>2. t \in Seq(S) /\ Len(t) = Len(s) /\ \A k \in DOMAIN s : t[k] = IF k = Len(s) THEN x ELSE s[k]
    BY <1>1, ExceptSeq
<1>3. DOMAIN t = DOMAIN s /\ Len(s) \in DOMAIN s /\ t # <<>>
    BY <1>1, <1>2, SeqFacts
<1>4. \A y \in ToSet(t) : y = x \/ y \in ToSet(s)
    BY <1>2, <1>3 DEF ToSet
<1>5. QED
    BY <1>1, <1>2, <1>3, <1>4

------------------------------------------------------------------------------
(* Places and what is skipped *)

LEMMA BlobFacts ==
    ASSUME blob \in Blobs
    PROVE  /\ LastPlace \in Nat /\ Places = 1..LastPlace /\ blob.tail \in Pieces
           /\ \A p \in Places : DescriptorOK(Desc(p)) /\ Desc(p).type \in Types
           /\ \A t : PlacesOf(t) \subseteq Places /\ PlacesOf(t) \subseteq Nat
BY BlobAssumption DEF LastPlace, Places, PlacesOf, Desc, DescriptorOK

\* The first configuration is in the buffer, and the buffer in the file.
LEMMA WindowFacts ==
    ASSUME blob \in Blobs, PlacesOf("config") # {}
    PROVE  /\ First \in PlacesOf("config") /\ First \in Nat /\ First >= 1
           /\ Extent \in First..LastPlace /\ TotalEnd \in Nat /\ TotalEnd >= First
           /\ Window.last \in First..LastPlace /\ Window \in [last : 0..LastPlace, piece : Pieces]
<1>1. First \in PlacesOf("config")
    BY BlobFacts, MinFacts DEF First
<1>2. /\ First \in Places /\ First \in Nat /\ First >= 1 /\ Desc(First).type = "config"
      /\ Desc(First).total \in Nat \ {0} /\ Desc(First).piece \in Pieces
    BY <1>1, BlobFacts DEF PlacesOf, DescriptorOK
<1>3. ASSUME NextConfigs # {}
      PROVE  Min(NextConfigs) - 1 \in First..LastPlace
  <2>1. NextConfigs \subseteq Nat
      BY BlobFacts DEF NextConfigs
  <2>2. Min(NextConfigs) \in NextConfigs
      BY <1>3, <2>1, MinFacts
  <2>3. QED
      BY <2>2, <1>2, BlobFacts DEF NextConfigs
<1>4. Extent \in First..LastPlace
    BY <1>2, <1>3, BlobFacts DEF Extent
<1>5. TotalEnd \in Nat /\ TotalEnd >= First
    BY <1>2 DEF TotalEnd
<1>6. Min({TotalEnd, Extent}) \in {TotalEnd, Extent} /\ Min({TotalEnd, Extent}) <= Extent
    BY <1>4, <1>5, <1>2, BlobFacts, MinFacts, {TotalEnd, Extent} \subseteq Nat
<1>7. Window.last \in First..LastPlace /\ Window.piece \in Pieces
    BY <1>2, <1>4, <1>5, <1>6, BlobFacts DEF Window, Pieces
<1>8. Window = [last |-> Window.last, piece |-> Window.piece]
    BY DEF Window
<1>9. QED
    BY <1>1, <1>2, <1>4, <1>5, <1>7, <1>8, BlobFacts

\* What the loops that skip pass over, and where they stop.
LEMMA SkipFacts ==
    ASSUME blob \in Blobs, window.last \in 0..LastPlace, NEW p \in 1..(window.last + 1)
    PROVE  /\ Skip(p) \in p..(window.last + 1) /\ Kind(Skip(p)) # "unknown"
           /\ \A q \in p..(Skip(p) - 1) : q <= window.last /\ q \in Places /\ Desc(q).type = "unknown"
           /\ Skipped(p) \subseteq PlacesOf("unknown")
<1>1. LastPlace \in Nat /\ Places = 1..LastPlace /\ window.last \in Nat /\ p \in Nat /\ p >= 1
    BY BlobFacts
<1>2. CASE p > window.last
  <2>1. Skip(p) = p /\ Kind(p) # "unknown"
      BY <1>2, <1>1 DEF Skip, Kind
  <2>2. QED
      BY <2>1, <1>1 DEF Skipped
<1>3. CASE ~(p > window.last)
  <2> DEFINE stops == {q \in p..(window.last + 1) : Kind(q) # "unknown"}
  <2>1. Skip(p) = Min(stops)
      BY <1>3, Zenon DEF Skip
  <2>2. window.last + 1 \in stops
      BY <1>1, <1>3 DEF Kind
  <2>3. stops \subseteq Nat
      BY <1>1
  <2>4. Min(stops) \in stops /\ \A y \in stops : Min(stops) <= y
      BY <2>2, <2>3, MinFacts
  <2>5. Skip(p) \in p..(window.last + 1) /\ Kind(Skip(p)) # "unknown"
      BY <2>1, <2>4
  <2>6. ASSUME NEW q \in p..(Skip(p) - 1)
        PROVE  q <= window.last /\ q \in Places /\ Desc(q).type = "unknown"
    <3>1. q \in p..(window.last + 1) /\ q <= window.last /\ ~(Skip(p) <= q)
        BY <2>5, <1>1
    <3>2. q \notin stops
        BY <3>1, <2>4, <2>1
    <3>3. Kind(q) = "unknown"
        BY <3>1, <3>2
    <3>4. QED
        BY <3>1, <3>3, <1>1 DEF Kind
  <2>7. QED
      BY <2>5, <2>6 DEF Skipped, PlacesOf
<1>4. QED
    BY <1>2, <1>3

\* What is at a place: a descriptor, unless the place is behind the buffer.
LEMMA KindFacts ==
    ASSUME blob \in Blobs, window.last \in 0..LastPlace, NEW p \in 1..(window.last + 1)
    PROVE  /\ Kind(p) \in Types => p <= window.last /\ p \in PlacesOf(Kind(p)) /\ Kind(p) = Desc(p).type
           /\ Kind(p) \notin Types => Kind(p) \in {"over", "none"} /\ p = window.last + 1
           /\ Kind(p) \in Types \cup {"over", "none"}
<1>1. LastPlace \in Nat /\ Places = 1..LastPlace /\ window.last \in Nat /\ p \in Nat /\ p >= 1
    BY BlobFacts
<1>2. CASE p <= window.last
  <2>1. Kind(p) = Desc(p).type /\ p \in Places
      BY <1>1, <1>2 DEF Kind
  <2>2. Desc(p).type \in Types
      BY <2>1, BlobFacts
  <2>3. QED
      BY <1>2, <2>1, <2>2 DEF PlacesOf
<1>3. CASE ~(p <= window.last)
  <2>1. Kind(p) \in {"over", "none"} /\ p = window.last + 1
      BY <1>1, <1>3 DEF Kind
  <2>2. QED
      BY <2>1 DEF Types
<1>4. QED
    BY <1>2, <1>3

------------------------------------------------------------------------------
(* The bytes do not change, and the buffer no more once it is read *)

LEMMA Fixed ==
    ASSUME blob' = blob
    PROVE  /\ LastPlace' = LastPlace /\ Places' = Places /\ First' = First /\ Extent' = Extent
           /\ TotalEnd' = TotalEnd
           /\ \A p : Desc(p)' = Desc(p)
           /\ \A t : PlacesOf(t)' = PlacesOf(t)
           /\ EndpointTypes' = EndpointTypes /\ SettingTypes' = SettingTypes
           /\ StreamTypes' = StreamTypes /\ InfoTypes' = InfoTypes /\ TodoTypes' = TodoTypes
<1>1. LastPlace' = LastPlace /\ Places' = Places /\ (\A p : Desc(p)' = Desc(p))
    BY DEF LastPlace, Places, Desc
<1>2. \A t : PlacesOf(t)' = PlacesOf(t)
    BY <1>1 DEF PlacesOf
<1>3. First' = First
    BY <1>2, Zenon DEF First
<1>4. NextConfigs' = NextConfigs
    BY <1>2, <1>3 DEF NextConfigs
<1>5. Extent' = Extent
    BY <1>1, <1>4, Zenon DEF Extent
<1>6. TotalEnd' = TotalEnd
    BY <1>1, <1>3 DEF TotalEnd
<1>7. /\ EndpointTypes' = EndpointTypes /\ SettingTypes' = SettingTypes
      /\ StreamTypes' = StreamTypes /\ InfoTypes' = InfoTypes /\ TodoTypes' = TodoTypes
    BY <1>1, <1>2 DEF EndpointTypes, SettingTypes, StreamTypes, FormatTypes, InfoTypes, TodoTypes
<1>8. QED
    BY <1>1, <1>2, <1>3, <1>5, <1>6, <1>7

LEMMA FixedWindow ==
    ASSUME blob' = blob, window' = window
    PROVE  /\ \A p : Kind(p)' = Kind(p)
           /\ InWindow' = InWindow /\ (\A t : In(t)' = In(t)) /\ Interfaces' = Interfaces
           /\ \A p : Following(p)' = Following(p) /\ EndpointsOf(p)' = EndpointsOf(p)
           /\ \A n : Numbered(n)' = Numbered(n) /\ BlocksOf(n)' = BlocksOf(n)
           /\ Streamed' = Streamed
<1>1. /\ Places' = Places /\ First' = First /\ \A p : Desc(p)' = Desc(p)
    BY Fixed
<1>2. \A p : Kind(p)' = Kind(p)
    BY <1>1 DEF Kind
<1>3. InWindow' = InWindow
    BY <1>1 DEF InWindow
<1>4. (\A t : In(t)' = In(t)) /\ Interfaces' = Interfaces
    BY <1>1, <1>3 DEF In, Interfaces
<1>5. \A p : Following(p)' = Following(p)
    BY <1>1, <1>3 DEF Following
<1>6. ASSUME NEW p
      PROVE  EndpointsOf(p)' = EndpointsOf(p)
  <2>1. NextKnown(p, {"interface", "association"})' = NextKnown(p, {"interface", "association"})
      BY <1>1, <1>3 DEF NextKnown
  <2>2. QED
      BY <1>1, <1>3, <2>1 DEF EndpointsOf, Between
<1>7. \A n : Numbered(n)' = Numbered(n)
    BY <1>1, <1>4 DEF Numbered
<1>8. \A n : BlocksOf(n)' = BlocksOf(n)
    BY <1>5, <1>6, <1>7 DEF BlocksOf
<1>9. Streamed' = Streamed
    BY <1>1, <1>4 DEF Streamed, KnownVersion
<1>10. QED
    BY <1>2, <1>3, <1>4, <1>5, <1>6, <1>7, <1>8, <1>9

------------------------------------------------------------------------------
(* Types, and where the parser is *)

TreeTypes   == UNION {[0..(n - 1) -> Seq(SettingTypes)] : n \in 0..USB_MAXINTERFACES}
ConfigTypes == [count : 0..USB_MAXINTERFACES, interfaces : TreeTypes, extra : SUBSET PlacesOf("unknown")]

\* A list of settings in the tree is exchanged.
LEMMA TreeChange ==
    ASSUME NEW c \in ConfigTypes, NEW i \in DOMAIN c.interfaces, NEW t \in Seq(SettingTypes)
    PROVE  LET d == [c EXCEPT !.interfaces[i] = t]
           IN  /\ d \in ConfigTypes /\ d.count = c.count /\ d.extra = c.extra
               /\ DOMAIN d.interfaces = DOMAIN c.interfaces
               /\ d.interfaces[i] = t
               /\ \A j \in DOMAIN c.interfaces : j # i => d.interfaces[j] = c.interfaces[j]
<1> DEFINE d == [c EXCEPT !.interfaces[i] = t]
           u == [c.interfaces EXCEPT ![i] = t]
<1>1. d = [count |-> c.count, interfaces |-> u, extra |-> c.extra]
    BY DEF ConfigTypes
<1>2. PICK n \in 0..USB_MAXINTERFACES : c.interfaces \in [0..(n - 1) -> Seq(SettingTypes)]
    BY DEF ConfigTypes, TreeTypes
<1>3. u \in [0..(n - 1) -> Seq(SettingTypes)] /\ u[i] = t /\ \A j \in DOMAIN c.interfaces : j # i => u[j] = c.interfaces[j]
    BY <1>2
<1>4. u \in TreeTypes
    BY <1>3 DEF TreeTypes
<1>5. DOMAIN u = DOMAIN c.interfaces
    BY <1>2, <1>3
<1>6. d \in ConfigTypes
    BY <1>1, <1>4 DEF ConfigTypes
<1>7. QED
    BY <1>1, <1>3, <1>5, <1>6

Typed == TypeOK /\ blob \in Blobs
Bounded == Parsing \/ Scanning => InBuffer /\ Counts
Fresh == pc = "start" => config.count = 0 /\ info.streams = <<>> /\ heap = {} /\ window.last = 0
                         /\ parsed = 0
Streaming == pc = "blocks" => info.streams # <<>>
BaseInv == Typed /\ Bounded /\ Fresh /\ Streaming

LEMMA TypedFacts ==
    ASSUME Typed
    PROVE  /\ config \in ConfigTypes /\ blob \in Blobs /\ window.last \in 0..LastPlace
           /\ LastPlace \in Nat /\ info \in InfoTypes /\ todo \in TodoTypes
           /\ config.count \in 0..USB_MAXINTERFACES /\ parsed \in 0..USB_MAXINTERFACES
           /\ USB_MAXINTERFACES \in Nat
           /\ \A i \in Trees : Tree(i) \in Seq(SettingTypes)
           /\ \A i \in Trees : i \in Nat
<1>1. /\ blob \in Blobs /\ window.last \in 0..LastPlace /\ info \in InfoTypes /\ todo \in TodoTypes
      /\ parsed \in 0..USB_MAXINTERFACES
    BY DEF Typed, TypeOK
<1>2. LastPlace \in Nat /\ USB_MAXINTERFACES \in Nat
    BY <1>1, BlobFacts, BlobAssumption
<1>3. PICK n \in 0..USB_MAXINTERFACES : config.interfaces \in [0..(n - 1) -> Seq(SettingTypes)]
    BY DEF Typed, TypeOK
<1>4. config.interfaces \in TreeTypes
    BY <1>3 DEF TreeTypes
<1>5. config \in ConfigTypes
    BY <1>4 DEF ConfigTypes, Typed, TypeOK
<1>6. config.count \in 0..USB_MAXINTERFACES
    BY <1>5 DEF ConfigTypes
<1>7. \A i \in Trees : Tree(i) \in Seq(SettingTypes) /\ i \in Nat
    BY <1>3, <1>2 DEF Trees, Tree
<1>8. QED
    BY <1>1, <1>2, <1>5, <1>6, <1>7

LEMMA TypedPrime ==
    ASSUME Typed, blob' = blob, window' \in [last : 0..LastPlace, piece : Pieces],
           pc' \in {"start", "configuration", "endpoints", "interface_done", "parsed", "control",
                   "streaming", "blocks", "open", "closed", "io_error", "refused", "crashed"},
           pos' \in 0..(LastPlace + 1), parsed' \in 0..USB_MAXINTERFACES, header' \in Types,
           config' \in ConfigTypes, info' \in InfoTypes, todo' \in TodoTypes, heap' \subseteq AllocatedTypes
    PROVE  Typed'
<1>1. /\ LastPlace' = LastPlace /\ PlacesOf("unknown")' = PlacesOf("unknown") /\ InfoTypes' = InfoTypes
      /\ TodoTypes' = TodoTypes /\ SettingTypes' = SettingTypes
    BY Fixed
<1>2. \E n \in 0..USB_MAXINTERFACES : config'.interfaces \in [0..(n - 1) -> Seq(SettingTypes)]
    BY DEF ConfigTypes, TreeTypes
<1>3. config' \in [count : 0..USB_MAXINTERFACES, interfaces : {config'.interfaces},
                   extra : SUBSET PlacesOf("unknown")]
    BY DEF ConfigTypes
<1>4. QED
    BY <1>1, <1>2, <1>3 DEF Typed, TypeOK

\* Where the parser is while it parses.
LEMMA ParsingFacts ==
    ASSUME BaseInv, Parsing
    PROVE  /\ Typed /\ blob \in Blobs /\ window.last \in 0..LastPlace /\ LastPlace \in Nat
           /\ InBuffer /\ Counts
           /\ PlacesOf("config") # {} /\ First \in Nat /\ First >= 1 /\ First <= window.last
           /\ pos \in 1..(window.last + 1) /\ pos > First /\ pos \in Nat
           /\ Within => parsed \in Trees /\ parsed < config.count /\ Tree(parsed) # <<>>
                        /\ Kind(pos) # "unknown"
<1>1. Typed /\ InBuffer /\ Counts
    BY DEF BaseInv, Bounded
<1>2. blob \in Blobs /\ window.last \in 0..LastPlace /\ LastPlace \in Nat /\ parsed \in Nat /\ config.count \in Nat
    BY <1>1, TypedFacts
<1>3. PlacesOf("config") # {} /\ First \in Nat /\ First >= 1 /\ First <= window.last
    BY <1>1, <1>2, WindowFacts DEF InBuffer
<1>4. pos \in 1..(window.last + 1) /\ pos > First /\ pos \in Nat
    BY <1>1, <1>2, <1>3 DEF InBuffer
<1>5. ASSUME Within
      PROVE  parsed \in Trees /\ parsed < config.count /\ Tree(parsed) # <<>> /\ Kind(pos) # "unknown"
  <2>1. Built = parsed + 1 /\ parsed + 1 <= config.count
      BY <1>1, <1>5 DEF Counts, Built, Parsing, Within
  <2>2. parsed \in 0..(config.count - 1)
      BY <1>2, <2>1
  <2>3. QED
      BY <1>1, <1>2, <1>5, <2>1, <2>2 DEF Counts, InBuffer
<1>6. QED
    BY <1>1, <1>2, <1>3, <1>4, <1>5

LEMMA LoopFacts ==
    ASSUME BaseInv, Loops
    PROVE  /\ Parsing /\ ~Within /\ pc = "configuration" /\ parsed \in Trees /\ parsed < config.count
           /\ Tree(parsed) = <<>> /\ Built = parsed
           /\ Skip(pos) \in 1..(window.last + 1) /\ Skip(pos) >= pos /\ Kind(Skip(pos)) # "unknown"
           /\ Skipped(pos) \subseteq PlacesOf("unknown")
           /\ SavesExtra(config) \in ConfigTypes /\ SavesExtra(config).count = config.count
           /\ SavesExtra(config).interfaces = config.interfaces
<1>1. Parsing /\ ~Within /\ pc = "configuration" /\ parsed < config.count /\ Built = parsed
    BY DEF Parsing, Within, Loops, Built
<1>2. /\ Typed /\ Counts /\ blob \in Blobs /\ window.last \in 0..LastPlace /\ LastPlace \in Nat
      /\ pos \in 1..(window.last + 1) /\ pos \in Nat
    BY <1>1, ParsingFacts
<1>3. parsed \in Nat /\ config.count \in Nat /\ config \in ConfigTypes
    BY <1>2, TypedFacts
<1>4. parsed \in 0..(config.count - 1)
    BY <1>1, <1>3
<1>5. parsed \in Trees /\ Tree(parsed) = <<>>
    BY <1>1, <1>2, <1>3, <1>4 DEF Counts
<1>6. /\ Skip(pos) \in pos..(window.last + 1) /\ Kind(Skip(pos)) # "unknown"
      /\ Skipped(pos) \subseteq PlacesOf("unknown")
    BY <1>2, SkipFacts
<1>7. Skip(pos) \in 1..(window.last + 1) /\ Skip(pos) >= pos
    BY <1>2, <1>6
<1>8. /\ SavesExtra(config) \in ConfigTypes /\ SavesExtra(config).count = config.count
      /\ SavesExtra(config).interfaces = config.interfaces
    BY <1>3, <1>6 DEF SavesExtra, ConfigTypes
<1>9. QED
    BY <1>1, <1>5, <1>6, <1>7, <1>8

\* The setting that parse_interface begins, and the tree with it.
NewSetting(p) ==
    [at |-> p, extra |-> IF Kind(Skip(p + 1)) = "over" THEN {} ELSE Skipped(p + 1),
     bNumEndpoints |-> Desc(p).endpoints,
     allocated |-> Kind(Skip(p + 1)) # "over" /\ Desc(p).endpoints > 0,
     endpoints |-> <<>>]

LEMMA AddFacts ==
    ASSUME BaseInv, parsed \in Trees, NEW c \in ConfigTypes, c.interfaces = config.interfaces,
           NEW p \in PlacesOf("interface"), p <= window.last
    PROVE  LET d == AddSetting(c, p)
           IN  /\ NewSetting(p) \in SettingTypes
               /\ d \in ConfigTypes /\ d.count = c.count /\ d.extra = c.extra
               /\ DOMAIN d.interfaces = Trees
               /\ d.interfaces[parsed] = Append(Tree(parsed), NewSetting(p))
               /\ \A j \in Trees : j # parsed => d.interfaces[j] = Tree(j)
               /\ Tree(parsed) \in Seq(SettingTypes)
               /\ p \in Nat /\ p + 1 \in 1..(window.last + 1)
               /\ Skip(p + 1) \in (p + 1)..(window.last + 1) /\ Kind(Skip(p + 1)) # "unknown"
<1>1. /\ Typed /\ blob \in Blobs /\ window.last \in 0..LastPlace /\ LastPlace \in Nat
      /\ Tree(parsed) \in Seq(SettingTypes)
    BY TypedFacts DEF BaseInv
<1>2. p \in 1..LastPlace /\ p \in Nat /\ Desc(p).type = "interface" /\ DescriptorOK(Desc(p))
    BY <1>1, BlobFacts DEF PlacesOf
<1>3. p + 1 \in 1..(window.last + 1)
    BY <1>1, <1>2
<1>4. /\ Skip(p + 1) \in (p + 1)..(window.last + 1) /\ Kind(Skip(p + 1)) # "unknown"
      /\ Skipped(p + 1) \subseteq PlacesOf("unknown")
    BY <1>1, <1>3, SkipFacts
<1>5. Desc(p).endpoints \in Nat
    BY <1>2 DEF DescriptorOK
<1>6. <<>> \in Seq(EndpointTypes)
    BY EmptySeq
<1>7. NewSetting(p) \in SettingTypes
    BY <1>4, <1>5, <1>6 DEF NewSetting, SettingTypes
<1>8. Append(Tree(parsed), NewSetting(p)) \in Seq(SettingTypes)
    BY <1>1, <1>7, AppendFacts
<1>9. AddSetting(c, p) = [c EXCEPT !.interfaces[parsed] = Append(c.interfaces[parsed], NewSetting(p))]
    BY DEF AddSetting, NewSetting
<1>10. c.interfaces[parsed] = Tree(parsed) /\ DOMAIN c.interfaces = Trees /\ \A j \in Trees : c.interfaces[j] = Tree(j)
    BY DEF Tree, Trees
<1> DEFINE t == Append(Tree(parsed), NewSetting(p))
<1>11. AddSetting(c, p) = [c EXCEPT !.interfaces[parsed] = t] /\ t \in Seq(SettingTypes)
    BY <1>8, <1>9, <1>10
<1> HIDE DEF t
<1>12. LET d == [c EXCEPT !.interfaces[parsed] = t]
       IN  /\ d \in ConfigTypes /\ d.count = c.count /\ d.extra = c.extra
           /\ DOMAIN d.interfaces = DOMAIN c.interfaces
           /\ d.interfaces[parsed] = t
           /\ \A j \in DOMAIN c.interfaces : j # parsed => d.interfaces[j] = c.interfaces[j]
    BY <1>10, <1>11, TreeChange
<1>13. QED
    BY <1>1, <1>2, <1>3, <1>4, <1>7, <1>10, <1>11, <1>12 DEF t

\* The last setting is exchanged.
LEMMA SetFacts ==
    ASSUME BaseInv, pc = "endpoints"
    PROVE  /\ Setting \in SettingTypes /\ Tree(parsed) \in Seq(SettingTypes) /\ Tree(parsed) # <<>>
           /\ Setting = Tree(parsed)[Len(Tree(parsed))] /\ parsed \in Trees /\ Setting \in SettingsOf(parsed)
           /\ \A b \in SettingTypes :
                  LET d == SetSetting(b)
                  IN  /\ d \in ConfigTypes /\ d.count = config.count /\ d.extra = config.extra
                      /\ DOMAIN d.interfaces = Trees
                      /\ d.interfaces[parsed] = [Tree(parsed) EXCEPT ![Len(Tree(parsed))] = b]
                      /\ \A j \in Trees : j # parsed => d.interfaces[j] = Tree(j)
<1>1. Parsing /\ Within
    BY DEF Parsing, Within
<1>2. Typed /\ parsed \in Trees /\ Tree(parsed) # <<>>
    BY <1>1, ParsingFacts
<1>3. Tree(parsed) \in Seq(SettingTypes) /\ config \in ConfigTypes
    BY <1>2, TypedFacts
<1>4. Setting = Tree(parsed)[Len(Tree(parsed))]
    BY DEF Setting, Tree
<1>5. Len(Tree(parsed)) \in DOMAIN Tree(parsed) /\ \A k \in DOMAIN Tree(parsed) : Tree(parsed)[k] \in SettingTypes
    BY <1>2, <1>3, SeqFacts
<1>6. Setting \in SettingTypes /\ Setting \in SettingsOf(parsed)
    BY <1>4, <1>5 DEF SettingsOf, ToSet
<1>7. ASSUME NEW b \in SettingTypes
      PROVE  LET d == SetSetting(b)
             IN  /\ d \in ConfigTypes /\ d.count = config.count /\ d.extra = config.extra
                 /\ DOMAIN d.interfaces = Trees
                 /\ d.interfaces[parsed] = [Tree(parsed) EXCEPT ![Len(Tree(parsed))] = b]
                 /\ \A j \in Trees : j # parsed => d.interfaces[j] = Tree(j)
  <2> DEFINE t == [Tree(parsed) EXCEPT ![Len(Tree(parsed))] = b]
  <2>1. t \in Seq(SettingTypes)
      BY <1>2, <1>3, <1>7, LastFacts
  <2>2. SetSetting(b) = [config EXCEPT !.interfaces[parsed] = t]
      BY DEF SetSetting, Tree
  <2>3. parsed \in DOMAIN config.interfaces
      BY <1>2 DEF Trees
  <2> HIDE DEF t
  <2>4. LET d == [config EXCEPT !.interfaces[parsed] = t]
        IN  /\ d \in ConfigTypes /\ d.count = config.count /\ d.extra = config.extra
            /\ DOMAIN d.interfaces = DOMAIN config.interfaces
            /\ d.interfaces[parsed] = t
            /\ \A j \in DOMAIN config.interfaces : j # parsed => d.interfaces[j] = config.interfaces[j]
      BY <1>3, <2>1, <2>3, TreeChange
  <2>5. QED
      BY <2>2, <2>4 DEF Tree, Trees, t
<1>8. QED
    BY <1>2, <1>3, <1>4, <1>6, <1>7

------------------------------------------------------------------------------
(* Every step keeps the types and the place of the parser *)

LEMMA BoundedPrime ==
    ASSUME BaseInv, Parsing \/ Scanning, blob' = blob, window' = window,
           NEW n \in (First + 1)..(window.last + 1), pos' = n,
           Within' => Kind(n) # "unknown", Counts'
    PROVE  Bounded'
<1>1. PlacesOf("config")' = PlacesOf("config") /\ First' = First
    BY Fixed
<1>2. Kind(pos)' = Kind(n)
    BY DEF Kind, Desc
<1>3. InBuffer
    BY DEF BaseInv, Bounded
<1>4. InBuffer'
    BY <1>1, <1>2, <1>3 DEF InBuffer
<1>5. QED
    BY <1>4 DEF Bounded

\* Nothing but the memory changes when a thread gives up or closes.
Ends == /\ pc' \in {"io_error", "refused", "crashed", "closed"} /\ heap' \subseteq heap /\ header' \in Types
        /\ UNCHANGED <<blob, window, pos, parsed, config, info, todo>>

LEMMA BaseEnds ==
    ASSUME BaseInv, Ends
    PROVE  BaseInv'
<1>1. Typed'
    BY TypedFacts, TypedPrime DEF BaseInv, Ends, Typed, TypeOK
<1>2. ~Parsing' /\ ~Scanning' /\ pc' # "start" /\ pc' # "blocks"
    BY DEF Ends, Parsing, Scanning
<1>3. QED
    BY <1>1, <1>2 DEF BaseInv, Bounded, Fresh, Streaming

\* libuvc reads the tree only.
Scans == /\ pc \in {"configuration", "parsed", "control", "streaming", "blocks"}
         /\ pc' \in {"parsed", "control", "streaming", "blocks", "open"}
         /\ UNCHANGED <<blob, window, pos, header, parsed, config>>

LEMMA BaseScans ==
    ASSUME BaseInv, Scans, info' \in InfoTypes, todo' \in TodoTypes, heap' \subseteq AllocatedTypes,
           pc = "configuration" => parsed <= config.count,
           pc' = "blocks" => info'.streams # <<>>
    PROVE  BaseInv'
<1>1. Typed'
  <2>1. pc' \in {"start", "configuration", "endpoints", "interface_done", "parsed", "control",
                 "streaming", "blocks", "open", "closed", "io_error", "refused", "crashed"}
      BY DEF Scans
  <2>2. QED
      BY <2>1, TypedFacts, TypedPrime DEF BaseInv, Scans, Typed, TypeOK
<1>2. /\ Parsing \/ Scanning
      /\ ~Parsing' /\ ~Within' /\ pc' # "start" /\ pc' # "configuration" /\ ~Within
    BY DEF Scans, Parsing, Scanning, Within
<1>3. Counts /\ InBuffer
    BY <1>2 DEF BaseInv, Bounded
<1>4. config.count \in Nat /\ parsed \in Nat /\ \A i \in Trees : i \in Nat
    BY TypedFacts DEF BaseInv
<1>5. Built' = config.count /\ Built <= config.count
    BY <1>2, <1>4 DEF Built, Scans
<1>6. \A i \in Trees : i >= config.count => Tree(i) = <<>>
    BY <1>3, <1>4, <1>5, <1>2 DEF Counts, Built
<1>7. Counts'
    BY <1>2, <1>3, <1>5, <1>6 DEF Counts, Trees, Tree, Scans
<1>8. pos \in (First + 1)..(window.last + 1)
    BY <1>3 DEF InBuffer
<1>9. Bounded'
    BY <1>2, <1>7, <1>8, BoundedPrime DEF Scans
<1>10. QED
    BY <1>1, <1>2, <1>9 DEF BaseInv, Fresh, Streaming

\* The end of the buffer, in a descriptor or not.
LEMMA BaseStops ==
    ASSUME BaseInv, ParsingDone \/ ShortConfiguration
    PROVE  BaseInv'
<1>1. CASE ParsingDone
  <2>1. Parsing /\ ~Within /\ Built = parsed
      BY <1>1 DEF ParsingDone, Parsing, Within, Built
  <2>2. parsed <= config.count
      BY <2>1, ParsingFacts DEF Counts
  <2>3. QED
      BY <1>1, <2>2, BaseScans DEF ParsingDone, Scans, BaseInv, Typed, TypeOK
<1>2. CASE ShortConfiguration
  <2>1. Loops
      BY <1>2 DEF ShortConfiguration
  <2>2. Typed /\ config \in ConfigTypes /\ parsed \in 0..USB_MAXINTERFACES /\ config.count \in Nat
      BY TypedFacts DEF BaseInv
  <2>3. config' \in ConfigTypes /\ config'.count = parsed /\ config'.interfaces = config.interfaces
      BY <1>2, <2>2 DEF ShortConfiguration, ConfigTypes
  <2>4. Typed'
      BY <1>2, <2>2, <2>3, TypedPrime DEF ShortConfiguration, Typed, TypeOK
  <2>5. Parsing /\ Counts /\ InBuffer /\ Built = parsed /\ parsed < config.count
      BY <2>1, LoopFacts, ParsingFacts
  <2>6. ~Parsing' /\ ~Within' /\ pc' # "start" /\ pc' # "blocks" /\ Built' = parsed
      BY <1>2, <2>3 DEF ShortConfiguration, Parsing, Within, Built
  <2>7. 0..(parsed - 1) \subseteq 0..(config.count - 1)
      BY <2>2, <2>5
  <2>8. Counts'
      BY <2>3, <2>5, <2>6, <2>7 DEF Counts, Trees, Tree
  <2>9. pos \in (First + 1)..(window.last + 1)
      BY <2>5 DEF InBuffer
  <2>10. Bounded'
      BY <1>2, <2>5, <2>6, <2>8, <2>9, BoundedPrime DEF ShortConfiguration
  <2>11. QED
      BY <2>4, <2>6, <2>10 DEF BaseInv, Fresh, Streaming
<1>3. QED
    BY <1>1, <1>2

\* The buffer is read, and the array of interfaces is there.
LEMMA BaseGetConfig ==
    ASSUME BaseInv, GetConfig
    PROVE  BaseInv'
<1>1. Typed /\ blob \in Blobs /\ PlacesOf("config") # {} /\ USB_MAXINTERFACES \in Nat
      /\ parsed = 0 /\ LastPlace \in Nat
    BY TypedFacts DEF BaseInv, Fresh, GetConfig
<1>2. /\ First \in Nat /\ First >= 1 /\ First \in PlacesOf("config")
      /\ Window.last \in First..LastPlace /\ Window \in [last : 0..LastPlace, piece : Pieces]
    BY <1>1, WindowFacts
<1>3. Desc(First).count \in 0..USB_MAXINTERFACES
  <2>1. DescriptorOK(Desc(First)) /\ Desc(First).type = "config"
      BY <1>1, <1>2, BlobFacts DEF PlacesOf
  <2>2. QED
      BY <2>1, <1>1 DEF DescriptorOK, GetConfig
<1> DEFINE c == Desc(First).count
           t == [i \in 0..(c - 1) |-> <<>>]
<1>4. t \in [0..(c - 1) -> Seq(SettingTypes)]
    BY EmptySeq
<1>5. t \in TreeTypes
    BY <1>3, <1>4 DEF TreeTypes
<1>6. config' = [count |-> c, extra |-> {}, interfaces |-> t]
    BY DEF GetConfig
<1>7. config' \in ConfigTypes
    BY <1>3, <1>5, <1>6 DEF ConfigTypes
<1>8. heap' \subseteq AllocatedTypes
    BY DEF GetConfig, Allocated, AllocatedTypes
<1>9. First + 1 \in 0..(LastPlace + 1)
    BY <1>1, <1>2
<1>10. Typed'
    BY <1>1, <1>2, <1>7, <1>8, <1>9, TypedPrime DEF GetConfig, Typed, TypeOK
<1>11. pc' = "configuration" /\ ~Within' /\ Built' = 0
    BY <1>1 DEF GetConfig, Within, Built
<1>12. InBuffer'
  <2>1. PlacesOf("config")' = PlacesOf("config") /\ First' = First
      BY Fixed DEF GetConfig
  <2>2. QED
      BY <1>1, <1>2, <1>11, <2>1 DEF InBuffer, GetConfig
<1>13. Counts'
    BY <1>3, <1>6, <1>11 DEF Counts, Trees, Tree
<1>14. QED
    BY <1>10, <1>11, <1>12, <1>13 DEF BaseInv, Bounded, Fresh, Streaming

\* The type that parse_configuration looks at.
LEMMA HeaderFacts ==
    ASSUME BaseInv, Loops, Kind(Skip(pos)) \notin {"low", "over"}
    PROVE  Header \in Types
<1>1. /\ Typed /\ blob \in Blobs /\ window.last \in 0..LastPlace
      /\ Skip(pos) \in 1..(window.last + 1) /\ header \in Types
    BY LoopFacts, ParsingFacts DEF Typed, TypeOK
<1>2. Kind(Skip(pos)) \in Types \cup {"none"}
    BY <1>1, KindFacts
<1>3. QED
    BY <1>1, <1>2 DEF Header, Types

LEMMA EndsWhen ==
    ASSUME BaseInv
    PROVE  /\ BadLength \/ EndpointFails \/ ScanCrashes \/ NoControl \/ ParseFails \/ NoStreaming
                 \/ FrameWithoutFormat \/ Close => Ends
           /\ NoConfig => Ends
           /\ ParseAssociation /\ pc' # pc => Ends
<1>1. header \in Types
    BY DEF BaseInv, Typed, TypeOK
<1>2. BadLength \/ EndpointFails \/ NoControl \/ ParseFails \/ Close => Ends
    BY <1>1 DEF BadLength, EndpointFails, NoControl, ParseFails, Close, Fail, Ends
<1>3. ScanCrashes \/ NoStreaming \/ FrameWithoutFormat \/ NoConfig => Ends
    BY <1>1 DEF ScanCrashes, NoStreaming, FrameWithoutFormat, Crash, NoConfig, Ends
<1>4. ASSUME ParseAssociation, pc' # pc
      PROVE  Ends
  <2>1. Header \in Types
      BY <1>4, HeaderFacts DEF ParseAssociation
  <2>2. QED
      BY <1>4, <2>1 DEF ParseAssociation, Fail, Ends
<1>5. QED
    BY <1>2, <1>3, <1>4

\* What an association that was parsed leaves.
LEMMA AssociationFacts ==
    ASSUME BaseInv, ParseAssociation, pc' = pc
    PROVE  LET q == Skip(pos)
               n == Skip(q + 1)
           IN  /\ Loops /\ Kind(q) = "association" /\ q \in 1..window.last /\ q >= pos
               /\ n \in (q + 1)..(window.last + 1) /\ Kind(n) # "unknown" /\ Kind(n) # "low" /\ pos' = n
               /\ parsed' = parsed /\ blob' = blob /\ window' = window /\ info' = info /\ todo' = todo
               /\ config' \in ConfigTypes /\ config'.count = config.count
               /\ config'.interfaces = config.interfaces
               /\ header' \in Types
               /\ heap' \subseteq heap \cup {Allocated("config_extra", 0), Allocated("associations", 0)}
<1> DEFINE q == Skip(pos)
           n == Skip(q + 1)
<1>1. Loops /\ pc = "configuration"
    BY DEF ParseAssociation, Loops
<1>2. /\ Typed /\ blob \in Blobs /\ window.last \in 0..LastPlace /\ LastPlace \in Nat
      /\ q \in 1..(window.last + 1) /\ q >= pos
    BY <1>1, LoopFacts, ParsingFacts
<1>3. Kind(q) = "association" /\ Kind(n) # "low" /\ pos' = n /\ header' = Header /\ parsed' = parsed
    BY <1>1 DEF ParseAssociation, Fail, AfterAssociation
<1>4. q <= window.last /\ q \in 1..window.last /\ q + 1 \in 1..(window.last + 1)
    BY <1>2, <1>3, KindFacts DEF Types
<1>5. /\ n \in (q + 1)..(window.last + 1) /\ Kind(n) # "unknown" /\ Skipped(q + 1) \subseteq PlacesOf("unknown")
    BY <1>2, <1>4, SkipFacts
<1> DEFINE c == SavesExtra(config)
<1>6. c \in ConfigTypes /\ c.count = config.count /\ c.interfaces = config.interfaces
    BY <1>1, LoopFacts
<1>7. /\ config' = IF Kind(n) = "over" THEN c ELSE [c EXCEPT !.extra = @ \union Skipped(q + 1)]
      /\ heap' \subseteq heap \cup {Allocated("config_extra", 0), Allocated("associations", 0)}
  <2>1. config' = LET d == SavesExtra(config)
                  IN  IF Kind(n) = "over" THEN d ELSE [d EXCEPT !.extra = @ \union ((q + 1)..(n - 1))]
      BY <1>1, <1>3 DEF ParseAssociation, Fail
  <2>2. heap' = heap \union ExtraHeap \union {Allocated("associations", 0)} \union
                         (IF config'.extra = {} THEN {} ELSE {Allocated("config_extra", 0)})
      BY <1>1, <1>3 DEF ParseAssociation, Fail
  <2>3. QED
      BY <2>1, <2>2 DEF ExtraHeap, Skipped
<1>8. config' \in ConfigTypes /\ config'.count = config.count /\ config'.interfaces = config.interfaces
  <2> HIDE DEF c, n
  <2>1. CASE Kind(n) = "over"
      BY <2>1, <1>6, <1>7
  <2>2. CASE Kind(n) # "over"
      BY <2>2, <1>5, <1>6, <1>7 DEF ConfigTypes
  <2>3. QED
      BY <2>1, <2>2
<1>9. header' \in Types
    BY <1>1, <1>3, HeaderFacts DEF Types
<1>10. QED
    BY <1>1, <1>2, <1>3, <1>4, <1>5, <1>7, <1>8, <1>9 DEF ParseAssociation

\* The memory of the tree has these types.
LEMMA AllocatedFacts ==
    \A n \in Nat : \A kind \in {"interfaces", "config_extra", "associations", "altsettings", "extra",
                                "endpoints", "stream", "controls"} : Allocated(kind, n) \in AllocatedTypes
BY DEF Allocated, AllocatedTypes

LEMMA BaseAssociation ==
    ASSUME BaseInv, ParseAssociation, pc' = pc
    PROVE  BaseInv'
<1> DEFINE n == Skip(Skip(pos) + 1)
<1>1. /\ Loops /\ Skip(pos) \in 1..window.last /\ Skip(pos) >= pos /\ n \in (Skip(pos) + 1)..(window.last + 1)
      /\ pos' = n /\ parsed' = parsed /\ blob' = blob /\ window' = window /\ info' = info /\ todo' = todo
      /\ config' \in ConfigTypes /\ config'.count = config.count /\ config'.interfaces = config.interfaces
      /\ header' \in Types
      /\ heap' \subseteq heap \cup {Allocated("config_extra", 0), Allocated("associations", 0)}
    BY AssociationFacts
<1> HIDE DEF n
<1>2. /\ Typed /\ window.last \in 0..LastPlace /\ LastPlace \in Nat /\ Parsing /\ Counts /\ InBuffer
      /\ ~Within /\ pc = "configuration" /\ Built = parsed
      /\ First \in Nat /\ pos \in Nat /\ pos > First
    BY <1>1, LoopFacts, ParsingFacts
<1>3. n \in (First + 1)..(window.last + 1) /\ n \in 0..(LastPlace + 1)
    BY <1>1, <1>2
<1>4. heap' \subseteq AllocatedTypes
    BY <1>1, <1>2, AllocatedFacts DEF Typed, TypeOK
<1>5. Typed'
    BY <1>1, <1>2, <1>3, <1>4, TypedPrime DEF Typed, TypeOK
<1>6. pc' = "configuration" /\ ~Within' /\ Built' = parsed
    BY <1>1, <1>2 DEF Within, Built
<1>7. Counts'
    BY <1>1, <1>2, <1>6 DEF Counts, Trees, Tree
<1>8. Bounded'
    BY <1>1, <1>2, <1>3, <1>6, <1>7, BoundedPrime
<1>9. QED
    BY <1>5, <1>6, <1>8 DEF BaseInv, Fresh, Streaming

LEMMA BaseNoInterface ==
    ASSUME BaseInv, NoInterface
    PROVE  BaseInv'
<1> DEFINE q == Skip(pos)
<1>1. /\ Loops /\ Kind(q) \notin {"low", "over", "interface"}
      /\ blob' = blob /\ window' = window /\ info' = info /\ todo' = todo
      /\ pos' = q /\ parsed' = parsed + 1 /\ pc' = "parsed" /\ header' = Header
    BY DEF NoInterface
<1>2. /\ Typed /\ window.last \in 0..LastPlace /\ LastPlace \in Nat /\ Parsing /\ Counts /\ InBuffer
      /\ pc = "configuration" /\ Built = parsed /\ First \in Nat /\ pos \in Nat /\ pos > First
      /\ parsed < config.count /\ parsed \in Trees
      /\ q \in 1..(window.last + 1) /\ q >= pos
      /\ SavesExtra(config) \in ConfigTypes /\ SavesExtra(config).interfaces = config.interfaces
    BY <1>1, LoopFacts, ParsingFacts
<1>3. parsed \in Nat /\ config.count \in 0..USB_MAXINTERFACES /\ USB_MAXINTERFACES \in Nat
      /\ \A i \in Trees : i \in Nat
    BY <1>2, TypedFacts
<1>4. parsed + 1 \in 0..USB_MAXINTERFACES
    BY <1>2, <1>3
<1>5. config' = [SavesExtra(config) EXCEPT !.count = parsed + 1]
    BY DEF NoInterface, Counted
<1>6. config' \in ConfigTypes /\ config'.count = parsed + 1 /\ config'.interfaces = config.interfaces
    BY <1>2, <1>4, <1>5 DEF ConfigTypes
<1>7. heap' \subseteq AllocatedTypes
  <2>1. heap' = heap \union ExtraHeap \union
                   (IF NineBytes(q) THEN {Allocated("altsettings", parsed)} ELSE {})
      BY DEF NoInterface
  <2>2. heap' \subseteq heap \cup {Allocated("config_extra", 0), Allocated("altsettings", parsed)}
      BY <2>1 DEF ExtraHeap
  <2>3. QED
      BY <1>2, <1>3, <2>2, AllocatedFacts DEF Typed, TypeOK
<1>8. q \in (First + 1)..(window.last + 1) /\ q \in 0..(LastPlace + 1) /\ Header \in Types
    BY <1>1, <1>2, HeaderFacts
<1>9. Typed'
    BY <1>1, <1>2, <1>4, <1>6, <1>7, <1>8, TypedPrime DEF Typed, TypeOK
<1>10. ~Parsing' /\ ~Within' /\ pc' # "start" /\ pc' # "blocks" /\ Built' = parsed + 1
    BY <1>1, <1>6 DEF Parsing, Within, Built
<1>11. 0..parsed \subseteq 0..(config.count - 1) /\ (parsed + 1) - 1 = parsed
    BY <1>2, <1>3
<1>12. Counts'
  <2>1. Trees' = Trees /\ \A i : Tree(i)' = Tree(i)
      BY <1>6 DEF Trees, Tree
  <2>2. \A i \in 0..(config.count - 1) : i \in Trees
      BY <1>2 DEF Counts
  <2>3. \A i \in 0..(config'.count - 1) : i \in Trees
      BY <1>6, <1>11, <2>2
  <2>4. \A i \in Trees : i >= parsed => Tree(i) = <<>>
      BY <1>2 DEF Counts
  <2>5. \A i \in Trees : i >= parsed + 1 => Tree(i) = <<>>
      BY <1>3, <2>4
  <2>6. QED
      BY <1>10, <2>1, <2>3, <2>5 DEF Counts
<1>13. Bounded'
    BY <1>1, <1>2, <1>8, <1>10, <1>12, BoundedPrime
<1>14. QED
    BY <1>9, <1>10, <1>13 DEF BaseInv, Fresh, Streaming

\* The descriptor at which parse_interface begins a setting, of a new interface or of the same.
Begun == IF pc = "configuration" THEN Skip(pos) ELSE pos
After == Skip(Begun + 1)

LEMMA BeginFacts ==
    ASSUME BaseInv, ParseInterface \/ ParseAlternate
    PROVE  /\ Parsing /\ pc \in {"configuration", "endpoints"} /\ parsed \in Trees /\ parsed < config.count
           /\ pc = "configuration" => Loops
           /\ pc = "endpoints" => ~Wanted /\ Alternates /\ Within
           /\ Begun \in PlacesOf("interface") /\ Begun \in Nat /\ Begun >= pos /\ Begun <= window.last
           /\ Kind(Begun) = "interface"
           /\ After \in (Begun + 1)..(window.last + 1) /\ Kind(After) # "unknown" /\ pos' = After
           /\ UNCHANGED <<blob, window, parsed, info, todo>> /\ header' \in Types
           /\ NewSetting(Begun) \in SettingTypes
           /\ config' \in ConfigTypes /\ config'.count = config.count
           /\ DOMAIN config'.interfaces = Trees
           /\ config'.interfaces[parsed] = Append(Tree(parsed), NewSetting(Begun))
           /\ \A j \in Trees : j # parsed => config'.interfaces[j] = Tree(j)
           /\ Tree(parsed) \in Seq(SettingTypes)
           /\ \/ /\ pc' = "io_error" /\ heap' = heap \ (InConfig(config) \union InInfo(info))
                 /\ Desc(Begun).endpoints > USB_MAXENDPOINTS \/ Kind(After) = "low"
              \/ /\ pc' = "interface_done" /\ Kind(After) = "over"
                 /\ heap' = heap \union {Allocated("altsettings", parsed)}
              \/ /\ pc' = "endpoints" /\ Kind(After) # "over" /\ Kind(After) # "low"
                 /\ ~(Desc(Begun).endpoints > USB_MAXENDPOINTS)
                 /\ heap' \subseteq heap \union {Allocated("altsettings", parsed), Allocated("extra", Begun),
                                                 Allocated("endpoints", Begun)}
<1> DEFINE c == IF pc = "configuration" THEN SavesExtra(config) ELSE config
<1>1. /\ ParseSetting(c, Begun) /\ UNCHANGED <<blob, window, parsed, info, todo>> /\ Kind(Begun) = "interface"
      /\ pc \in {"configuration", "endpoints"}
      /\ pc = "configuration" => Loops
      /\ pc = "endpoints" => ~Wanted /\ Alternates
      /\ header' \in {"interface", header}
  <2>1. CASE ParseInterface
      BY <2>1 DEF ParseInterface, Loops, Begun
  <2>2. CASE ParseAlternate
      BY <2>2 DEF ParseAlternate, Alternates, Begun
  <2>3. QED
      BY <2>1, <2>2
<1>2. Parsing /\ (pc = "endpoints" => Within)
    BY <1>1 DEF Parsing, Within
<1>3. /\ Typed /\ blob \in Blobs /\ window.last \in 0..LastPlace /\ LastPlace \in Nat /\ pos \in 1..(window.last + 1)
      /\ pos \in Nat
    BY <1>2, ParsingFacts
<1>4. /\ parsed \in Trees /\ parsed < config.count /\ c \in ConfigTypes /\ c.count = config.count
      /\ c.interfaces = config.interfaces /\ Begun \in 1..(window.last + 1) /\ Begun >= pos
    BY <1>1, <1>2, <1>3, LoopFacts, ParsingFacts, TypedFacts DEF Begun
<1>5. Begun \in PlacesOf("interface") /\ Begun \in Nat /\ Begun <= window.last
    BY <1>1, <1>3, <1>4, KindFacts DEF Types
<1> HIDE DEF c
<1>6. LET d == AddSetting(c, Begun)
      IN  /\ NewSetting(Begun) \in SettingTypes
          /\ d \in ConfigTypes /\ d.count = c.count /\ d.extra = c.extra
          /\ DOMAIN d.interfaces = Trees
          /\ d.interfaces[parsed] = Append(Tree(parsed), NewSetting(Begun))
          /\ \A j \in Trees : j # parsed => d.interfaces[j] = Tree(j)
          /\ Tree(parsed) \in Seq(SettingTypes)
          /\ Skip(Begun + 1) \in (Begun + 1)..(window.last + 1) /\ Kind(Skip(Begun + 1)) # "unknown"
    BY <1>4, <1>5, AddFacts
<1>7. config' = AddSetting(c, Begun) /\ pos' = After
    BY <1>1 DEF ParseSetting, After
<1>8. \/ /\ pc' = "io_error" /\ heap' = heap \ (InConfig(config) \union InInfo(info))
         /\ Desc(Begun).endpoints > USB_MAXENDPOINTS \/ Kind(After) = "low"
      \/ /\ pc' = "interface_done" /\ Kind(After) = "over"
         /\ heap' = heap \union {Allocated("altsettings", parsed)}
      \/ /\ pc' = "endpoints" /\ Kind(After) # "over" /\ Kind(After) # "low"
         /\ ~(Desc(Begun).endpoints > USB_MAXENDPOINTS)
         /\ heap' \subseteq heap \union {Allocated("altsettings", parsed), Allocated("extra", Begun),
                                         Allocated("endpoints", Begun)}
  <2>1. CASE Desc(Begun).endpoints > USB_MAXENDPOINTS \/ Kind(After) = "low"
      BY <1>1, <2>1 DEF ParseSetting, After, Fail
  <2>2. CASE ~(Desc(Begun).endpoints > USB_MAXENDPOINTS \/ Kind(After) = "low")
      BY <1>1, <2>2 DEF ParseSetting, After, Fail
  <2>3. QED
      BY <2>1, <2>2
<1>9. header' \in Types
    BY <1>1, <1>3 DEF Typed, TypeOK, Types
<1>10. QED
    BY <1>1, <1>2, <1>4, <1>5, <1>6, <1>7, <1>8, <1>9 DEF After

LEMMA BaseBegin ==
    ASSUME BaseInv, ParseInterface \/ ParseAlternate
    PROVE  BaseInv'
<1>1. /\ Parsing /\ parsed \in Trees /\ parsed < config.count
      /\ Begun \in Nat /\ Begun >= pos
      /\ After \in (Begun + 1)..(window.last + 1) /\ Kind(After) # "unknown" /\ pos' = After
      /\ UNCHANGED <<blob, window, parsed, info, todo>> /\ header' \in Types
      /\ NewSetting(Begun) \in SettingTypes
      /\ config' \in ConfigTypes /\ config'.count = config.count
      /\ DOMAIN config'.interfaces = Trees
      /\ config'.interfaces[parsed] = Append(Tree(parsed), NewSetting(Begun))
      /\ \A j \in Trees : j # parsed => config'.interfaces[j] = Tree(j)
      /\ Tree(parsed) \in Seq(SettingTypes)
      /\ pc' \in {"io_error", "interface_done", "endpoints"}
      /\ heap' \subseteq heap \union {Allocated("altsettings", parsed), Allocated("extra", Begun),
                                      Allocated("endpoints", Begun)}
    BY BeginFacts
<1>2. /\ Typed /\ window.last \in 0..LastPlace /\ LastPlace \in Nat /\ Counts /\ InBuffer
      /\ First \in Nat /\ pos \in Nat /\ pos > First
    BY <1>1, ParsingFacts
<1>3. parsed \in Nat /\ config.count \in Nat /\ \A i \in Trees : i \in Nat
    BY <1>2, TypedFacts
<1>4. After \in (First + 1)..(window.last + 1) /\ After \in 0..(LastPlace + 1)
    BY <1>1, <1>2
<1>5. heap' \subseteq AllocatedTypes
  <2>1. /\ Allocated("altsettings", parsed) \in AllocatedTypes
        /\ Allocated("extra", Begun) \in AllocatedTypes /\ Allocated("endpoints", Begun) \in AllocatedTypes
      BY <1>1, <1>3, AllocatedFacts
  <2>2. QED
      BY <1>1, <1>2, <2>1 DEF Typed, TypeOK
<1>6. Typed'
    BY <1>1, <1>2, <1>4, <1>5, TypedPrime DEF Typed, TypeOK
<1>7. CASE pc' = "io_error"
    BY <1>6, <1>7 DEF BaseInv, Bounded, Fresh, Streaming, Parsing, Scanning
<1>8. CASE pc' # "io_error"
  <2>1. Within' /\ ~Scanning' /\ pc' # "start" /\ pc' # "blocks" /\ Built' = parsed + 1
      BY <1>1, <1>8 DEF Within, Scanning, Built
  <2>2. Append(Tree(parsed), NewSetting(Begun)) # <<>>
      BY <1>1, AppendFacts
  <2>3. Built \in Nat /\ Built <= parsed + 1
      BY <1>1, <1>3 DEF Built, Parsing, Within
  <2>4. \A i \in Trees : i >= parsed + 1 => i # parsed /\ Tree(i) = <<>>
      BY <1>2, <1>3, <2>3 DEF Counts
  <2>5. Counts'
    <3>1. Trees' = Trees /\ \A i \in Trees : i # parsed => Tree(i)' = Tree(i)
        BY <1>1 DEF Trees, Tree
    <3>2. Tree(parsed)' # <<>> /\ parsed' = parsed
        BY <1>1, <2>2 DEF Tree
    <3>3. config'.count = config.count /\ parsed + 1 <= config.count
        BY <1>1, <1>3
    <3>4. \A i \in 0..(config.count - 1) : i \in Trees
        BY <1>2 DEF Counts
    <3>5. \A i \in Trees : i >= parsed + 1 => Tree(i)' = <<>>
        BY <2>4, <3>1
    <3>6. QED
        BY <2>1, <3>1, <3>2, <3>3, <3>4, <3>5 DEF Counts
  <2>6. Bounded'
      BY <1>1, <1>4, <2>5, BoundedPrime
  <2>7. QED
      BY <1>6, <2>1, <2>6 DEF BaseInv, Fresh, Streaming
<1>9. QED
    BY <1>7, <1>8

\* The endpoint at pos, as it is kept.
NewEndpoint ==
    [at |-> pos, extra |-> IF Kind(Skip(pos + 1)) # "over" /\ Skipped(pos + 1) # {} THEN Skipped(pos + 1) ELSE {}]
WithEndpoint == [Setting EXCEPT !.endpoints = Append(@, NewEndpoint)]

LEMMA EndpointFacts ==
    ASSUME BaseInv, ParseEndpoint
    PROVE  /\ pc = "endpoints" /\ Parsing /\ Within /\ Wanted /\ pc' = pc
           /\ pos \in PlacesOf("endpoint") /\ pos \in Nat /\ pos <= window.last /\ Kind(pos) = "endpoint"
           /\ pos' \in (pos + 1)..(window.last + 1) /\ pos' = Skip(pos + 1) /\ Kind(Skip(pos + 1)) # "unknown"
           /\ Kind(Skip(pos + 1)) # "low"
           /\ UNCHANGED <<blob, window, header, parsed, info, todo>>
           /\ NewEndpoint \in EndpointTypes /\ WithEndpoint \in SettingTypes /\ Setting \in SettingTypes
           /\ WithEndpoint.at = Setting.at /\ WithEndpoint.extra = Setting.extra
           /\ WithEndpoint.endpoints = Append(Setting.endpoints, NewEndpoint)
           /\ WithEndpoint.bNumEndpoints = Setting.bNumEndpoints /\ WithEndpoint.allocated = Setting.allocated
           /\ config' = SetSetting(WithEndpoint)
           /\ heap' \subseteq heap \union {Allocated("extra", pos)}
<1>1. /\ pc = "endpoints" /\ Parsing /\ Within /\ Wanted /\ pc' = pc /\ Kind(pos) = "endpoint"
      /\ Kind(Skip(pos + 1)) # "low" /\ UNCHANGED <<blob, window, header, parsed, info, todo>>
      /\ pos' = Skip(pos + 1)
    BY DEF ParseEndpoint, Wanted, Parsing, Within
<1>2. /\ Typed /\ blob \in Blobs /\ window.last \in 0..LastPlace /\ LastPlace \in Nat /\ pos \in 1..(window.last + 1)
      /\ pos \in Nat
    BY <1>1, ParsingFacts
<1>3. pos \in PlacesOf("endpoint") /\ pos <= window.last
    BY <1>1, <1>2, KindFacts DEF Types
<1>4. pos + 1 \in 1..(window.last + 1)
    BY <1>2, <1>3
<1>5. /\ Skip(pos + 1) \in (pos + 1)..(window.last + 1) /\ Kind(Skip(pos + 1)) # "unknown"
      /\ Skipped(pos + 1) \subseteq PlacesOf("unknown")
    BY <1>2, <1>4, SkipFacts
<1>6. Setting \in SettingTypes
    BY <1>1, SetFacts
<1>7. NewEndpoint \in EndpointTypes
    BY <1>3, <1>5 DEF NewEndpoint, EndpointTypes
<1>8. Append(Setting.endpoints, NewEndpoint) \in Seq(EndpointTypes)
    BY <1>6, <1>7, AppendFacts DEF SettingTypes
<1>9. /\ WithEndpoint \in SettingTypes
      /\ WithEndpoint.at = Setting.at /\ WithEndpoint.extra = Setting.extra
      /\ WithEndpoint.endpoints = Append(Setting.endpoints, NewEndpoint)
      /\ WithEndpoint.bNumEndpoints = Setting.bNumEndpoints /\ WithEndpoint.allocated = Setting.allocated
    BY <1>6, <1>8 DEF WithEndpoint, SettingTypes
<1>10. config' = SetSetting(WithEndpoint) /\ heap' \subseteq heap \union {Allocated("extra", pos)}
    BY DEF ParseEndpoint, WithEndpoint, NewEndpoint
<1>11. QED
    BY <1>1, <1>2, <1>3, <1>5, <1>6, <1>7, <1>9, <1>10

\* parse_interface or the array of settings goes on, with the same tree but for one setting.
LEMMA BaseSet ==
    ASSUME BaseInv, pc = "endpoints", NEW b \in SettingTypes, config' = SetSetting(b),
           NEW n \in pos..(window.last + 1), pos' = n, Kind(n) # "unknown",
           UNCHANGED <<blob, window, pc, header, parsed, info, todo>>, heap' \subseteq AllocatedTypes
    PROVE  BaseInv'
<1>1. Parsing /\ Within
    BY DEF Parsing, Within
<1>2. /\ Typed /\ window.last \in 0..LastPlace /\ LastPlace \in Nat /\ Counts /\ InBuffer
      /\ First \in Nat /\ pos \in Nat /\ pos > First
    BY <1>1, ParsingFacts
<1>3. /\ config' \in ConfigTypes /\ config'.count = config.count /\ DOMAIN config'.interfaces = Trees
      /\ config'.interfaces[parsed] = [Tree(parsed) EXCEPT ![Len(Tree(parsed))] = b]
      /\ \A j \in Trees : j # parsed => config'.interfaces[j] = Tree(j)
      /\ Tree(parsed) \in Seq(SettingTypes) /\ Tree(parsed) # <<>>
    BY SetFacts
<1>4. config'.interfaces[parsed] # <<>>
    BY <1>3, LastFacts
<1>5. n \in (First + 1)..(window.last + 1) /\ n \in 0..(LastPlace + 1)
    BY <1>2
<1>6. Typed'
    BY <1>2, <1>3, <1>5, TypedPrime DEF Typed, TypeOK
<1>7. Built' = parsed + 1 /\ Built = parsed + 1 /\ Within' /\ pc' # "start" /\ pc' # "blocks"
    BY <1>1 DEF Built, Within
<1>8. parsed \in Nat
    BY <1>2, TypedFacts
<1>9. Counts'
    BY <1>1, <1>2, <1>3, <1>4, <1>7, <1>8 DEF Counts, Trees, Tree
<1>10. Bounded'
    BY <1>1, <1>5, <1>9, BoundedPrime
<1>11. QED
    BY <1>6, <1>7, <1>10 DEF BaseInv, Fresh, Streaming

\* The endpoints that were announced but did not come are forgotten.
Shortened == [Setting EXCEPT !.bNumEndpoints = Len(Setting.endpoints)]

LEMMA MissingFacts ==
    ASSUME BaseInv, EndpointsMissing
    PROVE  /\ pc = "endpoints" /\ Parsing /\ Within /\ Wanted /\ Kind(pos) \notin {"endpoint", "none"}
           /\ UNCHANGED <<blob, window, pc, pos, header, parsed, info, todo, heap>>
           /\ Setting \in SettingTypes /\ Shortened \in SettingTypes
           /\ Shortened.at = Setting.at /\ Shortened.extra = Setting.extra
           /\ Shortened.endpoints = Setting.endpoints
           /\ config' = SetSetting(Shortened)
<1>1. /\ pc = "endpoints" /\ Parsing /\ Within /\ Wanted /\ Kind(pos) \notin {"endpoint", "none"}
      /\ UNCHANGED <<blob, window, pc, pos, header, parsed, info, todo, heap>> /\ config' = SetSetting(Shortened)
    BY DEF EndpointsMissing, Wanted, Parsing, Within, Shortened
<1>2. Setting \in SettingTypes
    BY <1>1, SetFacts
<1>3. Len(Setting.endpoints) \in Nat
    BY <1>2, SeqFacts DEF SettingTypes
<1>4. Shortened \in SettingTypes /\ Shortened.at = Setting.at /\ Shortened.extra = Setting.extra
      /\ Shortened.endpoints = Setting.endpoints
    BY <1>2, <1>3 DEF Shortened, SettingTypes
<1>5. QED
    BY <1>1, <1>2, <1>4

LEMMA BaseEndpoints ==
    ASSUME BaseInv, ParseEndpoint \/ EndpointsMissing
    PROVE  BaseInv'
<1>1. CASE ParseEndpoint
  <2>1. /\ pc = "endpoints" /\ pos \in Nat /\ pos' \in (pos + 1)..(window.last + 1) /\ Kind(Skip(pos + 1)) # "unknown"
        /\ pos' = Skip(pos + 1) /\ UNCHANGED <<blob, window, pc, header, parsed, info, todo>>
        /\ WithEndpoint \in SettingTypes /\ config' = SetSetting(WithEndpoint)
        /\ heap' \subseteq heap \union {Allocated("extra", pos)} /\ Parsing
      BY <1>1, EndpointFacts
  <2>2. window.last \in Nat
      BY <2>1, ParsingFacts
  <2>3. Skip(pos + 1) \in pos..(window.last + 1)
      BY <2>1, <2>2
  <2>4. heap' \subseteq AllocatedTypes
      BY <2>1, AllocatedFacts DEF BaseInv, Typed, TypeOK
  <2>5. QED
      BY <2>1, <2>3, <2>4, BaseSet
<1>2. CASE EndpointsMissing
  <2>1. /\ pc = "endpoints" /\ UNCHANGED <<blob, window, pc, pos, header, parsed, info, todo, heap>>
        /\ Shortened \in SettingTypes /\ config' = SetSetting(Shortened) /\ Parsing /\ Within
      BY <1>2, MissingFacts
  <2>2. pos \in pos..(window.last + 1) /\ Kind(pos) # "unknown"
      BY <2>1, ParsingFacts
  <2>3. heap' \subseteq AllocatedTypes
      BY <2>1 DEF BaseInv, Typed, TypeOK
  <2>4. QED
      BY <2>1, <2>2, <2>3, BaseSet
<1>3. QED
    BY <1>1, <1>2

LEMMA BaseInterfaceDone ==
    ASSUME BaseInv, InterfaceDone
    PROVE  BaseInv'
<1>1. /\ Parsing /\ Within /\ parsed' = parsed + 1 /\ pc' = "configuration"
      /\ UNCHANGED <<blob, window, pos, header, config, info, todo, heap>>
    BY DEF InterfaceDone, Parsing, Within
<1>2. /\ Typed /\ Counts /\ InBuffer /\ parsed < config.count
    BY <1>1, ParsingFacts
<1>3. parsed \in Nat /\ config.count \in 0..USB_MAXINTERFACES /\ USB_MAXINTERFACES \in Nat
    BY <1>2, TypedFacts
<1>4. parsed + 1 \in 0..USB_MAXINTERFACES /\ parsed + 1 <= config.count
    BY <1>2, <1>3
<1>5. Typed'
    BY <1>1, <1>2, <1>4, TypedFacts, TypedPrime DEF Typed, TypeOK
<1>6. Built' = parsed + 1 /\ Built = parsed + 1 /\ ~Within' /\ pc' # "start" /\ pc' # "blocks"
    BY <1>1 DEF Built, Within
<1>7. Counts'
    BY <1>1, <1>2, <1>4, <1>6 DEF Counts, Trees, Tree
<1>8. pos \in (First + 1)..(window.last + 1)
    BY <1>2 DEF InBuffer
<1>9. Bounded'
    BY <1>1, <1>6, <1>7, <1>8, BoundedPrime
<1>10. QED
    BY <1>5, <1>6, <1>9 DEF BaseInv, Fresh, Streaming

\* The first interface of a class and the blocks of a setting.
LEMMA SettingsFacts ==
    ASSUME BaseInv
    PROVE  /\ \A i : Settings(i) # <<>> => /\ i \in Trees /\ Settings(i) = Tree(i)
                                           /\ 1 \in DOMAIN Settings(i) /\ Settings(i)[1] \in SettingTypes
                                           /\ Settings(i)[1] \in SettingsOf(i)
           /\ Controls \subseteq Nat
           /\ Controls # {} => Min(Controls) \in Controls /\ Min(Controls) \in Nat
                               /\ Settings(Min(Controls)) # <<>>
<1>1. \A i \in Trees : Tree(i) \in Seq(SettingTypes)
    BY TypedFacts DEF BaseInv
<1>2. ASSUME NEW i, Settings(i) # <<>>
      PROVE  /\ i \in Trees /\ Settings(i) = Tree(i)
             /\ 1 \in DOMAIN Settings(i) /\ Settings(i)[1] \in SettingTypes /\ Settings(i)[1] \in SettingsOf(i)
  <2>1. i \in Trees /\ Settings(i) = Tree(i)
      BY <1>2 DEF Settings, Trees, Tree
  <2>2. Tree(i) \in Seq(SettingTypes) /\ Tree(i) # <<>>
      BY <1>1, <1>2, <2>1
  <2>3. 1 \in DOMAIN Tree(i) /\ Tree(i)[1] \in SettingTypes
      BY <2>2, SeqFacts
  <2>4. QED
      BY <2>1, <2>3 DEF SettingsOf, ToSet
<1>3. Controls \subseteq Nat
    BY DEF Controls
<1>4. Controls # {} => Min(Controls) \in Controls /\ Min(Controls) \in Nat
    BY <1>3, MinFacts
<1>5. Controls # {} => Settings(Min(Controls)) # <<>>
    BY <1>4 DEF Controls
<1>6. QED
    BY <1>2, <1>3, <1>4, <1>5

LEMMA BlockFacts ==
    ASSUME Typed
    PROVE  /\ pc = "control" /\ todo.control # {} => Block \in todo.control /\ \A b \in todo.control : Block <= b
           /\ pc = "blocks" /\ todo.stream # {} => Block \in todo.stream /\ \A b \in todo.stream : Block <= b
           /\ todo.control \subseteq PlacesOf("unknown") /\ todo.stream \subseteq PlacesOf("unknown")
           /\ PlacesOf("unknown") \subseteq Nat /\ PlacesOf("unknown") \subseteq Places
           /\ \A b \in PlacesOf("unknown") : Desc(b).subtype \in Nat
<1>1. todo.control \subseteq PlacesOf("unknown") /\ todo.stream \subseteq PlacesOf("unknown") /\ blob \in Blobs
    BY TypedFacts DEF TodoTypes
<1>2. PlacesOf("unknown") \subseteq Nat /\ PlacesOf("unknown") \subseteq Places
    BY <1>1, BlobFacts
<1>3. \A b \in PlacesOf("unknown") : Desc(b).subtype \in Nat
    BY <1>1, BlobFacts DEF PlacesOf, DescriptorOK
<1>4. pc = "control" /\ todo.control # {} => Block \in todo.control /\ \A b \in todo.control : Block <= b
    BY <1>1, <1>2, MinFacts DEF Block
<1>5. pc = "blocks" /\ todo.stream # {} => Block \in todo.stream /\ \A b \in todo.stream : Block <= b
    BY <1>1, <1>2, MinFacts DEF Block
<1>6. QED
    BY <1>1, <1>2, <1>3, <1>4, <1>5

\* The next block of the control interface.
LEMMA BaseControl ==
    ASSUME BaseInv, ScanControl \/ ParseUnit \/ ParseHeader
    PROVE  /\ BaseInv' /\ heap' = heap /\ info'.streams = info.streams /\ todo'.stream = todo.stream
           /\ pc \in {"parsed", "control"} /\ Scans
           /\ ScanControl => Settings(Min(Controls)) # <<>> /\ todo'.control = Settings(Min(Controls))[1].extra
           /\ ~ScanControl => todo'.control \subseteq todo.control
           /\ ParseHeader => /\ Block \in todo.control /\ todo.control # {} /\ KnownVersion(Block)
                             /\ todo'.queue = Desc(Block).streaming /\ pc' = "streaming"
           /\ ~ParseHeader => todo'.queue = todo.queue /\ pc' = "control"
<1>1. Typed /\ info \in InfoTypes /\ todo \in TodoTypes /\ heap \subseteq AllocatedTypes /\ blob \in Blobs
    BY TypedFacts DEF BaseInv, Typed, TypeOK
<1>2. CASE ScanControl
  <2>1. Controls # {} /\ Min(Controls) \in Nat /\ Settings(Min(Controls))[1] \in SettingTypes
        /\ Settings(Min(Controls)) # <<>>
      BY <1>2, SettingsFacts DEF ScanControl
  <2>2. info' \in InfoTypes /\ info'.streams = info.streams
      BY <1>1, <1>2, <2>1 DEF ScanControl, InfoTypes
  <2>3. todo' \in TodoTypes /\ todo'.stream = todo.stream /\ todo'.queue = todo.queue
        /\ todo'.control = Settings(Min(Controls))[1].extra
      BY <1>1, <1>2, <2>1 DEF ScanControl, TodoTypes, SettingTypes
  <2>4. Scans /\ heap' = heap /\ pc' = "control" /\ pc = "parsed"
      BY <1>2 DEF ScanControl, Scans
  <2>5. BaseInv'
      BY <1>1, <2>2, <2>3, <2>4, BaseScans
  <2>6. ~ParseHeader
      BY <2>4 DEF ParseHeader, NextBlock
  <2>7. QED
      BY <1>2, <2>1, <2>2, <2>3, <2>4, <2>5, <2>6
<1>3. CASE ParseUnit
  <2>1. pc = "control" /\ todo.control # {} /\ heap' = heap /\ Scans /\ pc' = pc
      BY <1>3 DEF ParseUnit, NextBlock, Scans
  <2>2. Block \in todo.control /\ Block \in Places /\ todo.control \subseteq PlacesOf("unknown")
      BY <1>1, <2>1, BlockFacts
  <2>3. info' \in InfoTypes /\ info'.streams = info.streams
      BY <1>1, <1>3, <2>2 DEF ParseUnit, InfoTypes
  <2>4. todo' = [todo EXCEPT !.control = todo.control \ {Min(todo.control)}]
      BY <1>3 DEF ParseUnit, RestOf
  <2>5. todo' \in TodoTypes /\ todo'.stream = todo.stream /\ todo'.queue = todo.queue
        /\ todo'.control \subseteq todo.control
      BY <1>1, <2>4 DEF TodoTypes
  <2>6. BaseInv'
      BY <1>1, <2>1, <2>3, <2>5, BaseScans
  <2>7. ~ScanControl /\ ~ParseHeader
      BY <1>3, <2>1 DEF ParseHeader, ScanControl, ParseUnit
  <2>8. QED
      BY <2>1, <2>3, <2>5, <2>6, <2>7
<1>4. CASE ParseHeader
  <2>1. pc = "control" /\ todo.control # {} /\ heap' = heap /\ Scans /\ pc' = "streaming" /\ info' = info
        /\ KnownVersion(Block)
      BY <1>4 DEF ParseHeader, NextBlock, Scans
  <2>2. Block \in todo.control /\ Block \in PlacesOf("unknown")
      BY <1>1, <2>1, BlockFacts
  <2>3. DescriptorOK(Desc(Block)) /\ Desc(Block).type = "unknown"
      BY <1>1, <2>2, BlobFacts DEF PlacesOf
  <2>4. Desc(Block).streaming \in Seq(Nat)
      BY <2>1, <2>3 DEF KnownVersion, DescriptorOK
  <2>5. todo' = [todo EXCEPT !.control = todo.control \ {Min(todo.control)}, !.queue = Desc(Block).streaming]
      BY <1>4 DEF ParseHeader, RestOf
  <2>6. todo' \in TodoTypes /\ todo'.stream = todo.stream /\ todo'.queue = Desc(Block).streaming
        /\ todo'.control \subseteq todo.control
      BY <1>1, <2>4, <2>5 DEF TodoTypes
  <2>7. BaseInv'
      BY <1>1, <2>1, <2>6, BaseScans
  <2>8. ~ScanControl
      BY <2>1 DEF ScanControl
  <2>9. QED
      BY <1>4, <2>1, <2>2, <2>6, <2>7, <2>8
<1>5. QED
    BY <1>2, <1>3, <1>4

\* Scanning goes on without a block.
LEMMA BaseGoesOn ==
    ASSUME BaseInv, StreamsScanned \/ StreamScanned \/ ScanDone
    PROVE  BaseInv' /\ Scans /\ UNCHANGED <<info, todo, heap>> /\ Scanning /\ Scanning'
<1>1. /\ Scans /\ UNCHANGED <<info, todo, heap>> /\ pc # "configuration" /\ pc' # "blocks"
      /\ Scanning /\ Scanning'
    BY DEF StreamsScanned, StreamScanned, ScanDone, Scans, Scanning
<1>2. QED
    BY <1>1, TypedFacts, BaseScans DEF BaseInv, Typed, TypeOK

\* The next streaming interface.
Scanned1 == Settings(Head(todo.queue))[1]
NewStream == [at |-> Scanned1.at, number |-> Desc(Scanned1.at).number, controls |-> 0, formats |-> <<>>]

LEMMA StreamingFacts ==
    ASSUME BaseInv, ScanStreaming
    PROVE  /\ BaseInv' /\ Scans /\ pc = "streaming" /\ pc' = "blocks"
           /\ todo.queue # <<>> /\ Settings(Head(todo.queue)) # <<>> /\ Scanned1 \in SettingTypes
           /\ todo'.queue = Tail(todo.queue) /\ todo'.stream = StreamBlocks(Scanned1)
           /\ todo'.control = todo.control
           /\ NewStream \in StreamTypes /\ info.streams \in Seq(StreamTypes)
           /\ info'.streams = Append(info.streams, NewStream)
           /\ heap' = heap \cup {Allocated("stream", Len(info.streams) + 1)}
<1>1. Typed /\ info \in InfoTypes /\ todo \in TodoTypes /\ heap \subseteq AllocatedTypes /\ blob \in Blobs
    BY TypedFacts DEF BaseInv, Typed, TypeOK
<1>2. /\ pc = "streaming" /\ pc' = "blocks" /\ Scans /\ todo.queue # <<>> /\ Settings(Head(todo.queue)) # <<>>
      /\ todo' = [todo EXCEPT !.queue = Tail(todo.queue), !.stream = StreamBlocks(Scanned1)]
      /\ info' = [info EXCEPT !.streams = Append(info.streams, NewStream)]
      /\ heap' = heap \union {Allocated("stream", Len(info'.streams))}
    BY DEF ScanStreaming, Scans, Scanned1, NewStream
<1>3. Scanned1 \in SettingTypes
    BY <1>2, SettingsFacts DEF Scanned1
<1>4. StreamBlocks(Scanned1) \subseteq PlacesOf("unknown")
  <2>1. /\ Scanned1.extra \subseteq PlacesOf("unknown") /\ Scanned1.endpoints \in Seq(EndpointTypes)
      BY <1>3 DEF SettingTypes
  <2>2. Scanned1.endpoints # <<>> => Scanned1.endpoints[1] \in EndpointTypes
      BY <2>1, SeqFacts
  <2>3. QED
      BY <2>1, <2>2 DEF StreamBlocks, EndpointTypes
<1>5. Tail(todo.queue) \in Seq(Nat)
    BY <1>1, <1>2, HeadTailProperties DEF TodoTypes
<1>6. todo' \in TodoTypes /\ todo'.queue = Tail(todo.queue) /\ todo'.stream = StreamBlocks(Scanned1)
      /\ todo'.control = todo.control
    BY <1>1, <1>2, <1>4, <1>5 DEF TodoTypes
<1>7. Scanned1.at \in PlacesOf("interface")
    BY <1>3 DEF SettingTypes
<1>8. Scanned1.at \in Places /\ Desc(Scanned1.at).number \in Nat
    BY <1>1, <1>7, BlobFacts DEF PlacesOf, DescriptorOK
<1>9. NewStream \in StreamTypes
  <2>1. <<>> \in Seq(FormatTypes)
      BY EmptySeq
  <2>2. QED
      BY <1>8, <2>1 DEF NewStream, StreamTypes
<1>10. info.streams \in Seq(StreamTypes)
    BY <1>1 DEF InfoTypes
<1>11. /\ Append(info.streams, NewStream) \in Seq(StreamTypes) /\ Append(info.streams, NewStream) # <<>>
       /\ Len(Append(info.streams, NewStream)) = Len(info.streams) + 1 /\ Len(info.streams) \in Nat
    BY <1>9, <1>10, AppendFacts, SeqFacts
<1>12. info' \in InfoTypes /\ info'.streams = Append(info.streams, NewStream)
    BY <1>1, <1>2, <1>11 DEF InfoTypes
<1>13. heap' = heap \cup {Allocated("stream", Len(info.streams) + 1)} /\ heap' \subseteq AllocatedTypes
    BY <1>1, <1>2, <1>11, <1>12, AllocatedFacts
<1>14. BaseInv'
    BY <1>2, <1>6, <1>11, <1>12, <1>13, BaseScans
<1>15. QED
    BY <1>2, <1>3, <1>6, <1>9, <1>10, <1>12, <1>13, <1>14

\* A frame is added to the last format.
LEMMA AddFrameFacts ==
    ASSUME NEW fs \in Seq(FormatTypes), fs # <<>>, NEW f \in Places
    PROVE  LET g == [fs[Len(fs)] EXCEPT !.frames = Append(@, f)]
           IN  /\ AddFrame(fs, f) = [fs EXCEPT ![Len(fs)] = g] /\ AddFrame(fs, f) \in Seq(FormatTypes)
               /\ g \in FormatTypes /\ g.at = fs[Len(fs)].at /\ g.frames = Append(fs[Len(fs)].frames, f)
<1> DEFINE g == [fs[Len(fs)] EXCEPT !.frames = Append(@, f)]
<1>1. fs[Len(fs)] \in FormatTypes
    BY SeqFacts
<1>2. Append(fs[Len(fs)].frames, f) \in Seq(Places)
    BY <1>1, AppendFacts DEF FormatTypes
<1>3. g \in FormatTypes /\ g.at = fs[Len(fs)].at /\ g.frames = Append(fs[Len(fs)].frames, f)
    BY <1>1, <1>2 DEF FormatTypes
<1>4. AddFrame(fs, f) = [fs EXCEPT ![Len(fs)] = g]
    BY DEF AddFrame
<1> HIDE DEF g
<1>5. [fs EXCEPT ![Len(fs)] = g] \in Seq(FormatTypes)
    BY <1>3, LastFacts
<1>6. QED
    BY <1>3, <1>4, <1>5 DEF g

\* The last stream is exchanged.
LEMMA StreamChange ==
    ASSUME Typed, info.streams # <<>>, NEW s \in StreamTypes, SetStream(s)
    PROVE  /\ info' \in InfoTypes /\ info'.streams = [info.streams EXCEPT ![Len(info.streams)] = s]
           /\ info'.streams # <<>> /\ info.streams \in Seq(StreamTypes)
<1>1. info \in InfoTypes /\ info.streams \in Seq(StreamTypes)
    BY TypedFacts DEF InfoTypes
<1> DEFINE t == [info.streams EXCEPT ![Len(info.streams)] = s]
<1>2. t \in Seq(StreamTypes) /\ t # <<>>
    BY <1>1, LastFacts
<1>3. info' = [info EXCEPT !.streams = t]
    BY DEF SetStream
<1> HIDE DEF t
<1>4. info' \in InfoTypes /\ info'.streams = t
    BY <1>1, <1>2, <1>3 DEF InfoTypes
<1>5. QED
    BY <1>1, <1>2, <1>4 DEF t

\* What a block does to the stream.
BlockStep(s) ==
    \/ /\ Desc(Block).subtype = 1
       /\ s = [Stream EXCEPT !.controls = Block] /\ heap' = heap \cup {Allocated("controls", Block)}
    \/ /\ Desc(Block).subtype \in Formats /\ heap' = heap
       /\ s = [Stream EXCEPT !.formats = Append(Stream.formats, [at |-> Block, frames |-> <<>>])]
    \/ /\ Desc(Block).subtype \in FrameSizes /\ Stream.formats # <<>> /\ heap' = heap
       /\ s = [Stream EXCEPT !.formats = AddFrame(Stream.formats, Block)]
    \/ /\ Desc(Block).subtype \notin ({1} \union Formats \union FrameSizes) /\ heap' = heap
       /\ s = Stream

LEMMA StreamBlockFacts ==
    ASSUME BaseInv, ParseStreamBlock
    PROVE  /\ BaseInv' /\ Scans /\ pc = "blocks" /\ pc' = "blocks"
           /\ todo.stream # {} /\ Block \in todo.stream /\ Block \in Places /\ Block \in Nat
           /\ \A b \in todo.stream : Block <= b
           /\ todo'.stream = todo.stream \ {Block}
           /\ todo'.control = todo.control /\ todo'.queue = todo.queue
           /\ info.streams \in Seq(StreamTypes) /\ info.streams # <<>> /\ Stream \in StreamTypes
           /\ Stream = info.streams[Len(info.streams)]
           /\ \E s \in StreamTypes : /\ BlockStep(s)
                                     /\ info'.streams = [info.streams EXCEPT ![Len(info.streams)] = s]
<1>1. Typed /\ info \in InfoTypes /\ todo \in TodoTypes /\ heap \subseteq AllocatedTypes /\ blob \in Blobs
    BY TypedFacts DEF BaseInv, Typed, TypeOK
<1>2. /\ pc = "blocks" /\ pc' = "blocks" /\ Scans /\ todo.stream # {}
      /\ todo' = [todo EXCEPT !.stream = todo.stream \ {Min(todo.stream)}]
    BY DEF ParseStreamBlock, ParseInputHeader, ParseFormat, ParseFrame, ParseOther, StreamBlock, Scans, RestOf
<1>3. Block = Min(todo.stream)
    BY <1>2 DEF Block
<1>4. /\ Block \in todo.stream /\ Block \in Places /\ Block \in Nat /\ (\A b \in todo.stream : Block <= b)
      /\ Desc(Block).subtype \in Nat
    BY <1>1, <1>2, BlockFacts
<1>5. todo' \in TodoTypes /\ todo'.stream = todo.stream \ {Block}
      /\ todo'.control = todo.control /\ todo'.queue = todo.queue
    BY <1>1, <1>2, <1>3 DEF TodoTypes
<1>6. info.streams # <<>> /\ info.streams \in Seq(StreamTypes)
    BY <1>1, <1>2 DEF BaseInv, Streaming, InfoTypes
<1>7. Stream \in StreamTypes /\ Stream = info.streams[Len(info.streams)] /\ Stream.formats \in Seq(FormatTypes)
  <2>1. info.streams[Len(info.streams)] \in StreamTypes
      BY <1>6, SeqFacts
  <2>2. QED
      BY <2>1 DEF Stream, StreamTypes
<1>8. \E s \in StreamTypes : /\ BlockStep(s) /\ info' \in InfoTypes
                             /\ info'.streams = [info.streams EXCEPT ![Len(info.streams)] = s]
  <2>1. CASE ParseInputHeader
    <3> DEFINE s == [Stream EXCEPT !.controls = Block]
    <3>1. s \in StreamTypes
        BY <1>4, <1>7 DEF StreamTypes
    <3>2. SetStream(s) /\ BlockStep(s)
        BY <2>1 DEF ParseInputHeader, StreamBlock, BlockStep
    <3>3. QED
        BY <1>1, <1>6, <3>1, <3>2, StreamChange
  <2>2. CASE ParseFormat
    <3> DEFINE g == [at |-> Block, frames |-> <<>>]
               s == [Stream EXCEPT !.formats = Append(Stream.formats, g)]
    <3>1. g \in FormatTypes
        BY <1>4, EmptySeq DEF FormatTypes
    <3>2. Append(Stream.formats, g) \in Seq(FormatTypes)
        BY <1>7, <3>1, AppendFacts
    <3>3. s \in StreamTypes
        BY <1>7, <3>2 DEF StreamTypes
    <3>4. SetStream(s) /\ BlockStep(s)
        BY <2>2 DEF ParseFormat, StreamBlock, BlockStep
    <3>5. QED
        BY <1>1, <1>6, <3>3, <3>4, StreamChange
  <2>3. CASE ParseFrame
    <3> DEFINE s == [Stream EXCEPT !.formats = AddFrame(Stream.formats, Block)]
    <3>1. Stream.formats # <<>>
        BY <2>3 DEF ParseFrame
    <3>2. AddFrame(Stream.formats, Block) \in Seq(FormatTypes)
        BY <1>4, <1>7, <3>1, AddFrameFacts
    <3>3. s \in StreamTypes
        BY <1>7, <3>2 DEF StreamTypes
    <3>4. SetStream(s) /\ BlockStep(s)
        BY <2>3 DEF ParseFrame, StreamBlock, BlockStep
    <3>5. QED
        BY <1>1, <1>6, <3>3, <3>4, StreamChange
  <2>4. CASE ParseOther
    <3>1. BlockStep(Stream)
        BY <2>4 DEF ParseOther, StreamBlock, BlockStep
    <3>2. info.streams = [info.streams EXCEPT ![Len(info.streams)] = Stream]
      <4>1. Len(info.streams) \in DOMAIN info.streams
          BY <1>6, SeqFacts
      <4>2. \A k \in DOMAIN info.streams : info.streams[k] = [info.streams EXCEPT ![Len(info.streams)] = Stream][k]
          BY <1>7, <4>1
      <4>3. /\ [info.streams EXCEPT ![Len(info.streams)] = Stream] \in Seq(StreamTypes)
            /\ Len([info.streams EXCEPT ![Len(info.streams)] = Stream]) = Len(info.streams)
          BY <1>6, <1>7, LastFacts
      <4>4. DOMAIN info.streams = 1..Len(info.streams)
          BY <1>6, SeqFacts
      <4>5. QED
          BY <1>6, <4>2, <4>3, <4>4, SeqEqual
    <3>3. info' = info
        BY <2>4 DEF ParseOther
    <3>4. info' \in InfoTypes
        BY <1>1, <3>3
    <3>5. QED
        BY <1>7, <3>1, <3>2, <3>3, <3>4
  <2>5. QED
      BY <2>1, <2>2, <2>3, <2>4 DEF ParseStreamBlock
<1>9. heap' \subseteq AllocatedTypes
    BY <1>1, <1>4, <1>8, AllocatedFacts DEF BlockStep
<1>10. info'.streams # <<>>
    BY <1>6, <1>8, LastFacts
<1>11. BaseInv'
    BY <1>2, <1>5, <1>8, <1>9, <1>10, BaseScans
<1>12. QED
    BY <1>2, <1>4, <1>5, <1>6, <1>7, <1>8, <1>11

LEMMA BaseInit ==
    ASSUME Init
    PROVE  BaseInv
<1>1. blob \in Blobs /\ LastPlace \in Nat /\ USB_MAXINTERFACES \in Nat
    BY BlobFacts, BlobAssumption DEF Init
<1>2. config.interfaces \in [0..(0 - 1) -> Seq(SettingTypes)]
    BY DEF Init
<1>3. \E n \in 0..USB_MAXINTERFACES : config.interfaces \in [0..(n - 1) -> Seq(SettingTypes)]
    BY <1>1, <1>2
<1>4. <<>> \in Seq(StreamTypes) /\ <<>> \in Seq(Nat)
    BY EmptySeq
<1>5. info \in InfoTypes /\ todo \in TodoTypes
    BY <1>4 DEF Init, InfoTypes, TodoTypes
<1>6. config \in [count : 0..USB_MAXINTERFACES, interfaces : {config.interfaces}, extra : SUBSET PlacesOf("unknown")]
    BY <1>1 DEF Init
<1>7. TypeOK
  <2>1. window \in [last : 0..LastPlace, piece : Pieces] /\ pos \in 0..(LastPlace + 1)
        /\ parsed \in 0..USB_MAXINTERFACES
      BY <1>1 DEF Init, Pieces
  <2>2. header \in Types /\ pc = "start" /\ heap = {}
      BY DEF Init, Types
  <2>3. QED
      BY <1>3, <1>5, <1>6, <2>1, <2>2, Zenon DEF TypeOK
<1>8. QED
    BY <1>1, <1>7 DEF Init, BaseInv, Typed, Bounded, Fresh, Streaming, Parsing, Scanning

LEMMA BaseStep ==
    ASSUME BaseInv, [Next]_vars
    PROVE  BaseInv'
<1>1. CASE Ended \/ UNCHANGED vars
  <2>1. UNCHANGED vars
      BY <1>1 DEF Ended
  <2>2. /\ blob' = blob /\ window' = window /\ pc' = pc /\ pos' = pos /\ header' = header /\ parsed' = parsed
        /\ config' = config /\ info' = info /\ todo' = todo /\ heap' = heap
      BY <2>1 DEF vars
  <2>3. Typed'
      BY <2>2, TypedFacts, TypedPrime DEF BaseInv, Typed, TypeOK
  <2>4. Fresh' /\ Streaming'
      BY <2>2 DEF BaseInv, Fresh, Streaming
  <2>5. ASSUME Parsing \/ Scanning
        PROVE  Bounded'
    <3>1. InBuffer /\ Counts
        BY <2>5 DEF BaseInv, Bounded
    <3>2. Counts'
        BY <2>2, <3>1 DEF Counts, Trees, Tree, Built, Parsing, Within
    <3>3. pos \in (First + 1)..(window.last + 1) /\ (Within' => Kind(pos) # "unknown")
        BY <2>2, <3>1 DEF InBuffer, Within
    <3>4. QED
        BY <2>2, <2>5, <3>2, <3>3, BoundedPrime
  <2>6. ASSUME ~(Parsing \/ Scanning)
        PROVE  Bounded'
      BY <2>2, <2>6 DEF Bounded, Parsing, Scanning
  <2>7. QED
      BY <2>3, <2>4, <2>5, <2>6 DEF BaseInv
<1>2. CASE \/ NoConfig \/ BadLength \/ EndpointFails \/ ScanCrashes \/ NoControl \/ ParseFails \/ NoStreaming
           \/ FrameWithoutFormat \/ Close
    BY <1>2, EndsWhen, BaseEnds
<1>3. CASE GetConfig
    BY <1>3, BaseGetConfig
<1>4. CASE ParsingDone \/ ShortConfiguration
    BY <1>4, BaseStops
<1>5. CASE ParseAssociation
    BY <1>5, EndsWhen, BaseEnds, BaseAssociation
<1>6. CASE NoInterface
    BY <1>6, BaseNoInterface
<1>7. CASE ParseInterface \/ ParseAlternate
    BY <1>7, BaseBegin
<1>8. CASE ParseEndpoint \/ EndpointsMissing
    BY <1>8, BaseEndpoints
<1>9. CASE InterfaceDone
    BY <1>9, BaseInterfaceDone
<1>10. CASE ScanControl \/ ParseUnit \/ ParseHeader
    BY <1>10, BaseControl
<1>11. CASE ScanStreaming
    BY <1>11, StreamingFacts
<1>12. CASE StreamsScanned \/ StreamScanned \/ ScanDone
    BY <1>12, BaseGoesOn
<1>13. CASE ParseStreamBlock
    BY <1>13, StreamBlockFacts
<1>14. QED
    BY <1>1, <1>2, <1>3, <1>4, <1>5, <1>6, <1>7, <1>8, <1>9, <1>10, <1>11, <1>12, <1>13
    DEF Next, ParseConfiguration, GetDeviceInfo

LEMMA BaseAlways == Spec => []BaseInv
<1>1. Init => BaseInv
    BY BaseInit
<1>2. BaseInv /\ [Next]_vars => BaseInv'
    BY BaseStep
<1>3. QED
    BY <1>1, <1>2, PTL DEF Spec

\* The variables have their types whatever the bytes are: every place that is kept is one of a
\* descriptor of its type, and the interfaces fit the array.
THEOREM TypeCorrect == Spec => []TypeOK
<1>1. BaseInv => TypeOK
    BY DEF BaseInv, Typed
<1>2. QED
    BY <1>1, BaseAlways, PTL

------------------------------------------------------------------------------
(* What follows a descriptor *)

LEMMA WindowPlaces ==
    ASSUME blob \in Blobs, window.last \in 0..LastPlace, PlacesOf("config") # {}
    PROVE  /\ InWindow = (First + 1)..window.last /\ InWindow \subseteq Nat /\ InWindow \subseteq Places
           /\ Interfaces = {p \in InWindow : Desc(p).type = "interface"} /\ Interfaces \subseteq Nat
           /\ First \in Nat /\ window.last \in Nat
<1>1. First \in Nat /\ First >= 1 /\ LastPlace \in Nat /\ Places = 1..LastPlace /\ window.last \in Nat
    BY WindowFacts, BlobFacts
<1>2. InWindow = (First + 1)..window.last
    BY <1>1 DEF InWindow
<1>3. QED
    BY <1>1, <1>2 DEF Interfaces, In, InWindow

\* The loop that skips stops behind the blocks that follow.
LEMMA FollowingIs ==
    ASSUME blob \in Blobs, window.last \in 0..LastPlace, PlacesOf("config") # {},
           NEW p \in First..window.last
    PROVE  Following(p) = Skipped(p + 1) /\ Following(p) \subseteq PlacesOf("unknown")
<1>1. /\ First \in Nat /\ First >= 1 /\ window.last \in Nat /\ InWindow = (First + 1)..window.last
    BY WindowPlaces, WindowFacts
<1>2. p + 1 \in 1..(window.last + 1) /\ p \in Nat
    BY <1>1
<1> DEFINE s == Skip(p + 1)
<1>3. /\ s \in (p + 1)..(window.last + 1) /\ Kind(s) # "unknown"
      /\ \A q \in (p + 1)..(s - 1) : q <= window.last /\ q \in Places /\ Desc(q).type = "unknown"
      /\ Skipped(p + 1) \subseteq PlacesOf("unknown") /\ Skipped(p + 1) = (p + 1)..(s - 1)
    BY <1>2, SkipFacts DEF Skipped
<1> HIDE DEF s
<1>4. ASSUME NEW q \in (p + 1)..(s - 1)
      PROVE  q \in Following(p)
  <2>1. q \in InWindow /\ p < q
      BY <1>1, <1>2, <1>3
  <2>2. \A r \in (p + 1)..q : r \in (p + 1)..(s - 1)
      BY <1>2, <1>3
  <2>3. QED
      BY <1>3, <2>1, <2>2 DEF Following
<1>5. ASSUME NEW q \in Following(p)
      PROVE  q \in (p + 1)..(s - 1)
  <2>1. q \in InWindow /\ p < q /\ \A r \in (p + 1)..q : Desc(r).type = "unknown"
      BY DEF Following
  <2>2. q \in Nat /\ q <= window.last
      BY <1>1, <2>1
  <2>3. CASE q >= s
    <3>1. s \in (p + 1)..q /\ s <= window.last
        BY <1>2, <1>3, <2>2, <2>3
    <3>2. Kind(s) = "unknown"
        BY <2>1, <3>1 DEF Kind
    <3>3. QED
        BY <1>3, <3>2
  <2>4. QED
      BY <1>2, <1>3, <2>1, <2>2, <2>3
<1>6. QED
    BY <1>3, <1>4, <1>5

\* The endpoints of a setting are those before the next setting or association.
LEMMA EndpointsAre ==
    ASSUME blob \in Blobs, window.last \in 0..LastPlace, PlacesOf("config") # {}, NEW p \in Nat
    PROVE  \A q : q \in EndpointsOf(p) <=>
                  /\ q \in InWindow /\ p < q /\ Desc(q).type = "endpoint"
                  /\ \A r \in (p + 1)..q : r \in InWindow => Desc(r).type \notin {"interface", "association"}
<1>1. InWindow \subseteq Nat /\ InWindow = (First + 1)..window.last /\ window.last \in Nat /\ First \in Nat
    BY WindowPlaces
<1> DEFINE T == {q \in InWindow : q > p /\ Desc(q).type \in {"interface", "association"}} \union {window.last + 1}
           m == Min(T)
<1>2. NextKnown(p, {"interface", "association"}) = m
    BY DEF NextKnown
<1>3. T \subseteq Nat /\ T # {}
    BY <1>1
<1>4. m \in T /\ \A y \in T : m <= y
    BY <1>3, MinFacts
<1>5. m \in Nat
    BY <1>3, <1>4
<1>6. ASSUME NEW q \in EndpointsOf(p)
      PROVE  /\ q \in InWindow /\ p < q /\ Desc(q).type = "endpoint"
             /\ \A r \in (p + 1)..q : r \in InWindow => Desc(r).type \notin {"interface", "association"}
  <2>1. q \in InWindow /\ p < q /\ q < m /\ Desc(q).type = "endpoint"
      BY <1>2 DEF EndpointsOf, Between
  <2>2. ASSUME NEW r \in (p + 1)..q, r \in InWindow, Desc(r).type \in {"interface", "association"}
        PROVE  FALSE
    <3>1. r \in T
        BY <2>2
    <3>2. m <= r /\ r <= q /\ q \in Nat
        BY <1>1, <1>4, <2>1, <3>1
    <3>3. QED
        BY <1>5, <2>1, <3>2
  <2>3. QED
      BY <2>1, <2>2
<1>7. ASSUME NEW q, q \in InWindow, p < q, Desc(q).type = "endpoint",
             \A r \in (p + 1)..q : r \in InWindow => Desc(r).type \notin {"interface", "association"}
      PROVE  q \in EndpointsOf(p)
  <2>1. q \in Nat /\ q <= window.last
      BY <1>1, <1>7
  <2>2. ASSUME NEW y \in T
        PROVE  q < y
    <3>1. CASE y = window.last + 1
        BY <1>1, <2>1, <3>1
    <3>2. CASE y # window.last + 1
      <4>1. y \in InWindow /\ y > p /\ Desc(y).type \in {"interface", "association"} /\ y \in Nat
          BY <1>1, <3>2
      <4>2. y \notin (p + 1)..q
          BY <1>7, <4>1
      <4>3. QED
          BY <2>1, <4>1, <4>2
    <3>3. QED
        BY <3>1, <3>2
  <2>3. q < m
      BY <1>4, <2>2
  <2>4. QED
      BY <1>2, <1>7, <2>3 DEF EndpointsOf, Between
<1>8. QED
    BY <1>6, <1>7

------------------------------------------------------------------------------
(* The tree of libusb is a prefix of the bytes *)

TreeInv == Parsing \/ Scanning => InPlace /\ Elements

LEMMA LiveFacts ==
    ASSUME BaseInv, Parsing \/ Scanning
    PROVE  /\ Typed /\ blob \in Blobs /\ window.last \in 0..LastPlace /\ LastPlace \in Nat
           /\ InBuffer /\ Counts /\ PlacesOf("config") # {}
           /\ First \in Nat /\ pos \in Nat /\ pos \in (First + 1)..(window.last + 1)
           /\ InWindow = (First + 1)..window.last /\ InWindow \subseteq Nat /\ InWindow \subseteq Places
           /\ Interfaces = {p \in InWindow : Desc(p).type = "interface"} /\ window.last \in Nat
           /\ Interfaces \subseteq Nat
           /\ \A i \in Trees : Tree(i) \in Seq(SettingTypes) /\ i \in Nat
           /\ \A i \in Trees : \A a \in SettingsOf(i) : a \in SettingTypes /\ a.at \in Nat
           /\ \A i \in Trees : \A a \in SettingsOf(i) : /\ a.endpoints \in Seq(EndpointTypes)
                                                       /\ \A e \in ToSet(a.endpoints) : e \in EndpointTypes /\ e.at \in Nat
           /\ \A i \in Trees : \A k \in DOMAIN Tree(i) : Tree(i)[k] \in SettingsOf(i)
           /\ \A i \in Trees : Tree(i) # <<>> => 1 \in DOMAIN Tree(i) /\ Len(Tree(i)) \in DOMAIN Tree(i)
<1>1. Typed /\ InBuffer /\ Counts
    BY DEF BaseInv, Bounded
<1>2. /\ blob \in Blobs /\ window.last \in 0..LastPlace /\ LastPlace \in Nat /\ PlacesOf("config") # {}
      /\ \A i \in Trees : Tree(i) \in Seq(SettingTypes) /\ i \in Nat
    BY <1>1, TypedFacts DEF InBuffer
<1>3. /\ InWindow = (First + 1)..window.last /\ InWindow \subseteq Nat /\ InWindow \subseteq Places
      /\ Interfaces = {p \in InWindow : Desc(p).type = "interface"} /\ First \in Nat /\ window.last \in Nat
      /\ Interfaces \subseteq Nat
    BY <1>2, WindowPlaces
<1>4. pos \in (First + 1)..(window.last + 1) /\ pos \in Nat
    BY <1>1, <1>3 DEF InBuffer
<1>5. ASSUME NEW i \in Trees
      PROVE  /\ \A a \in SettingsOf(i) : a \in SettingTypes /\ a.at \in Nat
             /\ \A k \in DOMAIN Tree(i) : Tree(i)[k] \in SettingsOf(i)
             /\ Tree(i) # <<>> => 1 \in DOMAIN Tree(i) /\ Len(Tree(i)) \in DOMAIN Tree(i)
  <2>1. SettingsOf(i) \subseteq SettingTypes /\ (Tree(i) # <<>> => 1 \in DOMAIN Tree(i) /\ Len(Tree(i)) \in DOMAIN Tree(i))
      BY <1>2, SeqFacts DEF SettingsOf
  <2>2. \A a \in SettingsOf(i) : a.at \in PlacesOf("interface")
      BY <2>1 DEF SettingTypes
  <2>3. \A k \in DOMAIN Tree(i) : Tree(i)[k] \in SettingsOf(i)
      BY DEF SettingsOf, ToSet
  <2>4. QED
      BY <1>2, <2>1, <2>2, <2>3, BlobFacts
<1>6. ASSUME NEW i \in Trees, NEW a \in SettingsOf(i)
      PROVE  a.endpoints \in Seq(EndpointTypes) /\ \A e \in ToSet(a.endpoints) : e \in EndpointTypes /\ e.at \in Nat
  <2>1. a.endpoints \in Seq(EndpointTypes)
      BY <1>5 DEF SettingTypes
  <2>2. ToSet(a.endpoints) \subseteq EndpointTypes
      BY <2>1, SeqFacts
  <2>3. PlacesOf("endpoint") \subseteq Nat
      BY <1>2, BlobFacts
  <2>4. QED
      BY <2>1, <2>2, <2>3 DEF EndpointTypes
<1>7. QED
    BY <1>1, <1>2, <1>3, <1>4, <1>5, <1>6

\* The same tree, and no interface between the place of the parser and its next one.
LEMMA SameTree ==
    ASSUME BaseInv, TreeInv, Parsing \/ Scanning, blob' = blob, window' = window,
           config'.interfaces = config.interfaces, NEW n \in pos..(window.last + 1), pos' = n,
           \A r \in pos..(n - 1) : Desc(r).type # "interface", pc' # "endpoints"
    PROVE  TreeInv'
<1>1. InPlace /\ Elements
    BY DEF TreeInv
<1>2. /\ pos \in Nat /\ Interfaces \subseteq Nat /\ InWindow \subseteq Nat /\ window.last \in Nat
      /\ Interfaces = {p \in InWindow : Desc(p).type = "interface"}
      /\ \A i \in Trees : \A a \in SettingsOf(i) : a \in SettingTypes /\ a.at \in Nat
    BY LiveFacts
<1>3. /\ Interfaces' = Interfaces /\ (\A p : Following(p)' = Following(p) /\ EndpointsOf(p)' = EndpointsOf(p))
      /\ \A p : Desc(p)' = Desc(p)
    BY Fixed, FixedWindow
<1>4. Trees' = Trees /\ (\A i : Tree(i)' = Tree(i)) /\ (\A i : SettingsOf(i)' = SettingsOf(i))
    BY DEF Trees, Tree, SettingsOf
<1>5. Placed' = Placed
    BY <1>4 DEF Placed
<1>6. \A q \in Interfaces : q < n <=> q < pos
    BY <1>2
<1>7. InPlace'
    BY <1>1, <1>3, <1>4, <1>5, <1>6, Zenon DEF InPlace
<1>8. ASSUME NEW i \in Trees, NEW a \in SettingsOf(i)
      PROVE  /\ Saved(a.extra, a.at)
             /\ \A e \in ToSet(a.endpoints) : e.at \in EndpointsOf(a.at) /\ e.at < n /\ Saved(e.extra, e.at)
             /\ Desc(a.at).number = Desc(Tree(i)[1].at).number
  <2>1. SettingOK(a) /\ Desc(a.at).number = Desc(Tree(i)[1].at).number
      BY <1>1 DEF Elements
  <2>3. \A e \in ToSet(a.endpoints) : e.at \in Nat
      BY LiveFacts
  <2>4. \A e \in ToSet(a.endpoints) : e.at < n
      BY <1>2, <2>1, <2>3 DEF SettingOK
  <2>5. QED
      BY <2>1, <2>4 DEF SettingOK
<1>9. Elements'
    BY <1>3, <1>4, <1>8 DEF Elements, SettingOK, Saved
<1>10. QED
    BY <1>7, <1>9 DEF TreeInv

\* The tree is empty at first.
LEMMA TreeGetConfig ==
    ASSUME BaseInv, GetConfig
    PROVE  TreeInv'
<1>1. /\ config'.interfaces = [i \in 0..(Desc(First).count - 1) |-> <<>>] /\ pos' = First + 1
      /\ pc' = "configuration" /\ blob' = blob
    BY DEF GetConfig
<1>2. First \in Nat /\ First' = First
    BY WindowFacts, Fixed DEF GetConfig, BaseInv, Typed
<1>3. \A i \in Trees' : Tree(i)' = <<>>
    BY <1>1 DEF Trees, Tree
<1>4. \A i \in Trees' : SettingsOf(i)' = {}
    BY <1>3 DEF SettingsOf, ToSet
<1>5. Placed' = {}
    BY <1>4 DEF Placed
<1>6. {q \in Interfaces' : q < pos'} = {}
  <2>1. Places' \subseteq Nat
      BY <1>1, Fixed, BlobFacts DEF BaseInv, Typed
  <2>2. Interfaces' \subseteq Nat /\ \A q \in Interfaces' : First < q
      BY <2>1, <1>2 DEF Interfaces, In, InWindow
  <2>3. \A q \in Interfaces' : ~(q < First + 1)
      BY <1>2, <2>2
  <2>4. QED
      BY <1>1, <2>3, Zenon
<1>7. InPlace'
  <2>1. DOMAIN <<>> = {}
      OBVIOUS
  <2>2. \A i \in Trees' : DOMAIN Tree(i)' = {}
      BY <1>3, <2>1
  <2>3. QED
      BY <1>1, <1>4, <1>5, <1>6, <2>2 DEF InPlace
<1>8. Elements'
    BY <1>4 DEF Elements
<1>9. QED
    BY <1>7, <1>8 DEF TreeInv

\* A setting is added: it is the next interface descriptor, and what follows it is saved.
LEMMA TreeBegin ==
    ASSUME BaseInv, TreeInv, ParseInterface \/ ParseAlternate
    PROVE  TreeInv'
<1> SUFFICES ASSUME pc' # "io_error"
             PROVE  TreeInv'
    BY BeginFacts DEF TreeInv, Parsing, Scanning
<1> DEFINE p == Begun
           s == NewSetting(p)
           t == Append(Tree(parsed), s)
<1>1. /\ Parsing /\ parsed \in Trees /\ pc \in {"configuration", "endpoints"}
      /\ pc = "configuration" => Loops
      /\ pc = "endpoints" => ~Wanted /\ Alternates /\ Within
      /\ p \in PlacesOf("interface") /\ p \in Nat /\ p >= pos /\ p <= window.last
      /\ After \in (p + 1)..(window.last + 1) /\ Kind(After) # "unknown" /\ pos' = After
      /\ blob' = blob /\ window' = window /\ parsed' = parsed
      /\ s \in SettingTypes /\ DOMAIN config'.interfaces = Trees
      /\ config'.interfaces[parsed] = t
      /\ \A j \in Trees : j # parsed => config'.interfaces[j] = Tree(j)
      /\ Tree(parsed) \in Seq(SettingTypes)
      /\ pc' \in {"interface_done", "endpoints"}
    BY BeginFacts
<1>2. /\ blob \in Blobs /\ window.last \in 0..LastPlace /\ PlacesOf("config") # {} /\ Counts
      /\ First \in Nat /\ pos \in Nat /\ pos \in (First + 1)..(window.last + 1)
      /\ InWindow = (First + 1)..window.last /\ InWindow \subseteq Nat /\ window.last \in Nat
      /\ Interfaces = {q \in InWindow : Desc(q).type = "interface"} /\ Interfaces \subseteq Nat
      /\ \A i \in Trees : Tree(i) \in Seq(SettingTypes) /\ i \in Nat
      /\ \A i \in Trees : \A a \in SettingsOf(i) : a \in SettingTypes /\ a.at \in Nat
    BY <1>1, LiveFacts
<1>3. InPlace /\ Elements
    BY <1>1 DEF TreeInv
<1>4. p \in InWindow /\ p \in Interfaces /\ p \in First..window.last /\ p + 1 \in 1..(window.last + 1)
    BY <1>1, <1>2 DEF PlacesOf
<1>5. \A r \in pos..(p - 1) : Desc(r).type = "unknown"
  <2>1. CASE pc = "configuration"
    <3>1. p = Skip(pos)
        BY <2>1 DEF Begun
    <3>2. pos \in 1..(window.last + 1)
        BY <1>2
    <3>3. QED
        BY <1>2, <3>1, <3>2, SkipFacts
  <2>2. CASE pc # "configuration"
    <3>1. p = pos
        BY <2>2 DEF Begun
    <3>2. pos..(p - 1) = {}
        BY <1>2, <3>1
    <3>3. QED
        BY <3>2
  <2>3. QED
      BY <2>1, <2>2
<1>6. \A r \in (p + 1)..(After - 1) : Desc(r).type = "unknown"
    BY <1>2, <1>4, SkipFacts DEF After
<1>7. \A q \in Interfaces : q < After <=> q < pos \/ q = p
  <2> SUFFICES ASSUME NEW q \in Interfaces
               PROVE  q < After <=> q < pos \/ q = p
      OBVIOUS
  <2>1. q \in Nat /\ Desc(q).type = "interface"
      BY <1>2
  <2>2. q \notin pos..(p - 1) /\ q \notin (p + 1)..(After - 1)
      BY <1>5, <1>6, <2>1
  <2>3. QED
      BY <1>1, <1>2, <2>1, <2>2
<1>8. /\ t \in Seq(SettingTypes) /\ DOMAIN t = 1..(Len(Tree(parsed)) + 1)
      /\ \A k \in 1..Len(Tree(parsed)) : t[k] = Tree(parsed)[k]
      /\ t[Len(Tree(parsed)) + 1] = s /\ ToSet(t) = SettingsOf(parsed) \cup {s} /\ t # <<>>
      /\ DOMAIN Tree(parsed) = 1..Len(Tree(parsed)) /\ Len(Tree(parsed)) \in Nat /\ Len(t) = Len(Tree(parsed)) + 1
    BY <1>1, AppendFacts, SeqFacts DEF SettingsOf
<1>9. s.at = p /\ s.endpoints = <<>> /\ s.extra = (IF Kind(After) = "over" THEN {} ELSE Skipped(p + 1))
    BY DEF NewSetting, After
<1> HIDE DEF p, s, t
<1>10. /\ Interfaces' = Interfaces /\ (\A q : Following(q)' = Following(q) /\ EndpointsOf(q)' = EndpointsOf(q))
       /\ \A q : Desc(q)' = Desc(q)
    BY <1>1, Fixed, FixedWindow
<1>11. /\ Trees' = Trees /\ \A i \in Trees : Tree(i)' = (IF i = parsed THEN t ELSE Tree(i))
       /\ \A i \in Trees : SettingsOf(i)' = (IF i = parsed THEN SettingsOf(i) \cup {s} ELSE SettingsOf(i))
  <2>1. Trees' = Trees /\ \A i \in Trees : Tree(i)' = (IF i = parsed THEN t ELSE Tree(i))
      BY <1>1 DEF Trees, Tree
  <2>2. QED
      BY <2>1, <1>8 DEF SettingsOf
<1>12. \A i \in Trees : i > parsed => SettingsOf(i) = {}
  <2>1. \A i \in Trees : i > parsed => i >= Built
      BY <1>1, <1>2 DEF Built, Within
  <2>2. \A i \in Trees : i > parsed => Tree(i) = <<>>
      BY <1>2, <2>1 DEF Counts
  <2>3. QED
      BY <2>2 DEF SettingsOf, ToSet
<1>13. \A i \in Trees : \A a \in SettingsOf(i) : a.at \in Interfaces /\ a.at < pos /\ a.at < p
  <2>1. \A i \in Trees : \A a \in SettingsOf(i) : a.at \in Placed
      BY DEF Placed
  <2>2. QED
      BY <1>1, <1>2, <1>3, <2>1 DEF InPlace
<1>14. Placed' = {q \in Interfaces' : q < pos'}
  <2>1. Placed' = Placed \cup {p}
      BY <1>1, <1>9, <1>11 DEF Placed
  <2>2. QED
      BY <1>1, <1>3, <1>4, <1>7, <1>10, <2>1 DEF InPlace
<1>15. \A i, j \in Trees : i < j => \A a \in SettingsOf(i)', b \in SettingsOf(j)' : a.at < b.at
  <2> SUFFICES ASSUME NEW i \in Trees, NEW j \in Trees, i < j, NEW a \in SettingsOf(i)', NEW b \in SettingsOf(j)'
               PROVE  a.at < b.at
      OBVIOUS
  <2>1. SettingsOf(j)' # {}
      OBVIOUS
  <2>2. i # parsed
      BY <1>2, <1>11, <1>12
  <2>3. a \in SettingsOf(i)
      BY <1>11, <2>2
  <2>4. CASE b \in SettingsOf(j)
      BY <1>3, <2>3, <2>4 DEF InPlace
  <2>5. CASE b \notin SettingsOf(j)
      BY <1>9, <1>11, <1>13, <2>3, <2>5
  <2>6. QED
      BY <2>4, <2>5
<1>16. \A i \in Trees : \A k, l \in DOMAIN Tree(i)' : k < l => Tree(i)'[k].at < Tree(i)'[l].at
  <2>1. ASSUME NEW k \in DOMAIN t, NEW l \in DOMAIN t, k < l
        PROVE  t[k].at < t[l].at
    <3>1. k \in 1..Len(Tree(parsed)) /\ k \in DOMAIN Tree(parsed) /\ t[k] = Tree(parsed)[k]
        BY <1>8, <2>1
    <3>2. CASE l \in DOMAIN Tree(parsed)
        BY <1>1, <1>3, <1>8, <2>1, <3>1, <3>2 DEF InPlace
    <3>3. CASE l \notin DOMAIN Tree(parsed)
      <4>1. t[l] = s
          BY <1>8, <3>3
      <4>2. Tree(parsed)[k] \in SettingsOf(parsed)
          BY <3>1 DEF SettingsOf, ToSet
      <4>3. QED
          BY <1>1, <1>9, <1>13, <3>1, <4>1, <4>2
    <3>4. QED
        BY <3>2, <3>3
  <2>2. QED
      BY <1>3, <1>11, <2>1 DEF InPlace
<1>17. ASSUME pc' = "endpoints"
       PROVE  Setting' = s
  <2>1. Setting' = LET as == config'.interfaces[parsed'] IN as[Len(as)]
      BY DEF Setting
  <2>2. Setting' = t[Len(t)]
      BY <1>1, <2>1
  <2>3. QED
      BY <1>8, <2>2
<1>18. pc' = "endpoints" => \A r \in (Setting'.at + 1)..(pos' - 1) : Desc(r)'.type \notin {"interface", "association"}
    BY <1>1, <1>6, <1>9, <1>10, <1>17
<1>19. InPlace'
    BY <1>11, <1>14, <1>15, <1>16, <1>18, Zenon DEF InPlace
<1>20. Saved(s.extra, s.at)
  <2>1. Following(p) = Skipped(p + 1)
      BY <1>2, <1>4, FollowingIs
  <2>2. Kind(After) = "over" => window.piece = "header"
    <3>1. Kind(After) = "over" => After \notin 1..window.last
      <4>1. ASSUME After \in 1..window.last
            PROVE  Kind(After) # "over"
        <5>1. After \in Places /\ Kind(After) = Desc(After).type
            BY <4>1, <1>2, BlobFacts DEF Kind
        <5>2. QED
            BY <5>1, <1>2, BlobFacts DEF Types
      <4>2. QED
          BY <4>1
    <3>2. QED
        BY <3>1, <1>1, <1>2 DEF Kind
  <2>3. QED
      BY <1>9, <2>1, <2>2 DEF Saved
<1>21. ASSUME NEW i \in Trees, NEW a \in SettingsOf(i)'
       PROVE  /\ Saved(a.extra, a.at)
              /\ \A e \in ToSet(a.endpoints) : e.at \in EndpointsOf(a.at) /\ e.at < After /\ Saved(e.extra, e.at)
              /\ Desc(a.at).number = Desc(Tree(i)'[1].at).number
  <2>1. CASE a \in SettingsOf(i)
    <3>1. SettingOK(a) /\ Desc(a.at).number = Desc(Tree(i)[1].at).number
        BY <1>3, <2>1 DEF Elements
    <3>2. \A e \in ToSet(a.endpoints) : e.at \in Nat
        BY <1>1, <2>1, LiveFacts
    <3>3. \A e \in ToSet(a.endpoints) : e.at < After
        BY <1>1, <1>2, <3>1, <3>2 DEF SettingOK
    <3>4. Tree(i) # <<>>
        BY <2>1, SeqFacts DEF SettingsOf, ToSet
    <3>5. Tree(i)'[1] = Tree(i)[1]
      <4>1. CASE i = parsed
        <5>1. Len(Tree(parsed)) > 0
            BY <1>1, <3>4, <4>1, SeqFacts
        <5>2. QED
            BY <1>8, <1>11, <4>1, <5>1
      <4>2. CASE i # parsed
          BY <1>11, <4>2
      <4>3. QED
          BY <4>1, <4>2
    <3>6. QED
        BY <3>1, <3>3, <3>5 DEF SettingOK
  <2>2. CASE a \notin SettingsOf(i)
    <3>1. i = parsed /\ a = s
        BY <1>11, <2>2
    <3>2. ToSet(s.endpoints) = {}
        BY <1>9 DEF ToSet
    <3>3. Desc(s.at).number = Desc(t[1].at).number
      <4>1. CASE pc = "configuration"
        <5>1. Tree(parsed) = <<>>
            BY <1>1, <4>1, LoopFacts
        <5>2. t[1] = s
            BY <1>8, <5>1, LenProperties, EmptySeq
        <5>3. QED
            BY <5>2
      <4>2. CASE pc = "endpoints"
        <5>1. Tree(parsed) # <<>> /\ Alternates
            BY <1>1, <4>2, ParsingFacts
        <5>2. t[1] = Tree(parsed)[1]
            BY <1>1, <1>8, <5>1, SeqFacts
        <5>3. Desc(pos).number = Desc(Tree(parsed)[1].at).number /\ p = pos
            BY <5>1, <4>2 DEF Alternates, IsSame, Tree, p, Begun
        <5>4. QED
            BY <1>9, <5>2, <5>3
      <4>3. QED
          BY <1>1, <4>1, <4>2
    <3>4. QED
        BY <1>11, <1>20, <3>1, <3>2, <3>3
  <2>3. QED
      BY <2>1, <2>2
<1>22. Elements'
    BY <1>1, <1>10, <1>11, <1>21 DEF Elements, SettingOK, Saved
<1>23. QED
    BY <1>19, <1>22 DEF TreeInv

\* The last setting is exchanged for one at the same place.
LEMMA TreeSet ==
    ASSUME BaseInv, TreeInv, pc = "endpoints", NEW b \in SettingTypes, config' = SetSetting(b),
           b.at = Setting.at, b.extra = Setting.extra,
           NEW n \in pos..(window.last + 1), pos' = n, UNCHANGED <<blob, window, pc, parsed>>,
           \A r \in pos..(n - 1) : Desc(r).type \notin {"interface", "association"},
           \A e \in ToSet(b.endpoints) :
               e \in ToSet(Setting.endpoints) \/
               (e.at \in EndpointsOf(Setting.at) /\ e.at < n /\ Saved(e.extra, e.at))
    PROVE  /\ TreeInv'
           /\ Trees' = Trees /\ \A i \in Trees : \A a \in SettingsOf(i)' : a = b \/ a \in SettingsOf(i)
           /\ \A i \in Trees : i = parsed => b \in SettingsOf(i)'
           /\ Setting' = b /\ Placed' = Placed
           /\ \A i \in Trees : \A a \in SettingsOf(i)' : a # b => a \in SettingsOf(i) /\ a # Setting
           /\ \A i \in Trees : Tree(i) # <<>> => Tree(i)' # <<>> /\ Tree(i)'[1].at = Tree(i)[1].at
<1> DEFINE s == Tree(parsed)
           t == [s EXCEPT ![Len(s)] = b]
<1>1. /\ Parsing /\ Within /\ parsed \in Trees /\ s # <<>> /\ s \in Seq(SettingTypes)
      /\ Setting = s[Len(s)] /\ Setting \in SettingTypes /\ Setting \in SettingsOf(parsed)
      /\ DOMAIN config'.interfaces = Trees
      /\ config'.interfaces[parsed] = t
      /\ \A j \in Trees : j # parsed => config'.interfaces[j] = Tree(j)
    BY SetFacts DEF Parsing, Within
<1>2. /\ pos \in Nat /\ InWindow \subseteq Nat /\ window.last \in Nat
      /\ Interfaces = {q \in InWindow : Desc(q).type = "interface"} /\ Interfaces \subseteq Nat
      /\ \A i \in Trees : Tree(i) \in Seq(SettingTypes) /\ i \in Nat
      /\ \A i \in Trees : \A a \in SettingsOf(i) : a \in SettingTypes /\ a.at \in Nat
      /\ \A i \in Trees : \A k \in DOMAIN Tree(i) : Tree(i)[k] \in SettingsOf(i)
    BY <1>1, LiveFacts
<1>3. InPlace /\ Elements
    BY <1>1 DEF TreeInv
<1>4. /\ t \in Seq(SettingTypes) /\ Len(t) = Len(s) /\ t # <<>> /\ DOMAIN t = DOMAIN s
      /\ \A k \in DOMAIN s : t[k] = IF k = Len(s) THEN b ELSE s[k]
      /\ Len(s) \in DOMAIN s
      /\ \A y \in ToSet(t) : y = b \/ y \in ToSet(s)
      /\ DOMAIN s = 1..Len(s) /\ Len(s) \in Nat
    BY <1>1, LastFacts, SeqFacts
<1> HIDE DEF t
<1>5. \A k \in DOMAIN s : t[k].at = s[k].at
    BY <1>1, <1>4
<1>6. {a.at : a \in ToSet(t)} = {a.at : a \in ToSet(s)}
    BY <1>4, <1>5 DEF ToSet
<1>7. b \in ToSet(t)
    BY <1>4 DEF ToSet
<1>8. /\ Interfaces' = Interfaces /\ (\A q : Following(q)' = Following(q) /\ EndpointsOf(q)' = EndpointsOf(q))
      /\ \A q : Desc(q)' = Desc(q)
    BY Fixed, FixedWindow
<1>9. /\ Trees' = Trees /\ \A i \in Trees : Tree(i)' = (IF i = parsed THEN t ELSE Tree(i))
      /\ \A i \in Trees : SettingsOf(i)' = (IF i = parsed THEN ToSet(t) ELSE SettingsOf(i))
  <2>1. Trees' = Trees /\ \A i \in Trees : Tree(i)' = (IF i = parsed THEN t ELSE Tree(i))
      BY <1>1 DEF Trees, Tree
  <2>2. QED
      BY <2>1 DEF SettingsOf
<1>10. \A i \in Trees : {a.at : a \in SettingsOf(i)'} = {a.at : a \in SettingsOf(i)}
    BY <1>6, <1>9 DEF SettingsOf
<1>11. Placed' = Placed
    BY <1>9, <1>10 DEF Placed
<1>12. \A q \in Interfaces : q < n <=> q < pos
  <2> SUFFICES ASSUME NEW q \in Interfaces
               PROVE  q < n <=> q < pos
      OBVIOUS
  <2>1. q \in Nat /\ Desc(q).type = "interface"
      BY <1>2
  <2>2. q \notin pos..(n - 1)
      BY <2>1
  <2>3. QED
      BY <1>2, <2>1, <2>2
<1>13. \A i, j \in Trees : i < j => \A a \in SettingsOf(i)', c \in SettingsOf(j)' : a.at < c.at
  <2> SUFFICES ASSUME NEW i \in Trees, NEW j \in Trees, i < j, NEW a \in SettingsOf(i)', NEW c \in SettingsOf(j)'
               PROVE  a.at < c.at
      OBVIOUS
  <2>1. PICK x \in SettingsOf(i) : x.at = a.at
      BY <1>10
  <2>2. PICK y \in SettingsOf(j) : y.at = c.at
      BY <1>10
  <2>3. x.at < y.at
      BY <1>3 DEF InPlace
  <2>4. QED
      BY <2>1, <2>2, <2>3
<1>14. \A i \in Trees : \A k, l \in DOMAIN Tree(i)' : k < l => Tree(i)'[k].at < Tree(i)'[l].at
  <2>1. \A k, l \in DOMAIN s : k < l => s[k].at < s[l].at
      BY <1>1, <1>3 DEF InPlace
  <2>2. \A k, l \in DOMAIN t : k < l => t[k].at < t[l].at
      BY <1>4, <1>5, <2>1
  <2>3. QED
      BY <1>3, <1>9, <2>2 DEF InPlace
<1>15. Setting' = b
  <2>1. Setting' = LET as == config'.interfaces[parsed'] IN as[Len(as)]
      BY DEF Setting
  <2>2. Setting' = t[Len(t)]
      BY <1>1, <2>1
  <2>3. QED
      BY <1>4, <2>2
<1>16. \A r \in (b.at + 1)..(n - 1) : Desc(r).type \notin {"interface", "association"}
  <2>1. Setting.at \in Nat /\ \A r \in (Setting.at + 1)..(pos - 1) : Desc(r).type \notin {"interface", "association"}
      BY <1>1, <1>2, <1>3 DEF InPlace
  <2>2. \A r \in (b.at + 1)..(n - 1) : r \in (Setting.at + 1)..(pos - 1) \/ r \in pos..(n - 1)
      BY <1>2, <2>1
  <2>3. QED
      BY <2>1, <2>2
<1>17. InPlace'
    BY <1>3, <1>8, <1>9, <1>11, <1>12, <1>13, <1>14, <1>15, <1>16, Zenon DEF InPlace
<1>18. ASSUME NEW i \in Trees, NEW a \in SettingsOf(i)'
       PROVE  /\ Saved(a.extra, a.at)
              /\ \A e \in ToSet(a.endpoints) : e.at \in EndpointsOf(a.at) /\ e.at < n /\ Saved(e.extra, e.at)
              /\ Desc(a.at).number = Desc(Tree(i)'[1].at).number
  <2>1. Tree(i) # <<>> /\ Tree(i)'[1].at = Tree(i)[1].at
    <3>1. CASE i = parsed
      <4>1. 1 \in DOMAIN s
          BY <1>1, SeqFacts
      <4>2. QED
          BY <1>1, <1>5, <1>9, <3>1, <4>1
    <3>2. CASE i # parsed
      <4>1. a \in SettingsOf(i)
          BY <1>9, <3>2
      <4>2. Tree(i) # <<>>
          BY <4>1 DEF SettingsOf, ToSet
      <4>3. QED
          BY <1>9, <3>2, <4>2
    <3>3. QED
        BY <3>1, <3>2
  <2>2. ASSUME NEW x \in SettingsOf(i)
        PROVE  /\ SettingOK(x) /\ Desc(x.at).number = Desc(Tree(i)[1].at).number
               /\ \A e \in ToSet(x.endpoints) : e.at < n
    <3>1. SettingOK(x) /\ Desc(x.at).number = Desc(Tree(i)[1].at).number
        BY <1>3 DEF Elements
    <3>2. \A e \in ToSet(x.endpoints) : e.at \in Nat
        BY <1>1, LiveFacts
    <3>3. QED
        BY <1>2, <3>1, <3>2 DEF SettingOK
  <2>3. CASE a \in SettingsOf(i)
      BY <2>1, <2>2, <2>3 DEF SettingOK
  <2>4. CASE a \notin SettingsOf(i)
    <3>1. i = parsed /\ a = b
        BY <1>4, <1>9, <2>4 DEF SettingsOf
    <3>2. /\ SettingOK(Setting) /\ Desc(Setting.at).number = Desc(Tree(i)[1].at).number
          /\ \A e \in ToSet(Setting.endpoints) : e.at < n
        BY <1>1, <2>2, <3>1
    <3>3. QED
        BY <2>1, <3>1, <3>2 DEF SettingOK
  <2>5. QED
      BY <2>3, <2>4
<1>19. Elements'
    BY <1>8, <1>9, <1>18 DEF Elements, SettingOK, Saved
<1>20. ASSUME NEW i \in Trees, NEW a \in SettingsOf(i)', a # b
       PROVE  a \in SettingsOf(i) /\ a # Setting
  <2>1. CASE i = parsed
    <3>1. PICK k \in DOMAIN t : a = t[k]
        BY <1>9, <2>1 DEF ToSet
    <3>2. k \in DOMAIN s /\ k # Len(s) /\ a = s[k] /\ k < Len(s)
        BY <1>4, <1>20, <3>1
    <3>3. s[k].at < s[Len(s)].at
        BY <1>1, <1>3, <1>4, <3>2 DEF InPlace
    <3>4. s[k] \in SettingsOf(parsed) /\ s[k].at \in Nat
        BY <1>1, <1>2, <3>2
    <3>5. QED
        BY <1>1, <2>1, <3>2, <3>3, <3>4
  <2>2. CASE i # parsed
    <3>1. a \in SettingsOf(i)
        BY <1>9, <2>2
    <3>2. a.at < Setting.at \/ Setting.at < a.at
      <4>1. i < parsed \/ parsed < i
          BY <1>1, <1>2, <2>2
      <4>2. QED
          BY <1>1, <1>3, <3>1, <4>1 DEF InPlace
    <3>3. QED
        BY <1>1, <1>2, <3>1, <3>2
  <2>3. QED
      BY <2>1, <2>2
<1>21. ASSUME NEW i \in Trees, Tree(i) # <<>>
       PROVE  Tree(i)' # <<>> /\ Tree(i)'[1].at = Tree(i)[1].at
  <2>1. CASE i = parsed
    <3>1. 1 \in DOMAIN s
        BY <1>1, SeqFacts
    <3>2. QED
        BY <1>4, <1>5, <1>9, <2>1, <3>1
  <2>2. CASE i # parsed
      BY <1>9, <1>21, <2>2
  <2>3. QED
      BY <2>1, <2>2
<1>22. \A i \in Trees : \A a \in SettingsOf(i)' : a = b \/ a \in SettingsOf(i)
    BY <1>20
<1>23. \A i \in Trees : i = parsed => b \in SettingsOf(i)'
    BY <1>7, <1>9
<1>24. TreeInv'
    BY <1>17, <1>19 DEF TreeInv
<1>25. QED
    BY <1>9, <1>11, <1>15, <1>20, <1>21, <1>22, <1>23, <1>24

LEMMA TreeEndpoint ==
    ASSUME BaseInv, TreeInv, ParseEndpoint
    PROVE  /\ TreeInv'
           /\ pos \in EndpointsOf(Setting.at) /\ NewEndpoint.at = pos
           /\ Saved(NewEndpoint.extra, pos) /\ (window.piece # "header" => NewEndpoint.extra = Following(pos))
           /\ ToSet(WithEndpoint.endpoints) = ToSet(Setting.endpoints) \cup {NewEndpoint}
           /\ \A r \in pos..(pos' - 1) : Desc(r).type \notin {"interface", "association"}
           /\ \A r \in (pos + 1)..(pos' - 1) : Desc(r).type = "unknown"
<1>1. /\ pc = "endpoints" /\ Parsing
      /\ pos \in PlacesOf("endpoint") /\ pos \in Nat /\ pos <= window.last
      /\ pos' \in (pos + 1)..(window.last + 1) /\ pos' = Skip(pos + 1)
      /\ UNCHANGED <<blob, window, pc, parsed>>
      /\ NewEndpoint \in EndpointTypes /\ WithEndpoint \in SettingTypes /\ Setting \in SettingTypes
      /\ WithEndpoint.at = Setting.at /\ WithEndpoint.extra = Setting.extra
      /\ WithEndpoint.endpoints = Append(Setting.endpoints, NewEndpoint)
      /\ config' = SetSetting(WithEndpoint)
    BY EndpointFacts
<1>2. /\ blob \in Blobs /\ window.last \in 0..LastPlace /\ PlacesOf("config") # {}
      /\ First \in Nat /\ pos \in (First + 1)..(window.last + 1)
      /\ InWindow = (First + 1)..window.last /\ InWindow \subseteq Nat /\ window.last \in Nat
    BY <1>1, LiveFacts
<1>3. InPlace /\ Elements
    BY <1>1 DEF TreeInv
<1>4. Setting.at \in Nat /\ Setting.at < pos /\ parsed \in Trees /\ Setting \in SettingsOf(parsed)
  <2>1. Setting \in SettingsOf(parsed) /\ parsed \in Trees
      BY <1>1, SetFacts
  <2>2. Setting.at \in Placed
      BY <2>1 DEF Placed
  <2>3. QED
      BY <1>1, <1>3, <2>1, <2>2, LiveFacts DEF InPlace
<1>5. Desc(pos).type = "endpoint" /\ pos \in InWindow
    BY <1>1, <1>2 DEF PlacesOf
<1>6. pos \in EndpointsOf(Setting.at)
  <2>1. \A r \in (Setting.at + 1)..(pos - 1) : Desc(r).type \notin {"interface", "association"}
      BY <1>1, <1>3 DEF InPlace
  <2>2. \A r \in (Setting.at + 1)..pos : r \in (Setting.at + 1)..(pos - 1) \/ r = pos
      BY <1>1, <1>4
  <2>3. \A r \in (Setting.at + 1)..pos : Desc(r).type \notin {"interface", "association"}
      BY <1>5, <2>1, <2>2
  <2>4. QED
      BY <1>2, <1>4, <1>5, <2>3, EndpointsAre
<1>7. \A r \in (pos + 1)..(pos' - 1) : Desc(r).type = "unknown"
  <2>1. pos + 1 \in 1..(window.last + 1)
      BY <1>1, <1>2
  <2>2. QED
      BY <1>1, <1>2, <2>1, SkipFacts
<1>8. \A r \in pos..(pos' - 1) : Desc(r).type \notin {"interface", "association"}
  <2>1. \A r \in pos..(pos' - 1) : r = pos \/ r \in (pos + 1)..(pos' - 1)
      BY <1>1, <1>2
  <2>2. QED
      BY <1>5, <1>7, <2>1
<1>9. Following(pos) = Skipped(pos + 1)
  <2>1. pos \in First..window.last
      BY <1>1, <1>2
  <2>2. QED
      BY <1>2, <2>1, FollowingIs
<1>10. Kind(Skip(pos + 1)) = "over" => window.piece = "header"
  <2>1. Skip(pos + 1) \in 1..(window.last + 1)
      BY <1>1, <1>2
  <2>2. Kind(Skip(pos + 1)) = "over" => ~(Skip(pos + 1) <= window.last)
      BY <1>2, <2>1, KindFacts DEF Kind, Types
  <2>3. QED
      BY <2>2 DEF Kind
<1>11. /\ NewEndpoint.at = pos /\ Saved(NewEndpoint.extra, pos)
       /\ window.piece # "header" => NewEndpoint.extra = Following(pos)
    BY <1>9, <1>10 DEF NewEndpoint, Saved
<1>12. ToSet(WithEndpoint.endpoints) = ToSet(Setting.endpoints) \cup {NewEndpoint}
    BY <1>1, AppendFacts DEF SettingTypes
<1> DEFINE n == Skip(pos + 1)
<1>13. n \in pos..(window.last + 1) /\ pos' = n /\ pos < n
    BY <1>1, <1>2
<1> HIDE DEF n
<1>14. \A r \in pos..(n - 1) : Desc(r).type \notin {"interface", "association"}
    BY <1>8, <1>13
<1>15. \A e \in ToSet(WithEndpoint.endpoints) :
           e \in ToSet(Setting.endpoints) \/
           (e.at \in EndpointsOf(Setting.at) /\ e.at < n /\ Saved(e.extra, e.at))
    BY <1>6, <1>11, <1>12, <1>13
<1>16. TreeInv'
    BY <1>1, <1>13, <1>14, <1>15, TreeSet
<1>17. QED
    BY <1>6, <1>7, <1>8, <1>11, <1>12, <1>16

LEMMA TreeMissing ==
    ASSUME BaseInv, TreeInv, EndpointsMissing
    PROVE  TreeInv'
<1>1. /\ pc = "endpoints" /\ Parsing
      /\ UNCHANGED <<blob, window, pc, pos, parsed>>
      /\ Shortened \in SettingTypes /\ Shortened.at = Setting.at /\ Shortened.extra = Setting.extra
      /\ Shortened.endpoints = Setting.endpoints
      /\ config' = SetSetting(Shortened)
    BY MissingFacts
<1>2. pos \in pos..(window.last + 1) /\ pos..(pos - 1) = {}
    BY <1>1, LiveFacts
<1>3. QED
    BY <1>1, <1>2, TreeSet

\* What an association and its blocks stand between.
LEMMA TreeAssociation ==
    ASSUME BaseInv, TreeInv, ParseAssociation, pc' = pc
    PROVE  TreeInv' /\ \A r \in pos..(pos' - 1) : r # Skip(pos) => Desc(r).type = "unknown"
<1> DEFINE q == Skip(pos)
           n == Skip(q + 1)
<1>1. /\ Loops /\ Kind(q) = "association" /\ q \in 1..window.last /\ q >= pos
      /\ n \in (q + 1)..(window.last + 1) /\ pos' = n /\ blob' = blob /\ window' = window
      /\ config'.interfaces = config.interfaces
    BY AssociationFacts
<1>2. Parsing /\ pc = "configuration"
    BY <1>1, LoopFacts
<1>3. /\ blob \in Blobs /\ window.last \in 0..LastPlace /\ pos \in Nat /\ First \in Nat
      /\ pos \in (First + 1)..(window.last + 1) /\ window.last \in Nat
    BY <1>2, LiveFacts
<1>4. pos \in 1..(window.last + 1) /\ q + 1 \in 1..(window.last + 1)
    BY <1>1, <1>3
<1>5. /\ \A r \in pos..(q - 1) : Desc(r).type = "unknown"
      /\ \A r \in (q + 1)..(n - 1) : Desc(r).type = "unknown"
    BY <1>3, <1>4, SkipFacts
<1>6. Desc(q).type = "association"
    BY <1>1 DEF Kind
<1> HIDE DEF q, n
<1>7. \A r \in pos..(n - 1) : r \in pos..(q - 1) \/ r = q \/ r \in (q + 1)..(n - 1)
    BY <1>1, <1>3
<1>8. \A r \in pos..(n - 1) : Desc(r).type # "interface"
    BY <1>5, <1>6, <1>7
<1>9. n \in pos..(window.last + 1)
    BY <1>1, <1>3
<1>10. TreeInv'
    BY <1>1, <1>2, <1>8, <1>9, SameTree
<1>11. QED
    BY <1>1, <1>5, <1>7, <1>10 DEF q

LEMMA TreeStep ==
    ASSUME BaseInv, TreeInv, Next
    PROVE  TreeInv'
<1>1. ASSUME pc' \in {"io_error", "refused", "crashed", "closed"}
      PROVE  TreeInv'
    BY <1>1 DEF TreeInv, Parsing, Scanning
<1>2. CASE \/ NoConfig \/ BadLength \/ EndpointFails \/ ScanCrashes \/ NoControl \/ ParseFails \/ NoStreaming
           \/ FrameWithoutFormat \/ Close
    BY <1>1, <1>2, EndsWhen DEF Ends
<1>3. CASE GetConfig
    BY <1>3, TreeGetConfig
<1>4. ASSUME Parsing \/ Scanning, UNCHANGED <<blob, window, pos>>, config'.interfaces = config.interfaces,
             pc' # "endpoints"
      PROVE  TreeInv'
  <2>1. pos \in pos..(window.last + 1) /\ pos..(pos - 1) = {}
      BY <1>4, LiveFacts
  <2>2. QED
      BY <1>4, <2>1, SameTree
<1>5. CASE ParsingDone \/ ShortConfiguration
  <2>1. Parsing /\ UNCHANGED <<blob, window, pos>> /\ pc' = "parsed"
      BY <1>5 DEF ParsingDone, ShortConfiguration, Loops, Parsing
  <2>2. config \in ConfigTypes
      BY TypedFacts DEF BaseInv
  <2>3. config'.interfaces = config.interfaces
      BY <1>5, <2>2 DEF ParsingDone, ShortConfiguration, ConfigTypes
  <2>4. QED
      BY <1>4, <2>1, <2>3
<1>6. CASE ParseAssociation
    BY <1>1, <1>6, EndsWhen, TreeAssociation DEF Ends
<1>7. CASE NoInterface
  <2> DEFINE q == Skip(pos)
  <2>1. Loops /\ blob' = blob /\ window' = window /\ pos' = q /\ pc' = "parsed"
      BY <1>7 DEF NoInterface
  <2>2. /\ Parsing /\ q \in 1..(window.last + 1) /\ q >= pos /\ SavesExtra(config) \in ConfigTypes
        /\ SavesExtra(config).interfaces = config.interfaces
      BY <2>1, LoopFacts
  <2>3. config'.interfaces = config.interfaces
      BY <1>7, <2>2 DEF NoInterface, ConfigTypes
  <2>4. blob \in Blobs /\ window.last \in 0..LastPlace /\ pos \in 1..(window.last + 1) /\ pos \in Nat
        /\ window.last \in Nat
      BY <2>2, ParsingFacts, LiveFacts
  <2>5. \A r \in pos..(q - 1) : Desc(r).type = "unknown"
      BY <2>4, SkipFacts
  <2> HIDE DEF q
  <2>6. q \in pos..(window.last + 1)
      BY <2>2, <2>4
  <2>7. QED
      BY <2>1, <2>2, <2>3, <2>5, <2>6, SameTree
<1>8. CASE ParseInterface \/ ParseAlternate
    BY <1>8, TreeBegin
<1>9. CASE ParseEndpoint
    BY <1>9, TreeEndpoint
<1>10. CASE EndpointsMissing
    BY <1>10, TreeMissing
<1>11. CASE InterfaceDone
    BY <1>4, <1>11 DEF InterfaceDone, Parsing
<1>12. ASSUME Scans, Scanning
       PROVE  TreeInv'
    BY <1>4, <1>12 DEF Scans
<1>13. CASE \/ ScanControl \/ ParseUnit \/ ParseHeader \/ ScanStreaming \/ StreamsScanned \/ StreamScanned
            \/ ScanDone \/ ParseStreamBlock
  <2>1. Scans
      BY <1>13, BaseControl, StreamingFacts, BaseGoesOn, StreamBlockFacts
  <2>2. pc # "configuration"
      BY <1>13 DEF ScanControl, ParseUnit, ParseHeader, NextBlock, ScanStreaming, StreamsScanned, StreamScanned,
                   ScanDone, ParseStreamBlock, ParseInputHeader, ParseFormat, ParseFrame, ParseOther, StreamBlock
  <2>3. QED
      BY <1>12, <2>1, <2>2 DEF Scans, Scanning
<1>14. CASE Ended
    BY <1>1, <1>14 DEF Ended, vars
<1>15. QED
    BY <1>2, <1>3, <1>5, <1>6, <1>7, <1>8, <1>9, <1>10, <1>11, <1>13, <1>14
    DEF Next, ParseConfiguration, GetDeviceInfo

LEMMA TreeAlways == Spec => [](BaseInv /\ TreeInv)
<1>1. Init => BaseInv /\ TreeInv
    BY BaseInit DEF Init, TreeInv, Parsing, Scanning
<1>2. TreeInv /\ UNCHANGED vars => TreeInv'
  <2> SUFFICES ASSUME TreeInv, UNCHANGED vars
               PROVE  TreeInv'
      OBVIOUS
  <2>1. /\ blob' = blob /\ window' = window /\ pc' = pc /\ pos' = pos /\ parsed' = parsed /\ config' = config
      BY DEF vars
  <2>2. /\ Interfaces' = Interfaces /\ (\A q : Following(q)' = Following(q) /\ EndpointsOf(q)' = EndpointsOf(q))
        /\ \A q : Desc(q)' = Desc(q)
      BY <2>1, Fixed, FixedWindow
  <2>3. Trees' = Trees /\ (\A i : Tree(i)' = Tree(i)) /\ (\A i : SettingsOf(i)' = SettingsOf(i)) /\ Setting' = Setting
      BY <2>1 DEF Trees, Tree, SettingsOf, Setting
  <2>4. Placed' = Placed
      BY <2>3 DEF Placed
  <2>5. InPlace => InPlace'
      BY <2>1, <2>2, <2>3, <2>4, Zenon DEF InPlace
  <2>6. Elements => Elements'
      BY <2>1, <2>2, <2>3 DEF Elements, SettingOK, Saved
  <2>7. QED
      BY <2>1, <2>5, <2>6 DEF TreeInv, Parsing, Scanning
<1>3. BaseInv /\ TreeInv /\ [Next]_vars => (BaseInv /\ TreeInv)'
    BY <1>2, BaseStep, TreeStep
<1>4. QED
    BY <1>1, <1>3, PTL DEF Spec

\* Whatever the bytes are, the tree of libusb is a prefix of them: the settings are the first
\* interface descriptors, each with the blocks and some of the endpoints that follow it.
THEOREM TreeIsAPrefix == Spec => []TreeIsPrefix
<1>1. ASSUME BaseInv, TreeInv, pc = "parsed"
      PROVE  TreeIsPrefix
  <2>1. Scanning /\ ~Within /\ pc # "configuration" /\ Built = config.count
      BY <1>1 DEF Scanning, Within, Built
  <2>2. InPlace /\ Elements /\ Counts
      BY <1>1, <2>1, LiveFacts DEF TreeInv
  <2>3. /\ pos \in Nat /\ Interfaces \subseteq Nat
        /\ \A i \in Trees : \A a \in SettingsOf(i) : a \in SettingTypes /\ a.at \in Nat
        /\ \A i \in Trees : i \in Nat
        /\ config.count \in Nat
      BY <1>1, <2>1, LiveFacts, TypedFacts DEF BaseInv
  <2> DEFINE N == 0..(config.count - 1)
             trees == {config.interfaces[i] : i \in N}
             all == UNION {ToSet(t) : t \in trees}
             placed == {a.at : a \in all}
  <2>4. N \subseteq Trees /\ \A i \in N : ToSet(config.interfaces[i]) = SettingsOf(i)
      BY <2>2 DEF Counts, SettingsOf, Tree
  <2>5. \A a : a \in all <=> \E i \in N : a \in SettingsOf(i)
      BY <2>4
  <2>6. \A i \in Trees : i \notin N => SettingsOf(i) = {}
    <3>1. \A i \in Trees : i \notin N => Tree(i) = <<>>
        BY <2>1, <2>2, <2>3 DEF Counts
    <3>2. QED
        BY <3>1 DEF SettingsOf, ToSet
  <2>7. placed = Placed
      BY <2>4, <2>5, <2>6 DEF Placed
  <2>8. placed \subseteq Interfaces
      BY <2>2, <2>7 DEF InPlace
  <2>9. \A p \in placed, q \in Interfaces : q < p => q \in placed
    <3> SUFFICES ASSUME NEW p \in Placed, NEW q \in Interfaces, q < p
                 PROVE  q \in Placed
        BY <2>7
    <3>1. p \in Nat /\ q \in Nat /\ p < pos
        BY <2>2, <2>3 DEF InPlace
    <3>2. q < pos
        BY <2>3, <3>1
    <3>3. QED
        BY <2>2, <3>2 DEF InPlace
  <2>10. \A i, j \in N : i < j =>
            \A a \in ToSet(config.interfaces[i]), b \in ToSet(config.interfaces[j]) : a.at < b.at
      BY <2>2, <2>4 DEF InPlace
  <2>11. ASSUME NEW a \in all
         PROVE  /\ a.extra = Following(a.at) \/ (a.extra = {} /\ window.piece = "header")
                /\ \A b \in all : (\E t \in trees : {a, b} \subseteq ToSet(t)) => Desc(a.at).number = Desc(b.at).number
                /\ {e.at : e \in ToSet(a.endpoints)} \subseteq EndpointsOf(a.at)
                /\ \A e \in ToSet(a.endpoints) : e.extra = Following(e.at) \/ (e.extra = {} /\ window.piece = "header")
    <3>1. PICK i \in N : a \in SettingsOf(i)
        BY <2>5
    <3>2. SettingOK(a)
        BY <2>2, <2>4, <3>1 DEF Elements
    <3>3. ASSUME NEW b \in all, NEW t \in trees, {a, b} \subseteq ToSet(t)
          PROVE  Desc(a.at).number = Desc(b.at).number
      <4>1. PICK j \in N : t = config.interfaces[j]
          BY <3>3
      <4>2. a \in SettingsOf(j) /\ b \in SettingsOf(j) /\ j \in Trees
          BY <2>4, <3>3, <4>1
      <4>3. QED
          BY <2>2, <4>2 DEF Elements
    <3>4. QED
        BY <3>2, <3>3 DEF SettingOK, Saved
  <2> HIDE DEF N, trees, all, placed
  <2>12. QED
      BY <2>8, <2>9, <2>10, <2>11, Zenon DEF TreeIsPrefix, N, trees, all, placed
<1>2. BaseInv /\ TreeInv => TreeIsPrefix
    BY <1>1 DEF TreeIsPrefix
<1>3. QED
    BY <1>2, TreeAlways, PTL

------------------------------------------------------------------------------
(* What is allocated can be found, or was forgotten by a second input header *)

\* What is allocated can be found from the settings of the first n elements or from the streams.
Found(c, n, m) ==
    \/ m \in {Allocated("interfaces", 0), Allocated("config_extra", 0), Allocated("associations", 0)}
    \/ \E i \in 0..(n - 1) :
          \/ m = Allocated("altsettings", i)
          \/ \E a \in ToSet(c.interfaces[i]) :
                \/ m \in {Allocated("extra", a.at), Allocated("endpoints", a.at)}
                \/ \E e \in ToSet(a.endpoints) : m = Allocated("extra", e.at)
Forgotten(m) == m[1] = "controls" /\ \E k \in DOMAIN info.streams : info.streams[k].controls > m[2]
Reachable(m) == Found(config, Built, m) \/ m \in InInfo(info) \/ Forgotten(m)
Ascending == pc = "blocks" => \A b \in todo.stream : b > Stream.controls
MemoryInv == /\ Parsing \/ Scanning => \A m \in heap : Reachable(m)
             /\ Ascending
             /\ NothingLeaks

LEMMA FoundIsFreed ==
    \A c, m : Found(c, c.count, m) => m \in InConfig(c)
<1> SUFFICES ASSUME NEW c, NEW m, Found(c, c.count, m)
             PROVE  m \in InConfig(c)
    OBVIOUS
<1> DEFINE Of(i) == {Allocated("altsettings", i)} \union
                  UNION {{Allocated("extra", a.at), Allocated("endpoints", a.at)} \union
                         {Allocated("extra", e.at) : e \in ToSet(a.endpoints)}
                         : a \in ToSet(c.interfaces[i])}
<1>1. \A i : (\/ m = Allocated("altsettings", i)
              \/ \E a \in ToSet(c.interfaces[i]) :
                    \/ m \in {Allocated("extra", a.at), Allocated("endpoints", a.at)}
                    \/ \E e \in ToSet(a.endpoints) : m = Allocated("extra", e.at)) => m \in Of(i)
    OBVIOUS
<1>2. InConfig(c) = {Allocated("interfaces", 0), Allocated("config_extra", 0), Allocated("associations", 0)}
                    \union UNION {Of(i) : i \in 0..(c.count - 1)}
    BY DEF InConfig
<1> HIDE DEF Of
<1>3. QED
    BY <1>1, <1>2, Zenon DEF Found

LEMMA FoundKept ==
    ASSUME NEW c, NEW d, NEW n \in Nat, NEW l \in Nat, n <= l,
           \A i \in 0..(n - 1) : \A a \in ToSet(c.interfaces[i]) :
               \E b \in ToSet(d.interfaces[i]) :
                   b.at = a.at /\ \A e \in ToSet(a.endpoints) : \E f \in ToSet(b.endpoints) : f.at = e.at
    PROVE  \A m : Found(c, n, m) => Found(d, l, m)
<1>1. 0..(n - 1) \subseteq 0..(l - 1)
    OBVIOUS
<1>2. SUFFICES ASSUME NEW m, Found(c, n, m)
               PROVE  Found(d, l, m)
    OBVIOUS
<1>3. CASE m \in {Allocated("interfaces", 0), Allocated("config_extra", 0), Allocated("associations", 0)}
    BY <1>3, Zenon DEF Found
<1>4. ASSUME NEW i \in 0..(n - 1), m = Allocated("altsettings", i)
      PROVE  Found(d, l, m)
    BY <1>1, <1>4, Zenon DEF Found
<1>5. ASSUME NEW i \in 0..(n - 1), NEW a \in ToSet(c.interfaces[i]),
             \/ m \in {Allocated("extra", a.at), Allocated("endpoints", a.at)}
             \/ \E e \in ToSet(a.endpoints) : m = Allocated("extra", e.at)
      PROVE  Found(d, l, m)
  <2>1. PICK b \in ToSet(d.interfaces[i]) :
           b.at = a.at /\ \A e \in ToSet(a.endpoints) : \E f \in ToSet(b.endpoints) : f.at = e.at
      OBVIOUS
  <2>2. \/ m \in {Allocated("extra", b.at), Allocated("endpoints", b.at)}
        \/ \E f \in ToSet(b.endpoints) : m = Allocated("extra", f.at)
      BY <1>5, <2>1
  <2>3. QED
      BY <1>1, <2>2, Zenon DEF Found
<1>6. QED
    BY <1>2, <1>3, <1>4, <1>5, Zenon DEF Found

\* What is freed is all that was not forgotten.
LEMMA Freed ==
    ASSUME BaseInv, MemoryInv, Parsing \/ Scanning, heap' = heap \ (InConfig(config) \union InInfo(info)),
           info' = info, ~Parsing', ~Scanning'
    PROVE  MemoryInv'
<1>1. Built \in Nat /\ config.count \in Nat /\ Built <= config.count
  <2>1. Typed /\ Counts
      BY LiveFacts
  <2>2. parsed \in Nat /\ config.count \in Nat
      BY <2>1, TypedFacts
  <2>3. QED
      BY <2>1, <2>2 DEF Counts, Built, Parsing, Scanning, Within
<1>2. \A m : Found(config, Built, m) => Found(config, config.count, m)
    BY <1>1, FoundKept
<1>3. \A m \in heap' : Forgotten(m)
    BY <1>2, FoundIsFreed DEF MemoryInv, Reachable
<1>4. NothingLeaks'
    BY <1>3 DEF NothingLeaks, Forgotten
<1>5. QED
    BY <1>4 DEF MemoryInv, Ascending, Scanning

\* The memory of the tree grows with the tree.
LEMMA TreeGrows ==
    ASSUME BaseInv, MemoryInv, Parsing \/ Scanning, info' = info, NEW n \in Nat, Built' = n, Built \in Nat, Built <= n,
           \A i \in 0..(Built - 1) : \A a \in ToSet(config.interfaces[i]) :
               \E b \in ToSet(config'.interfaces[i]) :
                   b.at = a.at /\ \A e \in ToSet(a.endpoints) : \E f \in ToSet(b.endpoints) : f.at = e.at,
           \A m \in heap' : m \in heap \/ Found(config', n, m),
           pc' \in {"configuration", "endpoints", "interface_done", "parsed"}
    PROVE  MemoryInv'
<1>1. \A m : Found(config, Built, m) => Found(config', n, m)
    BY FoundKept
<1>2. \A m \in heap' : Found(config', n, m) \/ m \in InInfo(info) \/ Forgotten(m)
    BY <1>1 DEF MemoryInv, Reachable
<1>3. \A m \in heap' : Reachable(m)'
    BY <1>2 DEF Reachable, InInfo, Forgotten
<1>4. QED
    BY <1>3 DEF MemoryInv, NothingLeaks, Ascending

LEMMA BuiltFacts ==
    ASSUME BaseInv, Parsing \/ Scanning
    PROVE  /\ Built \in Nat /\ config.count \in Nat /\ parsed \in Nat /\ Built <= config.count
           /\ 0..(Built - 1) \subseteq Trees
<1>1. Typed /\ Counts
    BY LiveFacts
<1>2. parsed \in Nat /\ config.count \in Nat
    BY <1>1, TypedFacts
<1>3. Built \in Nat /\ Built <= config.count
    BY <1>1, <1>2 DEF Counts, Built, Parsing, Scanning, Within
<1>4. 0..(Built - 1) \subseteq 0..(config.count - 1)
    BY <1>2, <1>3
<1>5. QED
    BY <1>1, <1>2, <1>3, <1>4 DEF Counts

\* The steps that leave the tree alone.
LEMMA MemorySameTree ==
    ASSUME BaseInv, MemoryInv,
           \/ ParsingDone \/ ShortConfiguration \/ (ParseAssociation /\ pc' = pc) \/ NoInterface \/ InterfaceDone
    PROVE  MemoryInv'
<1> DEFINE roots == {Allocated("interfaces", 0), Allocated("config_extra", 0), Allocated("associations", 0)}
<1>1. /\ Parsing /\ info' = info /\ config'.interfaces = config.interfaces
      /\ pc' \in {"configuration", "parsed"}
      /\ \A m \in heap' : m \in heap \/ m \in roots \/ (NoInterface /\ m = Allocated("altsettings", parsed))
      /\ Built' \in Nat /\ Built <= Built' /\ (NoInterface => Built' = parsed + 1)
  <2>1. config \in ConfigTypes
      BY TypedFacts DEF BaseInv
  <2>2. CASE ParsingDone
    <3>1. /\ Parsing /\ info' = info /\ config' = config /\ pc' = "parsed" /\ heap' = heap /\ Built = parsed
          /\ ~NoInterface
        BY <2>2 DEF ParsingDone, NoInterface, Loops, Parsing, Built, Within
    <3>2. Built' = config.count
        BY <3>1 DEF Built, Within
    <3>3. QED
        BY <3>1, <3>2, BuiltFacts
  <2>3. CASE ShortConfiguration
    <3>1. /\ Parsing /\ info' = info /\ pc' = "parsed" /\ heap' = heap /\ Built = parsed /\ Kind(Skip(pos)) = "over"
          /\ config' = [config EXCEPT !.count = parsed]
        BY <2>3 DEF ShortConfiguration, Loops, Parsing, Built, Within
    <3>2. config'.interfaces = config.interfaces /\ config'.count = parsed
        BY <2>1, <3>1 DEF ConfigTypes
    <3>3. Built' = parsed /\ ~NoInterface
        BY <3>1, <3>2 DEF Built, Within, NoInterface
    <3>4. QED
        BY <3>1, <3>2, <3>3, BuiltFacts
  <2>4. CASE ParseAssociation /\ pc' = pc
    <3>1. /\ Loops /\ info' = info /\ config'.interfaces = config.interfaces /\ parsed' = parsed
          /\ heap' \subseteq heap \cup {Allocated("config_extra", 0), Allocated("associations", 0)}
        BY <2>4, AssociationFacts
    <3>2. Parsing /\ pc = "configuration" /\ Built = parsed /\ pc' = "configuration"
        BY <2>4, <3>1, LoopFacts
    <3>3. Built' = parsed /\ ~NoInterface
        BY <3>1, <3>2 DEF Built, Within, NoInterface
    <3>4. QED
        BY <3>1, <3>2, <3>3, BuiltFacts
  <2>5. CASE NoInterface
    <3>1. Loops /\ info' = info /\ pc' = "parsed" /\ config' = [SavesExtra(config) EXCEPT !.count = parsed + 1]
          /\ \A m \in heap' : m \in heap \/ m \in roots \/ m = Allocated("altsettings", parsed)
        BY <2>5 DEF NoInterface, Counted, ExtraHeap
    <3>2. /\ Parsing /\ Built = parsed /\ SavesExtra(config) \in ConfigTypes
          /\ SavesExtra(config).interfaces = config.interfaces
        BY <3>1, LoopFacts
    <3>3. config'.interfaces = config.interfaces /\ config'.count = parsed + 1
        BY <3>1, <3>2 DEF ConfigTypes
    <3>4. Built' = parsed + 1
        BY <3>1, <3>3 DEF Built, Within
    <3>5. QED
        BY <2>5, <3>1, <3>2, <3>3, <3>4, BuiltFacts
  <2>6. CASE InterfaceDone
    <3>1. Parsing /\ Within /\ info' = info /\ config' = config /\ pc' = "configuration" /\ heap' = heap
          /\ parsed' = parsed + 1
        BY <2>6 DEF InterfaceDone, Parsing, Within
    <3>2. Built' = parsed + 1 /\ Built = parsed + 1 /\ ~NoInterface
        BY <3>1 DEF Built, Within, NoInterface, Loops
    <3>3. QED
        BY <3>1, <3>2, BuiltFacts
  <2>7. QED
      BY <2>2, <2>3, <2>4, <2>5, <2>6
<1>2. PICK n \in Nat : n = Built'
    BY <1>1
<1>3. Built \in Nat /\ parsed \in Nat
    BY <1>1, BuiltFacts
<1>4. \A m \in heap' : m \in heap \/ Found(config', n, m)
  <2>1. \A m \in roots : Found(config', n, m)
      BY Zenon DEF Found
  <2>2. NoInterface => parsed \in 0..(n - 1)
      BY <1>1, <1>2, <1>3
  <2>3. NoInterface => Found(config', n, Allocated("altsettings", parsed))
      BY <2>2, Zenon DEF Found
  <2>4. QED
      BY <1>1, <2>1, <2>3
<1> HIDE DEF roots
<1>5. QED
    BY <1>1, <1>2, <1>3, <1>4, TreeGrows

LEMMA MemoryBegin ==
    ASSUME BaseInv, MemoryInv, ParseInterface \/ ParseAlternate
    PROVE  MemoryInv'
<1>1. /\ Parsing /\ parsed \in Trees /\ pc \in {"configuration", "endpoints"}
      /\ info' = info /\ parsed' = parsed
      /\ NewSetting(Begun) \in SettingTypes
      /\ config'.interfaces[parsed] = Append(Tree(parsed), NewSetting(Begun))
      /\ \A j \in Trees : j # parsed => config'.interfaces[j] = Tree(j)
      /\ Tree(parsed) \in Seq(SettingTypes)
      /\ \/ pc' = "io_error" /\ heap' = heap \ (InConfig(config) \union InInfo(info))
         \/ /\ pc' \in {"interface_done", "endpoints"}
            /\ heap' \subseteq heap \union {Allocated("altsettings", parsed), Allocated("extra", Begun),
                                            Allocated("endpoints", Begun)}
    BY BeginFacts
<1>2. CASE pc' = "io_error" /\ heap' = heap \ (InConfig(config) \union InInfo(info))
    BY <1>1, <1>2, Freed DEF Parsing, Scanning
<1>3. CASE /\ pc' \in {"interface_done", "endpoints"}
           /\ heap' \subseteq heap \union {Allocated("altsettings", parsed), Allocated("extra", Begun),
                                           Allocated("endpoints", Begun)}
  <2>1. /\ Built \in Nat /\ parsed \in Nat /\ Built <= parsed + 1 /\ 0..(Built - 1) \subseteq Trees
        /\ Built' = parsed + 1
      BY <1>1, <1>3, BuiltFacts DEF Built, Within
  <2>2. /\ ToSet(config'.interfaces[parsed]) = ToSet(Tree(parsed)) \cup {NewSetting(Begun)}
      BY <1>1, AppendFacts
  <2>3. NewSetting(Begun).at = Begun
      BY DEF NewSetting
  <2>4. \A i \in Trees : ToSet(config.interfaces[i]) \subseteq ToSet(config'.interfaces[i])
      BY <1>1, <2>2 DEF Tree
  <2>5. \A i \in 0..(Built - 1) : \A a \in ToSet(config.interfaces[i]) :
            \E b \in ToSet(config'.interfaces[i]) :
                b.at = a.at /\ \A e \in ToSet(a.endpoints) : \E f \in ToSet(b.endpoints) : f.at = e.at
      BY <2>1, <2>4
  <2>6. \A m \in {Allocated("altsettings", parsed), Allocated("extra", Begun), Allocated("endpoints", Begun)} :
            Found(config', parsed + 1, m)
    <3>1. parsed \in 0..((parsed + 1) - 1)
        BY <2>1
    <3>2. NewSetting(Begun) \in ToSet(config'.interfaces[parsed])
        BY <2>2
    <3>3. QED
        BY <2>3, <3>1, <3>2, Zenon DEF Found
  <2>7. \A m \in heap' : m \in heap \/ Found(config', parsed + 1, m)
      BY <1>3, <2>6
  <2>8. parsed + 1 \in Nat
      BY <2>1
  <2>9. QED
      BY <1>1, <1>3, <2>1, <2>5, <2>7, <2>8, TreeGrows
<1>4. QED
    BY <1>1, <1>2, <1>3

LEMMA MemoryEndpoints ==
    ASSUME BaseInv, TreeInv, MemoryInv, ParseEndpoint \/ EndpointsMissing
    PROVE  MemoryInv'
<1>1. \E b \in SettingTypes :
        /\ pc = "endpoints" /\ pc' = "endpoints" /\ info' = info /\ parsed' = parsed
        /\ config' = SetSetting(b) /\ b.at = Setting.at
        /\ ToSet(Setting.endpoints) \subseteq ToSet(b.endpoints)
        /\ \A m \in heap' : m \in heap \/ \E e \in ToSet(b.endpoints) : m = Allocated("extra", e.at)
  <2>1. CASE ParseEndpoint
    <3>1. /\ pc = "endpoints" /\ pc' = "endpoints" /\ info' = info /\ parsed' = parsed
          /\ config' = SetSetting(WithEndpoint) /\ WithEndpoint.at = Setting.at /\ WithEndpoint \in SettingTypes
          /\ heap' \subseteq heap \union {Allocated("extra", pos)}
        BY <2>1, EndpointFacts
    <3>2. /\ ToSet(WithEndpoint.endpoints) = ToSet(Setting.endpoints) \cup {NewEndpoint} /\ NewEndpoint.at = pos
        BY <2>1, TreeEndpoint
    <3>3. QED
        BY <3>1, <3>2
  <2>2. CASE EndpointsMissing
      BY <2>2, MissingFacts
  <2>3. QED
      BY <2>1, <2>2
<1>2. PICK b \in SettingTypes :
        /\ pc = "endpoints" /\ pc' = "endpoints" /\ info' = info /\ parsed' = parsed
        /\ config' = SetSetting(b) /\ b.at = Setting.at
        /\ ToSet(Setting.endpoints) \subseteq ToSet(b.endpoints)
        /\ \A m \in heap' : m \in heap \/ \E e \in ToSet(b.endpoints) : m = Allocated("extra", e.at)
    BY <1>1
<1> DEFINE s == Tree(parsed)
           t == [s EXCEPT ![Len(s)] = b]
<1>3. /\ Parsing /\ parsed \in Trees /\ s # <<>> /\ s \in Seq(SettingTypes) /\ Setting = s[Len(s)]
      /\ config'.interfaces[parsed] = t
      /\ \A j \in Trees : j # parsed => config'.interfaces[j] = Tree(j)
    BY <1>2, SetFacts DEF Parsing
<1>4. /\ DOMAIN t = DOMAIN s /\ Len(s) \in DOMAIN s /\ \A k \in DOMAIN s : t[k] = IF k = Len(s) THEN b ELSE s[k]
    BY <1>3, LastFacts
<1> HIDE DEF t
<1>5. Built = parsed + 1 /\ Built' = parsed + 1
    BY <1>2 DEF Built, Within
<1>6. Built \in Nat /\ parsed \in Nat /\ 0..(Built - 1) \subseteq Trees
    BY <1>3, BuiltFacts
<1>7. b \in ToSet(t)
    BY <1>4 DEF ToSet
<1>8. \A a \in ToSet(s) : a = Setting \/ a \in ToSet(t)
    BY <1>3, <1>4 DEF ToSet
<1>9. ASSUME NEW i \in Trees, NEW a \in ToSet(config.interfaces[i])
      PROVE  \E c \in ToSet(config'.interfaces[i]) :
                c.at = a.at /\ \A e \in ToSet(a.endpoints) : \E f \in ToSet(c.endpoints) : f.at = e.at
  <2>1. CASE i = parsed /\ a = Setting
      BY <1>2, <1>3, <1>7, <2>1
  <2>2. CASE ~(i = parsed /\ a = Setting)
    <3>1. a \in ToSet(config'.interfaces[i])
        BY <1>3, <1>8, <2>2 DEF Tree
    <3>2. QED
        BY <3>1
  <2>3. QED
      BY <2>1, <2>2
<1>10. \A i \in 0..(Built - 1) : \A a \in ToSet(config.interfaces[i]) :
            \E c \in ToSet(config'.interfaces[i]) :
                c.at = a.at /\ \A e \in ToSet(a.endpoints) : \E f \in ToSet(c.endpoints) : f.at = e.at
    BY <1>6, <1>9
<1>11. \A m \in heap' : m \in heap \/ Found(config', parsed + 1, m)
  <2>1. parsed \in 0..((parsed + 1) - 1)
      BY <1>6
  <2>2. b \in ToSet(config'.interfaces[parsed])
      BY <1>3, <1>7
  <2>3. \A e \in ToSet(b.endpoints) : Found(config', parsed + 1, Allocated("extra", e.at))
      BY <2>1, <2>2, Zenon DEF Found
  <2>4. QED
      BY <1>2, <2>3
<1>12. parsed + 1 \in Nat
    BY <1>6
<1>13. QED
    BY <1>2, <1>3, <1>5, <1>6, <1>10, <1>11, <1>12, TreeGrows

\* libuvc reads the tree, and the streams keep what they have, but for the controls of the last one.
LEMMA MemoryScans ==
    ASSUME BaseInv, MemoryInv, Scans, Scanning,
           DOMAIN info.streams \subseteq DOMAIN info'.streams,
           \A k \in DOMAIN info.streams :
               info.streams[k].controls \in Nat /\ info'.streams[k].controls \in Nat
               /\ info'.streams[k].controls >= info.streams[k].controls,
           \A m \in heap' : m \in heap \/ m \in InInfo(info'), Ascending',
           heap \subseteq AllocatedTypes
    PROVE  MemoryInv'
<1>1. Built = config.count /\ config' = config /\ pc' \in {"parsed", "control", "streaming", "blocks", "open"}
    BY DEF Built, Scans, Scanning, Within
<1>2. Built' = config.count
    BY <1>1 DEF Built, Within
<1>3. ASSUME NEW m \in heap'
      PROVE  Found(config, config.count, m) \/ m \in InInfo(info') \/
             (m[1] = "controls" /\ \E k \in DOMAIN info'.streams : info'.streams[k].controls > m[2])
  <2>1. CASE m \in heap
    <3>1. Found(config, config.count, m) \/ m \in InInfo(info) \/ Forgotten(m)
        BY <1>1, <2>1 DEF MemoryInv, Reachable
    <3>2. m[2] \in Nat
        BY <2>1 DEF AllocatedTypes
    <3>3. CASE Forgotten(m)
        BY <3>2, <3>3 DEF Forgotten
    <3>4. CASE m \in InInfo(info)
      <4>1. PICK k \in DOMAIN info.streams : m \in {Allocated("stream", k), Allocated("controls", info.streams[k].controls)}
          BY <3>4 DEF InInfo
      <4>2. k \in DOMAIN info'.streams
          OBVIOUS
      <4>3. CASE m = Allocated("stream", k) \/ info'.streams[k].controls = info.streams[k].controls
          BY <4>1, <4>2, <4>3 DEF InInfo
      <4>4. CASE m = Allocated("controls", info.streams[k].controls) /\ info'.streams[k].controls # info.streams[k].controls
        <5>1. info'.streams[k].controls > info.streams[k].controls
            BY <4>4
        <5>2. m[1] = "controls" /\ m[2] = info.streams[k].controls
            BY <4>4 DEF Allocated
        <5>3. QED
            BY <4>2, <5>1, <5>2
      <4>5. QED
          BY <4>1, <4>3, <4>4
    <3>5. QED
        BY <3>1, <3>3, <3>4
  <2>2. CASE m \notin heap
      BY <2>2
  <2>3. QED
      BY <2>1, <2>2
<1>4. \A m \in heap' : Reachable(m)'
    BY <1>1, <1>2, <1>3 DEF Reachable, Forgotten
<1>5. NothingLeaks'
    BY <1>1 DEF NothingLeaks
<1>6. QED
    BY <1>4, <1>5 DEF MemoryInv

LEMMA InInfoHas ==
    \A i : \A k \in DOMAIN i.streams :
        Allocated("stream", k) \in InInfo(i) /\ Allocated("controls", i.streams[k].controls) \in InInfo(i)
BY DEF InInfo

LEMMA StreamControls ==
    ASSUME BaseInv
    PROVE  /\ info.streams \in Seq(StreamTypes) /\ DOMAIN info.streams = 1..Len(info.streams)
           /\ Len(info.streams) \in Nat
           /\ \A k \in DOMAIN info.streams : info.streams[k] \in StreamTypes /\ info.streams[k].controls \in Nat
           /\ heap \subseteq AllocatedTypes
<1>1. info \in InfoTypes /\ heap \subseteq AllocatedTypes
    BY DEF BaseInv, Typed, TypeOK
<1>2. info.streams \in Seq(StreamTypes)
    BY <1>1 DEF InfoTypes
<1>3. /\ DOMAIN info.streams = 1..Len(info.streams) /\ Len(info.streams) \in Nat
      /\ \A k \in DOMAIN info.streams : info.streams[k] \in StreamTypes
    BY <1>2, SeqFacts
<1>4. QED
    BY <1>1, <1>2, <1>3 DEF StreamTypes

LEMMA MemoryStep ==
    ASSUME BaseInv, TreeInv, MemoryInv, Next
    PROVE  MemoryInv'
<1>1. /\ info.streams \in Seq(StreamTypes) /\ DOMAIN info.streams = 1..Len(info.streams)
      /\ Len(info.streams) \in Nat
      /\ \A k \in DOMAIN info.streams : info.streams[k] \in StreamTypes /\ info.streams[k].controls \in Nat
      /\ heap \subseteq AllocatedTypes
    BY StreamControls
<1>2. CASE NoConfig
  <2>1. heap' = {} /\ pc' = "io_error"
      BY <1>2 DEF NoConfig, BaseInv, Fresh
  <2>2. QED
      BY <2>1 DEF MemoryInv, Parsing, Scanning, Ascending, NothingLeaks
<1>3. CASE GetConfig
  <2>1. heap' = {Allocated("interfaces", 0)} /\ pc' = "configuration"
      BY <1>3 DEF GetConfig
  <2>2. Found(config', Built', Allocated("interfaces", 0))
      BY Zenon DEF Found
  <2>3. QED
      BY <2>1, <2>2 DEF MemoryInv, Ascending, NothingLeaks, Reachable
<1>4. CASE \/ BadLength \/ EndpointFails \/ NoControl \/ ParseFails \/ Close \/ (ParseAssociation /\ pc' # pc)
  <2>1. /\ heap' = heap \ (InConfig(config) \union InInfo(info)) /\ pc' \in {"io_error", "refused", "closed"}
        /\ info' = info
      BY <1>4 DEF BadLength, EndpointFails, NoControl, ParseFails, Close, ParseAssociation, Fail
  <2>2. Parsing \/ Scanning
      BY <1>4 DEF BadLength, EndpointFails, NoControl, ParseFails, Close, ParseAssociation, Loops, Wanted,
                  NextBlock, Parsing, Scanning
  <2>3. QED
      BY <2>1, <2>2, Freed DEF Parsing, Scanning
<1>5. CASE ScanCrashes \/ NoStreaming \/ FrameWithoutFormat
    BY <1>5 DEF ScanCrashes, NoStreaming, FrameWithoutFormat, Crash, MemoryInv, Parsing, Scanning, Ascending, NothingLeaks
<1>6. CASE \/ ParsingDone \/ ShortConfiguration \/ (ParseAssociation /\ pc' = pc) \/ NoInterface \/ InterfaceDone
    BY <1>6, MemorySameTree
<1>7. CASE ParseInterface \/ ParseAlternate
    BY <1>7, MemoryBegin
<1>8. CASE ParseEndpoint \/ EndpointsMissing
    BY <1>8, MemoryEndpoints
<1>9. CASE \/ ScanControl \/ ParseUnit \/ ParseHeader \/ StreamsScanned \/ StreamScanned \/ ScanDone
  <2>1. /\ Scans /\ heap' = heap /\ info'.streams = info.streams
      BY <1>9, BaseControl, BaseGoesOn
  <2>2. Scanning /\ pc' # "blocks"
      BY <1>9 DEF ScanControl, ParseUnit, ParseHeader, NextBlock, StreamsScanned, StreamScanned, ScanDone, Scanning
  <2>3. Ascending'
      BY <2>2 DEF Ascending
  <2>4. \A k \in DOMAIN info.streams : info.streams[k].controls >= info.streams[k].controls
      BY <1>1
  <2>5. QED
      BY <1>1, <2>1, <2>2, <2>3, <2>4, MemoryScans
<1>10. CASE ScanStreaming
  <2>1. /\ Scans /\ pc = "streaming" /\ pc' = "blocks" /\ NewStream \in StreamTypes /\ BaseInv'
        /\ info'.streams = Append(info.streams, NewStream)
        /\ heap' = heap \cup {Allocated("stream", Len(info.streams) + 1)}
      BY <1>10, StreamingFacts
  <2>2. /\ DOMAIN info'.streams = 1..(Len(info.streams) + 1) /\ Len(info'.streams) = Len(info.streams) + 1
        /\ \A k \in 1..Len(info.streams) : info'.streams[k] = info.streams[k]
        /\ info'.streams[Len(info.streams) + 1] = NewStream
      BY <1>1, <2>1, AppendFacts
  <2>3. /\ DOMAIN info.streams \subseteq DOMAIN info'.streams /\ Len(info.streams) + 1 \in DOMAIN info'.streams
        /\ \A k \in DOMAIN info.streams : info'.streams[k].controls >= info.streams[k].controls
                                          /\ info'.streams[k].controls \in Nat
      BY <1>1, <2>2
  <2>4. Allocated("stream", Len(info.streams) + 1) \in InInfo(info')
      BY <2>3, InInfoHas
  <2>5. Stream'.controls = 0
      BY <2>2 DEF Stream, NewStream
  <2>6. \A b \in todo'.stream : b > 0
    <3>1. todo'.stream \subseteq PlacesOf("unknown")'
        BY <2>1 DEF BaseInv, Typed, TypeOK, TodoTypes
    <3>2. PlacesOf("unknown")' = PlacesOf("unknown")
        BY <2>1, Fixed DEF Scans
    <3>3. \A b \in PlacesOf("unknown") : b > 0
        BY BlobFacts DEF BaseInv, Typed
    <3>4. QED
        BY <3>1, <3>2, <3>3
  <2>7. Ascending'
      BY <2>5, <2>6 DEF Ascending
  <2>8. \A m \in heap' : m \in heap \/ m \in InInfo(info')
      BY <2>1, <2>4
  <2>9. Scanning
      BY <2>1 DEF Scanning
  <2>10. QED
      BY <1>1, <2>1, <2>3, <2>7, <2>8, <2>9, MemoryScans
<1>11. CASE ParseStreamBlock
  <2>1. /\ Scans /\ pc = "blocks" /\ pc' = "blocks" /\ Block \in todo.stream /\ Block \in Nat
        /\ \A b \in todo.stream : Block <= b
        /\ todo'.stream = todo.stream \ {Block}
        /\ info.streams # <<>> /\ Stream \in StreamTypes /\ Stream = info.streams[Len(info.streams)]
        /\ \E s \in StreamTypes : /\ BlockStep(s)
                                  /\ info'.streams = [info.streams EXCEPT ![Len(info.streams)] = s]
      BY <1>11, StreamBlockFacts
  <2>2. PICK s \in StreamTypes : /\ BlockStep(s)
                                 /\ info'.streams = [info.streams EXCEPT ![Len(info.streams)] = s]
      BY <2>1
  <2>3. /\ DOMAIN info'.streams = DOMAIN info.streams /\ Len(info'.streams) = Len(info.streams)
        /\ Len(info.streams) \in DOMAIN info.streams
        /\ \A k \in DOMAIN info.streams : info'.streams[k] = IF k = Len(info.streams) THEN s ELSE info.streams[k]
      BY <1>1, <2>1, <2>2, LastFacts
  <2>4. Block > Stream.controls /\ Stream.controls \in Nat /\ s.controls \in Nat
      BY <2>1 DEF MemoryInv, Ascending, StreamTypes
  <2>5. /\ s.controls \in {Block, Stream.controls}
        /\ \A m \in heap' : m \in heap \/ (m = Allocated("controls", Block) /\ s.controls = Block)
      BY <2>1, <2>2 DEF BlockStep, StreamTypes
  <2>6. \A k \in DOMAIN info.streams : info'.streams[k].controls >= info.streams[k].controls
                                       /\ info'.streams[k].controls \in Nat
      BY <1>1, <2>1, <2>3, <2>4, <2>5
  <2>7. s.controls = Block => Allocated("controls", Block) \in InInfo(info')
    <3> SUFFICES ASSUME s.controls = Block
                 PROVE  Allocated("controls", Block) \in InInfo(info')
        OBVIOUS
    <3>1. /\ Len(info.streams) \in DOMAIN info'.streams
          /\ Allocated("controls", Block) = Allocated("controls", info'.streams[Len(info.streams)].controls)
        BY <2>3
    <3>2. QED
        BY <3>1, InInfoHas, Zenon
  <2>8. Ascending'
    <3>1. Stream' = s
        BY <2>3 DEF Stream
    <3>2. \A b \in todo.stream : b \in Nat
        BY BlockFacts DEF BaseInv
    <3>3. \A b \in todo'.stream : b > s.controls
        BY <2>1, <2>4, <2>5, <3>2
    <3>4. QED
        BY <3>1, <3>3 DEF Ascending
  <2>9. \A m \in heap' : m \in heap \/ m \in InInfo(info')
      BY <2>5, <2>7
  <2>10. Scanning
      BY <2>1 DEF Scanning
  <2>11. QED
      BY <1>1, <2>1, <2>3, <2>6, <2>8, <2>9, <2>10, MemoryScans
<1>12. CASE Ended
  <2>1. UNCHANGED vars /\ pc \in {"io_error", "refused", "crashed", "closed"}
      BY <1>12 DEF Ended
  <2>2. QED
      BY <2>1 DEF vars, MemoryInv, Parsing, Scanning, Ascending, NothingLeaks
<1>13. QED
    BY <1>2, <1>3, <1>4, <1>5, <1>6, <1>7, <1>8, <1>9, <1>10, <1>11, <1>12
    DEF Next, ParseConfiguration, GetDeviceInfo

LEMMA MemoryAlways == Spec => [](BaseInv /\ TreeInv /\ MemoryInv)
<1>1. Init => MemoryInv
    BY DEF Init, MemoryInv, Parsing, Scanning, Ascending, NothingLeaks
<1>2. MemoryInv /\ UNCHANGED vars => MemoryInv'
    BY DEF vars, MemoryInv, Parsing, Scanning, Ascending, NothingLeaks, Reachable, Found, InInfo, Forgotten, Built,
           Within, Stream
<1>3. BaseInv /\ TreeInv /\ MemoryInv /\ [Next]_vars => MemoryInv'
    BY <1>2, MemoryStep
<1>4. QED
    BY <1>1, <1>3, TreeAlways, PTL DEF Spec

\* Wherever the parsers give up, and when the camera is closed, everything is freed but for the
\* controls of a streaming interface with a second input header.
THEOREM NothingIsLeaked == Spec => []NothingLeaks
<1>1. MemoryInv => NothingLeaks
    BY DEF MemoryInv
<1>2. QED
    BY <1>1, MemoryAlways, PTL

------------------------------------------------------------------------------
(* Lists of places in order *)

LEMMA AtsFacts ==
    ASSUME NEW S, NEW s \in Seq(S), NEW X
    PROVE  /\ AreInOrder(Ats(s), X) <=> /\ {s[k].at : k \in DOMAIN s} = X
                                        /\ \A j, k \in DOMAIN s : j < k => s[j].at < s[k].at
           /\ AreInOrder(s, X) <=> {s[k] : k \in DOMAIN s} = X /\ \A j, k \in DOMAIN s : j < k => s[j] < s[k]
<1>1. DOMAIN Ats(s) = DOMAIN s /\ \A k \in DOMAIN s : Ats(s)[k] = s[k].at
    BY DEF Ats
<1>2. ToSet(Ats(s)) = {s[k].at : k \in DOMAIN s} /\ ToSet(s) = {s[k] : k \in DOMAIN s}
    BY <1>1 DEF ToSet
<1>3. QED
    BY <1>1, <1>2 DEF AreInOrder

\* A place behind all the others.
LEMMA OrderAppend ==
    ASSUME NEW S, NEW s \in Seq(S), NEW x \in S, NEW X
    PROVE  /\ AreInOrder(Ats(s), X) /\ (\A y \in X : y < x.at) => AreInOrder(Ats(Append(s, x)), X \cup {x.at})
           /\ AreInOrder(s, X) /\ (\A y \in X : y < x) => AreInOrder(Append(s, x), X \cup {x})
<1> DEFINE t == Append(s, x)
           n == Len(s)
<1>1. /\ t \in Seq(S) /\ DOMAIN t = 1..(n + 1) /\ t[n + 1] = x /\ \A k \in 1..n : t[k] = s[k]
      /\ DOMAIN s = 1..n /\ n \in Nat
    BY AppendFacts, SeqFacts
<1> HIDE DEF t, n
<1>2. 1..(n + 1) = 1..n \cup {n + 1}
    BY <1>1
<1>3. \A j, k \in 1..(n + 1) : j < k => j \in 1..n /\ (k \in 1..n \/ k = n + 1)
    BY <1>1
<1>4. {t[k].at : k \in DOMAIN t} = {s[k].at : k \in DOMAIN s} \cup {x.at}
      /\ {t[k] : k \in DOMAIN t} = {s[k] : k \in DOMAIN s} \cup {x}
    BY <1>1, <1>2
<1>5. ASSUME AreInOrder(Ats(s), X), \A y \in X : y < x.at
      PROVE  AreInOrder(Ats(t), X \cup {x.at})
  <2>1. {s[k].at : k \in DOMAIN s} = X /\ \A j, k \in DOMAIN s : j < k => s[j].at < s[k].at
      BY <1>5, AtsFacts
  <2>2. \A j, k \in DOMAIN t : j < k => t[j].at < t[k].at
    <3> SUFFICES ASSUME NEW j \in DOMAIN t, NEW k \in DOMAIN t, j < k
                 PROVE  t[j].at < t[k].at
        OBVIOUS
    <3>1. j \in 1..n /\ t[j] = s[j] /\ (k \in 1..n \/ k = n + 1)
        BY <1>1, <1>3
    <3>2. CASE k \in 1..n
        BY <1>1, <2>1, <3>1, <3>2
    <3>3. CASE k = n + 1
      <4>1. s[j].at \in X
          BY <1>1, <2>1, <3>1
      <4>2. QED
          BY <1>1, <1>5, <3>1, <3>3, <4>1
    <3>4. QED
        BY <3>1, <3>2, <3>3
  <2>3. QED
      BY <1>1, <1>4, <2>1, <2>2, AtsFacts
<1>6. ASSUME AreInOrder(s, X), \A y \in X : y < x
      PROVE  AreInOrder(t, X \cup {x})
  <2>1. {s[k] : k \in DOMAIN s} = X /\ \A j, k \in DOMAIN s : j < k => s[j] < s[k]
      BY <1>6, AtsFacts
  <2>2. \A j, k \in DOMAIN t : j < k => t[j] < t[k]
    <3> SUFFICES ASSUME NEW j \in DOMAIN t, NEW k \in DOMAIN t, j < k
                 PROVE  t[j] < t[k]
        OBVIOUS
    <3>1. j \in 1..n /\ t[j] = s[j] /\ (k \in 1..n \/ k = n + 1)
        BY <1>1, <1>3
    <3>2. CASE k \in 1..n
        BY <1>1, <2>1, <3>1, <3>2
    <3>3. CASE k = n + 1
      <4>1. s[j] \in X
          BY <1>1, <2>1, <3>1
      <4>2. QED
          BY <1>1, <1>6, <3>1, <3>3, <4>1
    <3>4. QED
        BY <3>1, <3>2, <3>3
  <2>3. QED
      BY <1>1, <1>4, <2>1, <2>2, AtsFacts
<1>7. QED
    BY <1>5, <1>6 DEF t

LEMMA OrderEmpty ==
    AreInOrder(Ats(<<>>), {}) /\ AreInOrder(<<>>, {})
<1>1. DOMAIN <<>> = {}
    OBVIOUS
<1>2. DOMAIN Ats(<<>>) = {}
    BY <1>1 DEF Ats
<1>3. QED
    BY <1>1, <1>2 DEF AreInOrder, ToSet

\* As many as there are places.
LEMMA OrderCard ==
    ASSUME NEW S, NEW s \in Seq(S), NEW X, X \subseteq Nat, AreInOrder(Ats(s), X)
    PROVE  IsFiniteSet(X) /\ Cardinality(X) = Len(s)
<1>1. Len(s) \in Nat /\ DOMAIN s = 1..Len(s)
    BY SeqFacts
<1>2. {s[k].at : k \in DOMAIN s} = X /\ \A j, k \in DOMAIN s : j < k => s[j].at < s[k].at
    BY AtsFacts
<1> DEFINE f == [k \in 1..Len(s) |-> s[k].at]
<1>3. f \in [1..Len(s) -> X]
    BY <1>1, <1>2
<1>4. \A j, k \in 1..Len(s) : f[j] = f[k] => j = k
  <2> SUFFICES ASSUME NEW j \in 1..Len(s), NEW k \in 1..Len(s), s[j].at = s[k].at
               PROVE  j = k
      OBVIOUS
  <2>1. s[j].at \in Nat /\ s[k].at \in Nat
      BY <1>1, <1>2
  <2>2. ~(j < k) /\ ~(k < j)
      BY <1>1, <1>2, <2>1
  <2>3. QED
      BY <1>1, <2>2
<1>5. \A x \in X : \E k \in 1..Len(s) : f[k] = x
    BY <1>1, <1>2
<1>6. f \in Bijection(1..Len(s), X)
    BY <1>3, <1>4, <1>5 DEF Bijection, Injection, Surjection, IsInjective
<1>7. ExistsBijection(1..Len(s), X)
    BY <1>6 DEF ExistsBijection
<1>8. QED
    BY <1>1, <1>7, FS_NatBijection, FS_CountingElements

------------------------------------------------------------------------------
(* A configuration as USB wants it is kept *)

\* A setting has what its descriptor says and the endpoints that were passed.
SettingKept(a) ==
    /\ a.bNumEndpoints = Desc(a.at).endpoints
    /\ a.allocated <=> a.bNumEndpoints > 0
    /\ AreInOrder(Ats(a.endpoints), {q \in EndpointsOf(a.at) : q < pos})

\* The tree has the interfaces that were passed under their numbers, and but for the setting
\* that is being parsed no endpoint of them is still to come.
KeptTree ==
    /\ Trees = 0..(Desc(First).count - 1) /\ config.count = Desc(First).count
    /\ \A i \in Trees : i < Built => Tree(i) # <<>> /\ Desc(Tree(i)[1].at).number = i
    /\ pc = "configuration" => \A p \in Interfaces : p >= pos => Desc(p).number >= parsed
    /\ Scanning => \A p \in Interfaces : p < pos
    /\ pc # "endpoints" => \A p \in Interfaces : p < pos => \A q \in EndpointsOf(p) : q < pos
    /\ \A i \in Trees : \A a \in SettingsOf(i) : SettingKept(a)
KeptInv == WellFormed => pc \notin {"io_error", "interface_done"} /\ (Parsing \/ Scanning => KeptTree)

LEMMA SameWellFormed ==
    ASSUME blob' = blob, window' = window, pc # "start", pc' # "start"
    PROVE  WellFormed' <=> WellFormed
<1>1. /\ First' = First /\ Extent' = Extent /\ TotalEnd' = TotalEnd /\ \A p : Desc(p)' = Desc(p)
    BY Fixed
<1>2. (\A t : In(t)' = In(t)) /\ Interfaces' = Interfaces /\ \A p : EndpointsOf(p)' = EndpointsOf(p)
    BY FixedWindow
<1>3. QED
    BY <1>1, <1>2 DEF WellFormed

\* The descriptors there are, and whose an endpoint is.
LEMMA WellFormedFacts ==
    ASSUME BaseInv, Parsing \/ Scanning, WellFormed
    PROVE  /\ window.piece = "none"
           /\ \A q \in (First + 1)..(window.last + 1) :
                 /\ Kind(q) \in {"interface", "endpoint", "association", "unknown", "none"}
                 /\ IF q <= window.last THEN Kind(q) = Desc(q).type /\ q \in InWindow /\ Kind(q) # "none"
                    ELSE Kind(q) = "none" /\ q = window.last + 1
           /\ \A q \in InWindow : Desc(q).type \in {"interface", "endpoint", "association", "unknown"}
           /\ \A q \in InWindow : Desc(q).type = "endpoint" => \E p \in Interfaces : p < q /\ q \in EndpointsOf(p)
           /\ \A p \in Interfaces : Desc(p).number \in 0..(Desc(First).count - 1)
           /\ \A n \in 0..(Desc(First).count - 1) : \E p \in Interfaces : Desc(p).number = n
           /\ \A p, q \in Interfaces : p < q => Desc(p).number <= Desc(q).number
           /\ \A p \in Interfaces : /\ Cardinality(EndpointsOf(p)) = Desc(p).endpoints
                                    /\ Desc(p).endpoints \in Nat /\ Desc(p).endpoints <= USB_MAXENDPOINTS
<1>1. /\ blob \in Blobs /\ window.last \in 0..LastPlace /\ PlacesOf("config") # {}
      /\ InWindow = (First + 1)..window.last /\ InWindow \subseteq Nat /\ InWindow \subseteq Places
      /\ Interfaces = {p \in InWindow : Desc(p).type = "interface"} /\ window.last \in Nat /\ First \in Nat
    BY LiveFacts
<1>2. window.piece = "none"
    BY DEF WellFormed
<1>3. \A q \in InWindow : Desc(q).type \in Types /\ DescriptorOK(Desc(q))
    BY <1>1, BlobFacts
<1>4. \A q \in InWindow : Desc(q).type \notin {"low", "device", "config"}
    BY DEF WellFormed, In
<1>5. \A q \in InWindow : Desc(q).type \in {"interface", "endpoint", "association", "unknown"}
    BY <1>3, <1>4 DEF Types
<1>6. ASSUME NEW q \in (First + 1)..(window.last + 1)
      PROVE  /\ Kind(q) \in {"interface", "endpoint", "association", "unknown", "none"}
             /\ IF q <= window.last THEN Kind(q) = Desc(q).type /\ q \in InWindow /\ Kind(q) # "none"
                ELSE Kind(q) = "none" /\ q = window.last + 1
  <2>1. CASE q <= window.last
    <3>1. q \in InWindow /\ Kind(q) = Desc(q).type
        BY <1>1, <2>1 DEF Kind
    <3>2. QED
        BY <1>5, <2>1, <3>1
  <2>2. CASE ~(q <= window.last)
    <3>1. Kind(q) = "none" /\ q = window.last + 1
        BY <1>1, <1>2, <2>2 DEF Kind
    <3>2. QED
        BY <2>2, <3>1
  <2>3. QED
      BY <2>1, <2>2
<1>7. ASSUME NEW q \in InWindow, Desc(q).type = "endpoint"
      PROVE  \E p \in Interfaces : p < q /\ q \in EndpointsOf(p)
  <2>1. PICK p \in Interfaces : q \in EndpointsOf(p)
      BY <1>7 DEF WellFormed, In
  <2>2. p < q
      BY <1>1, <2>1, EndpointsAre
  <2>3. QED
      BY <2>1, <2>2
<1>8. {Desc(p).number : p \in Interfaces} = 0..(Desc(First).count - 1)
    BY DEF WellFormed
<1>9. ASSUME NEW n \in 0..(Desc(First).count - 1)
      PROVE  \E p \in Interfaces : Desc(p).number = n
    BY <1>8, Zenon
<1>10. \A p \in Interfaces : Desc(p).number \in 0..(Desc(First).count - 1)
    BY <1>8
<1>11. \A p \in Interfaces : Desc(p).endpoints \in Nat
    BY <1>1, <1>3 DEF DescriptorOK
<1>12. QED
    BY <1>2, <1>5, <1>6, <1>7, <1>9, <1>10, <1>11 DEF WellFormed

\* Behind the next setting or association no endpoint is of an earlier setting.
LEMMA EndpointsBelow ==
    ASSUME blob \in Blobs, window.last \in 0..LastPlace, PlacesOf("config") # {}, NEW p \in Nat, NEW r \in InWindow,
           Desc(r).type \in {"interface", "association"}, p < r, NEW q \in EndpointsOf(p)
    PROVE  q < r
<1>1. InWindow \subseteq Nat
    BY WindowPlaces
<1>2. q \in InWindow /\ \A x \in (p + 1)..q : x \in InWindow => Desc(x).type \notin {"interface", "association"}
    BY EndpointsAre
<1>3. r \notin (p + 1)..q
    BY <1>2
<1>4. QED
    BY <1>1, <1>2, <1>3

\* A setting is in the element that has its number.
LEMMA NumberFacts ==
    ASSUME BaseInv, TreeInv, Parsing \/ Scanning, KeptTree
    PROVE  /\ \A i \in Trees : \A a \in SettingsOf(i) : /\ i < Built /\ a.at \in Interfaces /\ a.at < pos
                                                       /\ Desc(a.at).number = i
           /\ \A p \in Interfaces : p < pos => \E i \in Trees : \E a \in SettingsOf(i) : a.at = p
<1>1. InPlace /\ Elements /\ Counts
    BY LiveFacts DEF TreeInv
<1>2. \A i \in Trees : i \in Nat
    BY LiveFacts
<1>3. Built \in Nat
    BY BuiltFacts
<1>4. ASSUME NEW i \in Trees, NEW a \in SettingsOf(i)
      PROVE  i < Built /\ a.at \in Interfaces /\ a.at < pos /\ Desc(a.at).number = i
  <2>1. Tree(i) # <<>>
      BY DEF SettingsOf, ToSet
  <2>2. i < Built
      BY <1>1, <1>2, <1>3, <2>1 DEF Counts
  <2>3. a.at \in Placed
      BY DEF Placed
  <2>4. Desc(a.at).number = i
      BY <1>1, <2>2 DEF Elements, KeptTree
  <2>5. QED
      BY <1>1, <2>2, <2>3, <2>4 DEF InPlace
<1>5. ASSUME NEW p \in Interfaces, p < pos
      PROVE  \E i \in Trees : \E a \in SettingsOf(i) : a.at = p
  <2>1. p \in Placed
      BY <1>1, <1>5 DEF InPlace
  <2>2. QED
      BY <2>1 DEF Placed
<1>6. QED
    BY <1>4, <1>5

\* While an interface is missing it is still to come.
LEMMA ToCome ==
    ASSUME BaseInv, TreeInv, KeptTree, WellFormed, pc = "configuration", parsed < config.count
    PROVE  \E p \in Interfaces : p >= pos /\ Desc(p).number = parsed
<1>1. Parsing /\ Built = parsed
    BY DEF Parsing, Built, Within
<1>2. parsed \in Nat
    BY <1>1, BuiltFacts
<1>3. config.count = Desc(First).count /\ config.count \in Nat
    BY <1>1, BuiltFacts DEF KeptTree
<1>4. PICK p \in Interfaces : Desc(p).number = parsed
    BY <1>1, <1>2, <1>3, WellFormedFacts
<1>5. p \in Nat /\ pos \in Nat
    BY <1>1, LiveFacts
<1>6. CASE p < pos
  <2>1. PICK i \in Trees : \E a \in SettingsOf(i) : a.at = p
      BY <1>1, <1>6, NumberFacts
  <2>2. i < Built /\ Desc(p).number = i /\ i \in Nat
      BY <1>1, <2>1, NumberFacts, LiveFacts
  <2>3. QED
      BY <1>1, <1>2, <1>4, <2>2
<1>7. QED
    BY <1>4, <1>5, <1>6

\* Between two elements an association stands, or the next interface.
LEMMA LoopKept ==
    ASSUME BaseInv, TreeInv, KeptTree, WellFormed, pc = "configuration", parsed < config.count
    PROVE  /\ More /\ Skip(pos) \in pos..window.last /\ Skip(pos) \in InWindow
           /\ Kind(Skip(pos)) = Desc(Skip(pos)).type
           /\ Kind(Skip(pos)) \in {"interface", "association"}
           /\ Kind(Skip(pos)) = "interface" => Skip(pos) \in Interfaces /\ Desc(Skip(pos)).number = parsed
           /\ \A r \in pos..(Skip(pos) - 1) : Desc(r).type = "unknown"
<1> DEFINE s == Skip(pos)
<1>1. Parsing
    BY DEF Parsing
<1>2. /\ blob \in Blobs /\ window.last \in 0..LastPlace /\ PlacesOf("config") # {} /\ First \in Nat /\ pos \in Nat
      /\ pos \in (First + 1)..(window.last + 1) /\ InWindow = (First + 1)..window.last /\ InWindow \subseteq Nat
      /\ Interfaces = {p \in InWindow : Desc(p).type = "interface"} /\ window.last \in Nat
    BY <1>1, LiveFacts
<1>3. pos \in 1..(window.last + 1)
    BY <1>2
<1>4. s \in pos..(window.last + 1) /\ Kind(s) # "unknown" /\ \A r \in pos..(s - 1) : Desc(r).type = "unknown"
    BY <1>2, <1>3, SkipFacts
<1> HIDE DEF s
<1>5. PICK p \in Interfaces : p >= pos /\ Desc(p).number = parsed
    BY ToCome
<1>6. p \in InWindow /\ p \in Nat /\ Desc(p).type = "interface" /\ p <= window.last
    BY <1>2
<1>7. p >= s
  <2>1. p \notin pos..(s - 1)
      BY <1>4, <1>6
  <2>2. QED
      BY <1>2, <1>4, <1>5, <1>6, <2>1
<1>8. s \in pos..window.last /\ s \in InWindow /\ s \in Nat /\ s \in (First + 1)..(window.last + 1) /\ pos <= window.last
    BY <1>2, <1>4, <1>6, <1>7
<1>9. Kind(s) = Desc(s).type /\ Kind(s) \in {"interface", "endpoint", "association"}
    BY <1>1, <1>4, <1>8, WellFormedFacts
<1>10. Kind(s) # "endpoint"
  <2> SUFFICES ASSUME Kind(s) = "endpoint"
               PROVE  FALSE
      OBVIOUS
  <2>1. PICK o \in Interfaces : o < s /\ s \in EndpointsOf(o)
      BY <1>1, <1>8, <1>9, WellFormedFacts
  <2>2. o \in Nat /\ Desc(o).type = "interface"
      BY <1>2
  <2>3. o \notin pos..(s - 1)
      BY <1>4, <2>2
  <2>4. o < pos
      BY <1>2, <1>8, <2>1, <2>2, <2>3
  <2>5. s < pos
      BY <2>1, <2>4 DEF KeptTree
  <2>6. QED
      BY <1>2, <1>8, <2>5
<1>11. ASSUME Kind(s) = "interface"
       PROVE  s \in Interfaces /\ Desc(s).number = parsed
  <2>1. s \in Interfaces
      BY <1>2, <1>8, <1>9, <1>11
  <2>2. Desc(s).number >= parsed
      BY <1>8, <2>1, <1>2 DEF KeptTree
  <2>3. Desc(s).number <= parsed
    <3>1. CASE p = s
        BY <1>5, <3>1, <1>1, BuiltFacts
    <3>2. CASE p # s
        BY <1>1, <1>5, <1>6, <1>7, <1>8, <2>1, <3>2, WellFormedFacts
    <3>3. QED
        BY <3>1, <3>2
  <2>4. Desc(s).number \in Nat /\ parsed \in Nat
    <3>1. Desc(First).count \in Nat
        BY <1>1, BuiltFacts DEF KeptTree
    <3>2. QED
        BY <1>1, <2>1, <3>1, BuiltFacts, WellFormedFacts
  <2>5. QED
      BY <2>1, <2>2, <2>3, <2>4
<1>12. More
    BY <1>8 DEF More
<1>13. QED
    BY <1>4, <1>8, <1>9, <1>10, <1>11, <1>12 DEF s

\* The endpoints of the setting that is being parsed: it wants one more exactly when one comes.
LEMMA OpenFacts ==
    ASSUME BaseInv, TreeInv, KeptTree, WellFormed, pc = "endpoints"
    PROVE  /\ Setting \in SettingsOf(parsed) /\ parsed \in Trees /\ Setting.at \in Interfaces /\ Setting.at < pos
           /\ Setting.at \in Nat /\ Desc(Setting.at).number = parsed
           /\ pos \in (First + 1)..(window.last + 1) /\ Kind(pos) \in {"interface", "endpoint", "association", "none"}
           /\ Kind(pos) = "none" <=> pos = window.last + 1
           /\ Kind(pos) # "none" => pos \in InWindow /\ Kind(pos) = Desc(pos).type
           /\ Kind(pos) = "endpoint" <=> Wanted
           /\ Kind(pos) = "endpoint" => pos \in EndpointsOf(Setting.at)
           /\ Kind(pos) # "endpoint" => \A p \in Interfaces : p < pos => \A q \in EndpointsOf(p) : q < pos
           /\ Setting.bNumEndpoints = Desc(Setting.at).endpoints
<1> DEFINE s == Setting.at
           E == EndpointsOf(s)
           X == {q \in E : q < pos}
<1>1. Parsing /\ Within
    BY DEF Parsing, Within
<1>2. /\ blob \in Blobs /\ window.last \in 0..LastPlace /\ PlacesOf("config") # {} /\ First \in Nat /\ pos \in Nat
      /\ pos \in (First + 1)..(window.last + 1) /\ InWindow = (First + 1)..window.last /\ InWindow \subseteq Nat
      /\ Interfaces = {p \in InWindow : Desc(p).type = "interface"} /\ window.last \in Nat /\ Interfaces \subseteq Nat
      /\ InBuffer
    BY <1>1, LiveFacts
<1>3. Setting \in SettingsOf(parsed) /\ parsed \in Trees /\ Setting \in SettingTypes
    BY SetFacts
<1>4. s \in Interfaces /\ s < pos /\ s \in Nat /\ Desc(s).number = parsed
    BY <1>1, <1>2, <1>3, NumberFacts
<1>5. /\ Kind(pos) \in {"interface", "endpoint", "association", "none"}
      /\ Kind(pos) = "none" <=> pos = window.last + 1
      /\ Kind(pos) # "none" => pos \in InWindow /\ Kind(pos) = Desc(pos).type
  <2>1. Kind(pos) # "unknown"
      BY <1>1, <1>2 DEF InBuffer
  <2>2. QED
      BY <1>1, <1>2, <2>1, WellFormedFacts
<1>6. SettingKept(Setting)
    BY <1>3 DEF KeptTree
<1>7. Setting.endpoints \in Seq(EndpointTypes) /\ Len(Setting.endpoints) \in Nat
    BY <1>3, SeqFacts DEF SettingTypes
<1>8. E \subseteq InWindow /\ \A q \in E : Desc(q).type = "endpoint"
    BY <1>2, <1>4, EndpointsAre
<1>9. IsFiniteSet(E)
  <2>1. IsFiniteSet((First + 1)..window.last)
      BY <1>2, FS_Interval
  <2>2. QED
      BY <1>2, <1>8, <2>1, FS_Subset
<1>10. IsFiniteSet(X) /\ Cardinality(X) = Len(Setting.endpoints)
    BY <1>2, <1>6, <1>7, <1>8, OrderCard DEF SettingKept
<1>11. Setting.bNumEndpoints = Cardinality(E) /\ Setting.bNumEndpoints = Desc(s).endpoints
    BY <1>1, <1>4, <1>6, WellFormedFacts DEF SettingKept
<1>12. Cardinality(E) \in Nat
    BY <1>9, FS_CardinalityType
<1>13. Wanted <=> Cardinality(X) < Cardinality(E)
    BY <1>10, <1>11 DEF Wanted
<1>14. ASSUME Kind(pos) = "endpoint"
       PROVE  pos \in E
  <2>1. \A r \in (s + 1)..(pos - 1) : Desc(r).type \notin {"interface", "association"}
      BY <1>1 DEF TreeInv, InPlace
  <2>2. pos \in InWindow /\ Desc(pos).type = "endpoint"
      BY <1>5, <1>14
  <2>3. \A r \in (s + 1)..pos : r = pos \/ r \in (s + 1)..(pos - 1)
      BY <1>2, <1>4
  <2>4. \A r \in (s + 1)..pos : r \in InWindow => Desc(r).type \notin {"interface", "association"}
      BY <2>1, <2>2, <2>3
  <2>5. QED
      BY <1>2, <1>4, <2>2, <2>4, EndpointsAre
<1>15. ASSUME Kind(pos) # "endpoint", NEW p \in Interfaces, p < pos, NEW q \in EndpointsOf(p)
       PROVE  q < pos
  <2>1. CASE Kind(pos) = "none"
    <3>1. q \in InWindow
        BY <1>2, EndpointsAre
    <3>2. QED
        BY <1>2, <1>5, <2>1, <3>1
  <2>2. CASE Kind(pos) # "none"
      BY <1>2, <1>5, <1>15, <2>2, EndpointsBelow
  <2>3. QED
      BY <2>1, <2>2
<1>16. X = E => ~Wanted
    BY <1>12, <1>13
<1>17. X # E => Wanted
  <2>1. X \subseteq E
      OBVIOUS
  <2>2. Cardinality(X) <= Cardinality(E) /\ (Cardinality(X) = Cardinality(E) => X = E)
      BY <1>9, <2>1, FS_Subset
  <2>3. QED
      BY <1>10, <1>12, <1>13, <2>2, <1>7
<1>18. Kind(pos) = "endpoint" <=> Wanted
  <2>1. CASE Kind(pos) = "endpoint"
    <3>1. pos \in E /\ pos \notin X
        BY <1>2, <1>14, <2>1
    <3>2. QED
        BY <1>17, <2>1, <3>1
  <2>2. CASE Kind(pos) # "endpoint"
      BY <1>4, <1>15, <1>16, <2>2
  <2>3. QED
      BY <2>1, <2>2
<1>19. QED
    BY <1>2, <1>3, <1>4, <1>5, <1>11, <1>14, <1>15, <1>18

\* Settings are kept while no endpoint of theirs is passed.
LEMMA SettingsSame ==
    ASSUME BaseInv, Parsing \/ Scanning, blob' = blob, window' = window,
           NEW n \in pos..(window.last + 1), pos' = n, NEW a \in SettingTypes, a.at \in Nat, SettingKept(a),
           \A r \in pos..(n - 1) : r \notin EndpointsOf(a.at)
    PROVE  SettingKept(a)'
<1>1. /\ blob \in Blobs /\ window.last \in 0..LastPlace /\ PlacesOf("config") # {} /\ InWindow \subseteq Nat
      /\ pos \in Nat /\ window.last \in Nat
    BY LiveFacts
<1>2. Desc(a.at)' = Desc(a.at) /\ EndpointsOf(a.at)' = EndpointsOf(a.at)
    BY Fixed, FixedWindow
<1>3. \A q \in EndpointsOf(a.at) : q \in Nat
    BY <1>1, EndpointsAre
<1>4. ASSUME NEW q \in EndpointsOf(a.at)
      PROVE  q < n <=> q < pos
  <2>1. q \notin pos..(n - 1) /\ q \in Nat
      BY <1>3
  <2>2. QED
      BY <1>1, <2>1
<1>5. {q \in EndpointsOf(a.at) : q < n} = {q \in EndpointsOf(a.at) : q < pos}
    BY <1>4
<1>6. Ats(a.endpoints)' = Ats(a.endpoints)
    BY DEF Ats
<1>7. QED
    BY <1>2, <1>5, <1>6 DEF SettingKept, AreInOrder

LEMMA KeptGetConfig ==
    ASSUME BaseInv, GetConfig
    PROVE  KeptInv'
<1>1. /\ blob' = blob /\ pc' = "configuration" /\ parsed' = parsed /\ parsed = 0 /\ pos' = First + 1
      /\ config' = [count |-> Desc(First).count, extra |-> {},
                    interfaces |-> [i \in 0..(Desc(First).count - 1) |-> <<>>]]
    BY DEF GetConfig, BaseInv, Fresh
<1>2. First' = First /\ (\A p : Desc(p)' = Desc(p)) /\ Typed'
    BY <1>1, Fixed, BaseGetConfig DEF BaseInv
<1>3. Parsing' /\ ~Scanning' /\ Built' = 0
    BY <1>1 DEF Parsing, Scanning, Built, Within
<1>4. Trees' = 0..(Desc(First).count - 1) /\ \A i \in Trees' : Tree(i)' = <<>> /\ i >= 0
    BY <1>1 DEF Trees, Tree
<1>5. \A i \in Trees' : SettingsOf(i)' = {}
    BY <1>4 DEF SettingsOf, ToSet
<1>6. /\ \A p \in Interfaces' : p \in Nat /\ p > First /\ Desc(p).number \in Nat
      /\ First \in Nat
  <2>1. Places' = Places /\ blob \in Blobs /\ PlacesOf("config") # {}
      BY <1>1, TypedFacts, Fixed DEF BaseInv, GetConfig
  <2>2. First \in Nat /\ Places \subseteq Nat
      BY <2>1, BlobFacts, WindowFacts
  <2>3. ASSUME NEW p \in Interfaces'
        PROVE  p \in Nat /\ p > First /\ Desc(p).number \in Nat
    <3>1. p \in Places' /\ First' < p /\ Desc(p)'.type = "interface"
        BY <2>3 DEF Interfaces, In, InWindow
    <3>2. p \in Places /\ First < p /\ Desc(p).type = "interface"
        BY <1>2, <2>1, <3>1
    <3>3. DescriptorOK(Desc(p))
        BY <2>1, <3>2, BlobFacts
    <3>4. QED
        BY <2>2, <3>2, <3>3 DEF DescriptorOK
  <2>4. QED
      BY <2>2, <2>3
<1>7. \A p \in Interfaces' : Desc(p).number >= parsed' /\ ~(p < pos')
    BY <1>1, <1>6
<1>8. KeptTree'
  <2>1. \A i \in Trees' : ~(i < Built')
    <3>1. \A i \in 0..(Desc(First).count - 1) : i >= 0
        OBVIOUS
    <3>2. QED
        BY <1>3, <1>4
  <2>2. Trees' = 0..(Desc(First)'.count - 1) /\ config'.count = Desc(First)'.count
      BY <1>1, <1>2, <1>4
  <2>3. QED
      BY <1>1, <1>2, <1>3, <1>5, <1>7, <2>1, <2>2 DEF KeptTree
<1>9. QED
    BY <1>1, <1>8 DEF KeptInv

\* A step that leaves the tree as it is and passes no endpoint.
LEMMA KeptSame ==
    ASSUME BaseInv, TreeInv, KeptTree, Parsing \/ Scanning, blob' = blob, window' = window,
           config'.interfaces = config.interfaces, config'.count = config.count,
           NEW n \in pos..(window.last + 1), pos' = n,
           \A r \in pos..(n - 1) : Desc(r).type # "endpoint", Built' = Built,
           pc' = "configuration" => \A p \in Interfaces : p >= n => Desc(p).number >= parsed',
           Scanning' => \A p \in Interfaces : p < n,
           pc' # "endpoints" => \A p \in Interfaces : p < n => \A q \in EndpointsOf(p) : q < n
    PROVE  KeptTree'
<1>1. First' = First /\ (\A p : Desc(p)' = Desc(p)) /\ Interfaces' = Interfaces
      /\ \A p : EndpointsOf(p)' = EndpointsOf(p)
    BY Fixed, FixedWindow
<1>2. Trees' = Trees /\ (\A i : Tree(i)' = Tree(i)) /\ (\A i : SettingsOf(i)' = SettingsOf(i))
    BY DEF Trees, Tree, SettingsOf
<1>3. ASSUME NEW i \in Trees, NEW a \in SettingsOf(i)
      PROVE  SettingKept(a)'
  <2>1. a \in SettingTypes /\ a.at \in Nat
      BY LiveFacts
  <2>2. \A q \in EndpointsOf(a.at) : Desc(q).type = "endpoint"
      BY <2>1, LiveFacts, EndpointsAre
  <2>3. SettingKept(a)
      BY DEF KeptTree
  <2>4. QED
      BY <2>1, <2>2, <2>3, SettingsSame
<1>4. Trees' = 0..(Desc(First)'.count - 1) /\ config'.count = Desc(First)'.count
    BY <1>1, <1>2 DEF KeptTree
<1>5. \A i \in Trees' : i < Built' => Tree(i)' # <<>> /\ Desc(Tree(i)[1].at)'.number = i
    BY <1>1, <1>2 DEF KeptTree
<1>6. \A i \in Trees' : \A a \in SettingsOf(i)' : SettingKept(a)'
    BY <1>2, <1>3
<1>7. QED
    BY <1>1, <1>2, <1>4, <1>5, <1>6 DEF KeptTree

LEMMA KeptAssociation ==
    ASSUME BaseInv, TreeInv, KeptTree, WellFormed, ParseAssociation
    PROVE  pc' = pc /\ KeptTree'
<1> DEFINE s == Skip(pos)
           n == Skip(s + 1)
<1>1. pc = "configuration" /\ Parsing /\ parsed < config.count
    BY DEF ParseAssociation, Loops, Parsing
<1>2. /\ blob \in Blobs /\ window.last \in 0..LastPlace /\ First \in Nat /\ pos \in Nat /\ window.last \in Nat
      /\ pos \in (First + 1)..(window.last + 1) /\ InWindow = (First + 1)..window.last
      /\ Interfaces = {p \in InWindow : Desc(p).type = "interface"} /\ Interfaces \subseteq Nat
    BY <1>1, LiveFacts
<1>3. s \in pos..window.last /\ Kind(s) # "none"
    BY <1>1, LoopKept
<1>4. s + 1 \in 1..(window.last + 1)
    BY <1>2, <1>3
<1>5. n \in (s + 1)..(window.last + 1)
    BY <1>2, <1>4, SkipFacts
<1>6. n \in (First + 1)..(window.last + 1)
    BY <1>2, <1>3, <1>5
<1>7. Kind(n) # "low"
    BY <1>1, <1>6, WellFormedFacts
<1>8. pc' = pc
    BY <1>3, <1>7 DEF ParseAssociation
<1>9. /\ Kind(s) = "association" /\ pos' = n /\ parsed' = parsed /\ blob' = blob /\ window' = window
      /\ config'.interfaces = config.interfaces /\ config'.count = config.count
    BY <1>8, AssociationFacts
<1>10. Desc(s).type = "association" /\ \A r \in pos..(n - 1) : r # s => Desc(r).type = "unknown"
    BY <1>1, <1>8, <1>9, LoopKept, TreeAssociation
<1> HIDE DEF s, n
<1>11. n \in pos..(window.last + 1) /\ \A r \in pos..(n - 1) : Desc(r).type \notin {"endpoint", "interface"}
    BY <1>2, <1>3, <1>5, <1>10
<1>12. \A p \in Interfaces : p < n => p < pos
  <2> SUFFICES ASSUME NEW p \in Interfaces, p < n
               PROVE  p < pos
      OBVIOUS
  <2>1. p \in Nat /\ Desc(p).type = "interface"
      BY <1>2
  <2>2. p \notin pos..(n - 1)
      BY <1>11, <2>1
  <2>3. QED
      BY <1>2, <1>11, <2>1, <2>2
<1>13. \A p \in Interfaces : p < n => \A q \in EndpointsOf(p) : q < n
  <2> SUFFICES ASSUME NEW p \in Interfaces, p < n, NEW q \in EndpointsOf(p)
               PROVE  q < n
      OBVIOUS
  <2>1. q < pos
      BY <1>1, <1>12 DEF KeptTree
  <2>2. q \in InWindow
      BY <1>1, <1>2, LiveFacts, EndpointsAre
  <2>3. QED
      BY <1>2, <1>11, <2>1, <2>2
<1>14. \A p \in Interfaces : p >= n => Desc(p).number >= parsed'
    BY <1>1, <1>2, <1>9, <1>11 DEF KeptTree
<1>15. Built' = Built /\ ~Scanning'
    BY <1>1, <1>8, <1>9 DEF Built, Within, Scanning
<1>16. QED
    BY <1>1, <1>8, <1>9, <1>11, <1>13, <1>14, <1>15, KeptSame

LEMMA KeptBegin ==
    ASSUME BaseInv, TreeInv, KeptTree, WellFormed, ParseInterface \/ ParseAlternate
    PROVE  pc' = "endpoints" /\ KeptTree'
<1> DEFINE b == Begun
           n == After
<1>1. /\ Parsing /\ pc \in {"configuration", "endpoints"} /\ parsed \in Trees /\ parsed < config.count
      /\ pc = "configuration" => Loops
      /\ pc = "endpoints" => ~Wanted /\ Alternates
      /\ b \in Nat /\ b >= pos /\ b <= window.last
      /\ n \in (b + 1)..(window.last + 1) /\ pos' = n
      /\ UNCHANGED <<blob, window, parsed, info, todo>>
      /\ config'.count = config.count /\ DOMAIN config'.interfaces = Trees
      /\ config'.interfaces[parsed] = Append(Tree(parsed), NewSetting(b))
      /\ \A j \in Trees : j # parsed => config'.interfaces[j] = Tree(j)
      /\ Tree(parsed) \in Seq(SettingTypes) /\ NewSetting(b) \in SettingTypes
    BY BeginFacts
<1>2. /\ blob \in Blobs /\ window.last \in 0..LastPlace /\ First \in Nat /\ pos \in Nat /\ window.last \in Nat
      /\ pos \in (First + 1)..(window.last + 1) /\ InWindow = (First + 1)..window.last /\ PlacesOf("config") # {}
      /\ Interfaces = {p \in InWindow : Desc(p).type = "interface"} /\ Interfaces \subseteq Nat
      /\ \A i \in Trees : Tree(i) \in Seq(SettingTypes) /\ i \in Nat
    BY <1>1, LiveFacts
<1>3. /\ b \in Interfaces /\ Desc(b).number = parsed
      /\ \A r \in pos..(b - 1) : Desc(r).type = "unknown"
      /\ \A p \in Interfaces : p < pos => \A q \in EndpointsOf(p) : q < pos
      /\ Tree(parsed) # <<>> => Desc(Tree(parsed)[1].at).number = parsed
  <2>1. CASE pc = "configuration"
    <3>1. b = Skip(pos) /\ Kind(b) = "interface"
        BY <2>1, BeginFacts DEF Begun
    <3>2. Tree(parsed) = <<>>
        BY <1>1, <2>1, LoopFacts
    <3>3. QED
        BY <1>1, <2>1, <3>1, <3>2, LoopKept DEF KeptTree
  <2>2. CASE pc = "endpoints"
    <3>1. b = pos /\ ~Wanted /\ Kind(pos) = "interface" /\ IsSame(pos)
        BY <1>1, <2>2 DEF Begun, Alternates
    <3>2. parsed < Built
        BY <1>1, <1>2, <2>2 DEF Built, Within
    <3>3. Desc(Tree(parsed)[1].at).number = parsed
        BY <1>1, <3>2 DEF KeptTree
    <3>4. Desc(pos).number = parsed
        BY <3>1, <3>3 DEF IsSame, Tree
    <3>5. pos \in InWindow /\ Desc(pos).type = "interface"
        BY <2>2, <3>1, OpenFacts
    <3>6. QED
        BY <1>2, <2>2, <3>1, <3>3, <3>4, <3>5, OpenFacts
  <2>3. QED
      BY <1>1, <2>1, <2>2
<1>4. \A r \in (b + 1)..(n - 1) : Desc(r).type = "unknown"
  <2>1. b + 1 \in 1..(window.last + 1)
      BY <1>1, <1>2
  <2>2. QED
      BY <1>2, <2>1, SkipFacts DEF After
<1>5. n \in (First + 1)..(window.last + 1) /\ n \in pos..(window.last + 1)
    BY <1>1, <1>2
<1>6. Kind(n) \notin {"low", "over"}
    BY <1>1, <1>5, WellFormedFacts
<1>7. Desc(b).endpoints \in Nat /\ ~(Desc(b).endpoints > USB_MAXENDPOINTS)
  <2>1. Desc(b).endpoints \in Nat /\ Desc(b).endpoints <= USB_MAXENDPOINTS
      BY <1>1, <1>3, WellFormedFacts
  <2>2. USB_MAXENDPOINTS \in Nat
      BY BlobAssumption
  <2>3. QED
      BY <2>1, <2>2
<1>8. pc' = "endpoints"
    BY <1>6, <1>7, BeginFacts
<1>9. /\ First' = First /\ (\A p : Desc(p)' = Desc(p)) /\ Interfaces' = Interfaces
      /\ \A p : EndpointsOf(p)' = EndpointsOf(p)
    BY <1>1, Fixed, FixedWindow
<1>10. b <= n - 1 /\ \A r \in pos..(n - 1) : r \in pos..(b - 1) \/ r = b \/ r \in (b + 1)..(n - 1)
    BY <1>1, <1>2
<1>11. \A r \in pos..(n - 1) : Desc(r).type # "endpoint"
    BY <1>2, <1>3, <1>4, <1>10
<1>12. NewSetting(b).at = b /\ NewSetting(b).endpoints = <<>> /\ NewSetting(b).bNumEndpoints = Desc(b).endpoints
       /\ (NewSetting(b).allocated <=> Desc(b).endpoints > 0)
    BY <1>6 DEF NewSetting, After
<1> HIDE DEF b, n
<1>13. /\ Trees' = Trees
       /\ \A i \in Trees : Tree(i)' = (IF i = parsed THEN Append(Tree(parsed), NewSetting(b)) ELSE Tree(i))
       /\ \A i \in Trees : SettingsOf(i)' = (IF i = parsed THEN SettingsOf(parsed) \cup {NewSetting(b)}
                                            ELSE SettingsOf(i))
  <2>1. /\ Trees' = Trees
        /\ \A i \in Trees : Tree(i)' = (IF i = parsed THEN Append(Tree(parsed), NewSetting(b)) ELSE Tree(i))
      BY <1>1 DEF Trees, Tree
  <2>2. ToSet(Append(Tree(parsed), NewSetting(b))) = ToSet(Tree(parsed)) \cup {NewSetting(b)}
      BY <1>1, AppendFacts
  <2>3. QED
      BY <2>1, <2>2 DEF SettingsOf
<1>14. Built' = parsed + 1 /\ parsed \in Nat
    BY <1>1, <1>2, <1>8 DEF Built, Within
<1>15. ASSUME NEW i \in Trees, i < Built'
       PROVE  Tree(i)' # <<>> /\ Desc(Tree(i)'[1].at).number = i
  <2>1. CASE i # parsed
    <3>1. i < parsed
        BY <1>2, <1>14, <1>15, <2>1
    <3>2. i < Built
        BY <1>1, <1>2, <3>1 DEF Built, Within
    <3>3. QED
        BY <1>13, <2>1, <3>2 DEF KeptTree
  <2>2. CASE i = parsed
    <3> DEFINE s == Tree(parsed)
               t == Append(s, NewSetting(b))
    <3>1. t # <<>> /\ Len(s) \in Nat /\ (\A k \in 1..Len(s) : t[k] = s[k]) /\ t[Len(s) + 1] = NewSetting(b)
        BY <1>1, AppendFacts, SeqFacts
    <3>2. CASE s = <<>>
      <4>1. t[1] = NewSetting(b)
          BY <3>1, <3>2
      <4>2. QED
          BY <1>3, <1>12, <1>13, <2>2, <3>1, <4>1
    <3>3. CASE s # <<>>
      <4>1. 1 \in 1..Len(s)
          BY <1>1, <3>1, <3>3, SeqFacts
      <4>2. t[1] = s[1]
          BY <3>1, <4>1
      <4>3. QED
          BY <1>3, <1>13, <2>2, <3>1, <3>3, <4>2
    <3>4. QED
        BY <3>2, <3>3
  <2>3. QED
      BY <2>1, <2>2
<1>16. ASSUME NEW i \in Trees, NEW a \in SettingsOf(i)
       PROVE  SettingKept(a)'
  <2>1. a \in SettingTypes /\ a.at \in Nat
      BY <1>1, LiveFacts
  <2>2. \A q \in EndpointsOf(a.at) : Desc(q).type = "endpoint"
      BY <1>2, <2>1, EndpointsAre
  <2>3. SettingKept(a)
      BY DEF KeptTree
  <2>4. QED
      BY <1>1, <1>5, <1>11, <2>1, <2>2, <2>3, SettingsSame
<1>17. ASSUME NEW a, a = NewSetting(b)
       PROVE  SettingKept(a)'
  <2>1. ASSUME NEW q \in EndpointsOf(b), q < n
        PROVE  FALSE
    <3>1. q \in InWindow /\ b < q /\ Desc(q).type = "endpoint"
        BY <1>1, <1>2, EndpointsAre
    <3>2. q \in (b + 1)..(n - 1)
        BY <1>1, <1>2, <2>1, <3>1
    <3>3. QED
        BY <1>4, <3>1, <3>2
  <2>2. {q \in EndpointsOf(b) : q < n} = {}
      BY <2>1
  <2>3. Ats(a.endpoints)' = Ats(<<>>)
      BY <1>12, <1>17 DEF Ats
  <2>4. QED
      BY <1>1, <1>9, <1>12, <1>17, <2>2, <2>3, OrderEmpty DEF SettingKept, AreInOrder
<1>18. \A i \in Trees' : \A a \in SettingsOf(i)' : SettingKept(a)'
  <2> SUFFICES ASSUME NEW i \in Trees, NEW a \in SettingsOf(i)'
               PROVE  SettingKept(a)'
      BY <1>13, Zenon
  <2>1. a \in SettingsOf(i) \/ a = NewSetting(b)
      BY <1>13
  <2>2. QED
      BY <1>16, <1>17, <2>1
<1>19. Trees' = 0..(Desc(First)'.count - 1) /\ config'.count = Desc(First)'.count
    BY <1>1, <1>9, <1>13 DEF KeptTree
<1>20. \A i \in Trees' : i < Built' => Tree(i)' # <<>> /\ Desc(Tree(i)[1].at)'.number = i
    BY <1>9, <1>13, <1>15
<1>21. ~Scanning'
    BY <1>8 DEF Scanning
<1>22. QED
    BY <1>8, <1>18, <1>19, <1>20, <1>21 DEF KeptTree

LEMMA KeptEndpoint ==
    ASSUME BaseInv, TreeInv, KeptTree, WellFormed, ParseEndpoint
    PROVE  pc' = pc /\ KeptTree'
<1> DEFINE b == WithEndpoint
           n == Skip(pos + 1)
           s == Setting.at
<1>1. /\ pc = "endpoints" /\ Parsing /\ Within /\ pc' = pc /\ Kind(pos) = "endpoint"
      /\ n \in (pos + 1)..(window.last + 1) /\ pos' = n
      /\ UNCHANGED <<blob, window, header, parsed, info, todo>>
      /\ NewEndpoint \in EndpointTypes /\ b \in SettingTypes /\ Setting \in SettingTypes
      /\ b.at = s /\ b.extra = Setting.extra /\ b.endpoints = Append(Setting.endpoints, NewEndpoint)
      /\ b.bNumEndpoints = Setting.bNumEndpoints /\ b.allocated = Setting.allocated
      /\ config' = SetSetting(b)
    BY EndpointFacts
<1>2. /\ blob \in Blobs /\ window.last \in 0..LastPlace /\ First \in Nat /\ pos \in Nat /\ window.last \in Nat
      /\ pos \in (First + 1)..(window.last + 1) /\ InWindow = (First + 1)..window.last /\ PlacesOf("config") # {}
      /\ Interfaces = {p \in InWindow : Desc(p).type = "interface"} /\ Interfaces \subseteq Nat /\ InWindow \subseteq Nat
      /\ \A i \in Trees : Tree(i) \in Seq(SettingTypes) /\ i \in Nat
      /\ \A i \in Trees : \A a \in SettingsOf(i) : a \in SettingTypes /\ a.at \in Nat
    BY <1>1, LiveFacts
<1>3. /\ pos \in EndpointsOf(s) /\ NewEndpoint.at = pos
      /\ Saved(NewEndpoint.extra, pos)
      /\ ToSet(b.endpoints) = ToSet(Setting.endpoints) \cup {NewEndpoint}
      /\ \A r \in pos..(n - 1) : Desc(r).type \notin {"interface", "association"}
      /\ \A r \in (pos + 1)..(n - 1) : Desc(r).type = "unknown"
    BY <1>1, TreeEndpoint
<1>4. config'.count = config.count
    BY <1>1, SetFacts
<1> HIDE DEF b, n
<1>5. n \in pos..(window.last + 1) /\ pos < n
    BY <1>1, <1>2
<1>6. \A e \in ToSet(b.endpoints) :
          e \in ToSet(Setting.endpoints) \/ (e.at \in EndpointsOf(s) /\ e.at < n /\ Saved(e.extra, e.at))
    BY <1>3, <1>5
<1>7. /\ Trees' = Trees
      /\ \A i \in Trees : \A a \in SettingsOf(i)' : a # b => a \in SettingsOf(i) /\ a # Setting
      /\ \A i \in Trees : Tree(i) # <<>> => Tree(i)' # <<>> /\ Tree(i)'[1].at = Tree(i)[1].at
    BY <1>1, <1>3, <1>5, <1>6, TreeSet
<1>8. /\ First' = First /\ (\A p : Desc(p)' = Desc(p)) /\ Interfaces' = Interfaces
      /\ \A p : EndpointsOf(p)' = EndpointsOf(p)
    BY <1>1, Fixed, FixedWindow
<1>9. /\ s \in Interfaces /\ s < pos /\ s \in Nat /\ Setting \in SettingsOf(parsed) /\ parsed \in Trees
      /\ Desc(s).number = parsed
    BY <1>1, OpenFacts
<1>10. ASSUME NEW i \in Trees, NEW a \in SettingsOf(i), a # Setting
       PROVE  SettingKept(a)'
  <2>1. a \in SettingTypes /\ a.at \in Nat /\ a.at \in Interfaces /\ a.at < pos /\ Desc(a.at).number = i
      BY <1>1, <1>2, NumberFacts
  <2>2. a.at # s
    <3>1. CASE i # parsed
        BY <1>9, <2>1, <3>1
    <3>2. CASE i = parsed
      <4>1. /\ Tree(parsed) \in Seq(SettingTypes) /\ Tree(parsed) # <<>>
            /\ Setting = Tree(parsed)[Len(Tree(parsed))]
          BY <1>1, SetFacts
      <4>2. DOMAIN Tree(parsed) = 1..Len(Tree(parsed)) /\ Len(Tree(parsed)) \in Nat /\ Len(Tree(parsed)) \in DOMAIN Tree(parsed)
          BY <4>1, SeqFacts
      <4>3. PICK k \in DOMAIN Tree(parsed) : a = Tree(parsed)[k]
          BY <3>2 DEF SettingsOf, ToSet
      <4>4. k < Len(Tree(parsed))
          BY <1>10, <4>1, <4>2, <4>3
      <4>5. a.at < s
          BY <1>1, <1>9, <4>1, <4>2, <4>3, <4>4 DEF TreeInv, InPlace
      <4>6. QED
          BY <1>9, <2>1, <4>5
    <3>3. QED
        BY <3>1, <3>2
  <2>3. a.at < s
    <3>1. \A r \in (s + 1)..(pos - 1) : Desc(r).type \notin {"interface", "association"}
        BY <1>1 DEF TreeInv, InPlace
    <3>2. Desc(a.at).type = "interface"
        BY <1>2, <2>1
    <3>3. a.at \notin (s + 1)..(pos - 1)
        BY <3>1, <3>2
    <3>4. QED
        BY <1>2, <1>9, <2>1, <2>2, <3>3
  <2>4. ASSUME NEW r \in pos..(n - 1), r \in EndpointsOf(a.at)
        PROVE  FALSE
    <3>1. r < s
        BY <1>2, <1>9, <2>1, <2>3, <2>4, EndpointsBelow
    <3>2. QED
        BY <1>2, <1>5, <1>9, <2>4, <3>1
  <2>5. SettingKept(a)
      BY DEF KeptTree
  <2>6. QED
      BY <1>1, <1>5, <2>1, <2>4, <2>5, SettingsSame
<1>11. ASSUME NEW a, a = b
       PROVE  SettingKept(a)'
  <2> DEFINE X == {q \in EndpointsOf(s) : q < pos}
             Y == {q \in EndpointsOf(s) : q < n}
  <2>1. SettingKept(Setting)
      BY <1>9 DEF KeptTree
  <2>2. Setting.endpoints \in Seq(EndpointTypes)
      BY <1>1 DEF SettingTypes
  <2>3. AreInOrder(Ats(Setting.endpoints), X) /\ \A y \in X : y < NewEndpoint.at
      BY <1>3, <2>1 DEF SettingKept
  <2>4. AreInOrder(Ats(Append(Setting.endpoints, NewEndpoint)), X \cup {NewEndpoint.at})
      BY <1>1, <2>2, <2>3, OrderAppend
  <2>5. X \cup {pos} = Y
    <3>1. ASSUME NEW q \in Y
          PROVE  q \in X \/ q = pos
      <4>1. q \in InWindow /\ q \in Nat /\ Desc(q).type = "endpoint"
          BY <1>2, <1>9, <3>1, EndpointsAre
      <4>2. q \notin (pos + 1)..(n - 1)
          BY <1>3, <4>1
      <4>3. QED
          BY <1>2, <1>5, <3>1, <4>1, <4>2
    <3>2. \A q \in X : q \in Nat
        BY <1>2, <1>9, EndpointsAre
    <3>3. X \subseteq Y
        BY <1>2, <1>5, <3>2
    <3>4. QED
        BY <1>3, <1>5, <3>1, <3>3
  <2>6. AreInOrder(Ats(a.endpoints), Y)
      BY <1>1, <1>3, <1>11, <2>4, <2>5
  <2>7. a.bNumEndpoints = Desc(a.at).endpoints /\ (a.allocated <=> a.bNumEndpoints > 0) /\ a.at = s
      BY <1>1, <1>11, <2>1 DEF SettingKept
  <2>8. Ats(a.endpoints)' = Ats(a.endpoints)
      BY DEF Ats
  <2> HIDE DEF X
  <2>9. QED
      BY <1>1, <1>8, <2>6, <2>7, <2>8 DEF SettingKept, AreInOrder
<1>12. \A i \in Trees' : \A a \in SettingsOf(i)' : SettingKept(a)'
  <2> SUFFICES ASSUME NEW i \in Trees, NEW a \in SettingsOf(i)'
               PROVE  SettingKept(a)'
      BY <1>7, Zenon
  <2>1. a = b \/ (a \in SettingsOf(i) /\ a # Setting)
      BY <1>7
  <2>2. QED
      BY <1>10, <1>11, <2>1
<1>13. Trees' = 0..(Desc(First)'.count - 1) /\ config'.count = Desc(First)'.count
    BY <1>4, <1>7, <1>8 DEF KeptTree
<1>14. Built' = Built
    BY <1>1 DEF Built, Within
<1>15. ASSUME NEW i \in Trees, i < Built
       PROVE  Tree(i)' # <<>> /\ Desc(Tree(i)'[1].at).number = i
    BY <1>7, <1>15 DEF KeptTree
<1>16. \A i \in Trees' : i < Built' => Tree(i)' # <<>> /\ Desc(Tree(i)[1].at)'.number = i
    BY <1>7, <1>8, <1>14, <1>15
<1>17. ~Scanning' /\ pc' = "endpoints"
    BY <1>1 DEF Scanning
<1>18. QED
    BY <1>1, <1>12, <1>13, <1>16, <1>17 DEF KeptTree

\* The interface is done when the next one has another number, or an association comes.
LEMMA KeptInterfaceDone ==
    ASSUME BaseInv, TreeInv, KeptTree, WellFormed, InterfaceDone, pc # "interface_done"
    PROVE  pc' = "configuration" /\ KeptTree'
<1> DEFINE s == Setting.at
<1>1. /\ pc = "endpoints" /\ ~Wanted /\ ~Alternates /\ parsed' = parsed + 1 /\ pc' = "configuration"
      /\ UNCHANGED <<blob, window, pos, config>>
    BY DEF InterfaceDone
<1>2. Parsing /\ Within
    BY <1>1 DEF Parsing, Within
<1>3. /\ pos \in Nat /\ window.last \in Nat /\ InWindow \subseteq Nat /\ InWindow = (First + 1)..window.last
      /\ Interfaces = {p \in InWindow : Desc(p).type = "interface"} /\ parsed \in Nat
    BY <1>2, LiveFacts, BuiltFacts
<1>4. /\ s \in Interfaces /\ s < pos /\ s \in Nat /\ Desc(s).number = parsed /\ parsed \in Trees
      /\ Kind(pos) \in {"interface", "association", "none"}
      /\ Kind(pos) = "none" <=> pos = window.last + 1
      /\ Kind(pos) # "none" => pos \in InWindow /\ Kind(pos) = Desc(pos).type
      /\ \A p \in Interfaces : p < pos => \A q \in EndpointsOf(p) : q < pos
      /\ pos \in (First + 1)..(window.last + 1)
    BY <1>1, OpenFacts
<1>5. \A p \in Interfaces : Desc(p).number \in Nat
  <2>1. config.count = Desc(First).count /\ config.count \in Nat
      BY <1>2, BuiltFacts DEF KeptTree
  <2>2. QED
      BY <1>2, <2>1, WellFormedFacts
<1>6. ASSUME NEW p \in Interfaces, p >= pos
      PROVE  Desc(p).number >= parsed + 1
  <2>1. p \in Nat /\ p \in InWindow /\ Desc(p).type = "interface" /\ s < p
      BY <1>3, <1>4, <1>6
  <2>2. Desc(p).number >= parsed
      BY <1>2, <1>4, <2>1, WellFormedFacts
  <2>3. Desc(p).number # parsed
    <3>1. CASE Kind(pos) = "none"
        BY <1>3, <1>4, <1>6, <2>1, <3>1
    <3>2. CASE Kind(pos) = "association"
      <4>1. pos \in In("association") /\ pos < p
          BY <1>3, <1>4, <1>6, <2>1, <3>2 DEF In
      <4>2. Desc(s).number # Desc(p).number
          BY <1>4, <4>1 DEF WellFormed
      <4>3. QED
          BY <1>4, <4>2
    <3>3. CASE Kind(pos) = "interface"
      <4>1. pos \in Interfaces /\ ~IsSame(pos)
          BY <1>1, <1>3, <1>4, <3>3 DEF Alternates
      <4>2. parsed < Built
          BY <1>2, <1>3 DEF Built
      <4>3. Desc(Tree(parsed)[1].at).number = parsed
          BY <1>4, <4>2 DEF KeptTree
      <4>4. Desc(pos).number # parsed
          BY <4>1, <4>3 DEF IsSame, Tree
      <4>5. Desc(pos).number >= parsed
          BY <1>2, <1>4, <4>1, WellFormedFacts
      <4>6. p = pos \/ Desc(pos).number <= Desc(p).number
          BY <1>2, <1>3, <1>6, <2>1, <4>1, WellFormedFacts
      <4>7. QED
          BY <1>3, <1>5, <2>1, <4>1, <4>4, <4>5, <4>6
    <3>4. QED
        BY <1>4, <3>1, <3>2, <3>3
  <2>4. QED
      BY <1>3, <1>5, <2>2, <2>3
<1>7. Built' = Built /\ ~Scanning'
    BY <1>1, <1>2 DEF Built, Within, Scanning
<1>8. pos \in pos..(window.last + 1) /\ pos..(pos - 1) = {}
    BY <1>3, <1>4
<1>9. QED
    BY <1>1, <1>2, <1>4, <1>6, <1>7, <1>8, KeptSame

LEMMA KeptParsingDone ==
    ASSUME BaseInv, TreeInv, KeptTree, WellFormed, ParsingDone
    PROVE  KeptTree'
<1>1. /\ pc = "configuration" /\ ~(parsed < config.count /\ More) /\ pc' = "parsed"
      /\ UNCHANGED <<blob, window, pos, parsed, config>>
    BY DEF ParsingDone
<1>2. Parsing /\ ~Within
    BY <1>1 DEF Parsing, Within
<1>3. /\ pos \in Nat /\ window.last \in Nat /\ Interfaces \subseteq Nat /\ Counts
      /\ pos \in (First + 1)..(window.last + 1) /\ First \in Nat
      /\ parsed \in Nat /\ config.count \in Nat
    BY <1>2, LiveFacts, BuiltFacts
<1>4. ~(parsed < config.count)
    BY <1>1, LoopKept
<1>5. parsed = config.count /\ Built = config.count
    BY <1>1, <1>2, <1>3, <1>4 DEF Counts, Built
<1>6. \A p \in Interfaces : p < pos
  <2> SUFFICES ASSUME NEW p \in Interfaces, p >= pos
               PROVE  FALSE
      BY <1>3
  <2>1. Desc(p).number >= config.count
      BY <1>1, <1>5 DEF KeptTree
  <2>2. Desc(p).number \in 0..(config.count - 1)
      BY <1>2, WellFormedFacts DEF KeptTree
  <2>3. QED
      BY <1>3, <2>1, <2>2
<1>7. \A p \in Interfaces : p < pos => \A q \in EndpointsOf(p) : q < pos
    BY <1>1 DEF KeptTree
<1>8. Built' = Built
    BY <1>1, <1>5 DEF Built, Within
<1>9. pos \in pos..(window.last + 1) /\ pos..(pos - 1) = {}
    BY <1>3
<1>10. QED
    BY <1>1, <1>2, <1>6, <1>7, <1>8, <1>9, KeptSame

LEMMA KeptScans ==
    ASSUME BaseInv, TreeInv, KeptTree, Scanning, Scans
    PROVE  KeptTree'
<1>1. UNCHANGED <<blob, window, pos, parsed, config>> /\ pc' \in {"parsed", "control", "streaming", "blocks", "open"}
    BY DEF Scans
<1>2. pc # "configuration" /\ ~Within /\ pc # "endpoints"
    BY DEF Scanning, Within
<1>3. Built' = Built
    BY <1>1, <1>2 DEF Built, Within
<1>4. pos \in pos..(window.last + 1) /\ pos..(pos - 1) = {}
    BY LiveFacts
<1>5. \A p \in Interfaces : p < pos
    BY DEF KeptTree
<1>6. \A p \in Interfaces : p < pos => \A q \in EndpointsOf(p) : q < pos
    BY <1>2 DEF KeptTree
<1>7. QED
    BY <1>1, <1>3, <1>4, <1>5, <1>6, KeptSame

\* The errors that cannot be.
LEMMA KeptNever ==
    ASSUME BaseInv, TreeInv, KeptTree, WellFormed
    PROVE  ~(BadLength \/ ShortConfiguration \/ NoInterface \/ EndpointFails \/ EndpointsMissing)
<1>1. CASE BadLength \/ ShortConfiguration \/ NoInterface
  <2>1. Loops /\ pc = "configuration" /\ parsed < config.count
      BY <1>1 DEF BadLength, ShortConfiguration, NoInterface, Loops
  <2>2. Kind(Skip(pos)) \in {"interface", "association"}
      BY <2>1, LoopKept
  <2>3. Kind(Skip(pos)) # "interface" => Header = "association"
      BY <2>2 DEF Header
  <2>4. QED
      BY <1>1, <2>2, <2>3 DEF BadLength, ShortConfiguration, NoInterface
<1>2. CASE EndpointFails
  <2>1. pc = "endpoints" /\ Wanted /\ Parsing
      BY <1>2 DEF EndpointFails, Wanted, Parsing
  <2>2. Kind(pos) = "endpoint" /\ pos \in (First + 1)..(window.last + 1)
      BY <2>1, OpenFacts
  <2>3. pos <= window.last
      BY <2>1, <2>2, WellFormedFacts
  <2>4. /\ blob \in Blobs /\ window.last \in 0..LastPlace /\ First \in Nat /\ pos \in Nat /\ window.last \in Nat
      BY <2>1, LiveFacts
  <2>5. pos + 1 \in 1..(window.last + 1)
      BY <2>3, <2>4
  <2>6. Skip(pos + 1) \in (pos + 1)..(window.last + 1)
      BY <2>4, <2>5, SkipFacts
  <2>7. Skip(pos + 1) \in (First + 1)..(window.last + 1)
      BY <2>2, <2>4, <2>6
  <2>8. Kind(Skip(pos + 1)) # "low"
      BY <2>1, <2>7, WellFormedFacts
  <2>9. QED
      BY <1>2, <2>2, <2>8 DEF EndpointFails
<1>3. CASE EndpointsMissing
  <2>1. pc = "endpoints" /\ Wanted /\ Kind(pos) # "endpoint"
      BY <1>3 DEF EndpointsMissing, Wanted
  <2>2. QED
      BY <2>1, OpenFacts
<1>4. QED
    BY <1>1, <1>2, <1>3

LEMMA KeepsWindow ==
    ASSUME Next, pc # "start"
    PROVE  blob' = blob /\ window' = window /\ pc' # "start"
BY DEF Next, ParseConfiguration, GetDeviceInfo, NoConfig, GetConfig, ParsingDone, BadLength, ShortConfiguration,
       ParseAssociation, NoInterface, ParseInterface, ParseEndpoint, EndpointFails, EndpointsMissing,
       ParseAlternate, InterfaceDone, ParseSetting, Fail, ScanCrashes, NoControl, ScanControl, ParseUnit,
       ParseFails, ParseHeader, ScanStreaming, NoStreaming, StreamsScanned, ParseStreamBlock,
       FrameWithoutFormat, Crash, StreamScanned, ScanDone, Close, Ended, vars

LEMMA KeptStep ==
    ASSUME BaseInv, TreeInv, KeptInv, Next
    PROVE  KeptInv'
<1>1. CASE pc = "start"
  <2>1. NoConfig \/ GetConfig
      BY <1>1 DEF Next, ParseConfiguration, GetDeviceInfo, ParsingDone, BadLength, ShortConfiguration,
                  ParseAssociation, NoInterface, ParseInterface, ParseEndpoint, EndpointFails, EndpointsMissing,
                  ParseAlternate, InterfaceDone, Loops, Wanted, ScanCrashes, NoControl, ScanControl, ParseUnit,
                  ParseFails, ParseHeader, NextBlock, ScanStreaming, NoStreaming, StreamsScanned, ParseStreamBlock,
                  ParseInputHeader, ParseFormat, ParseFrame, ParseOther, FrameWithoutFormat, StreamBlock,
                  StreamScanned, ScanDone, Close, Ended
  <2>2. CASE NoConfig
    <3>1. window'.last = 0
        BY <1>1, <2>2 DEF NoConfig, BaseInv, Fresh
    <3>2. QED
        BY <3>1 DEF KeptInv, WellFormed
  <2>3. QED
      BY <2>1, <2>2, KeptGetConfig
<1>2. CASE pc # "start"
  <2>1. blob' = blob /\ window' = window /\ pc' # "start"
      BY <1>2, KeepsWindow
  <2>2. WellFormed' <=> WellFormed
      BY <1>2, <2>1, SameWellFormed
  <2> SUFFICES ASSUME WellFormed
               PROVE  pc' \notin {"io_error", "interface_done"} /\ (Parsing' \/ Scanning' => KeptTree')
      BY <2>2 DEF KeptInv
  <2>3. pc \notin {"io_error", "interface_done"} /\ (Parsing \/ Scanning => KeptTree)
      BY DEF KeptInv
  <2>4. ASSUME pc' \in {"refused", "crashed", "closed"}
        PROVE  ~Parsing' /\ ~Scanning'
      BY <2>4 DEF Parsing, Scanning
  <2>5. CASE ScanCrashes \/ NoControl \/ ParseFails \/ NoStreaming \/ FrameWithoutFormat \/ Close \/ Ended
    <3>1. pc' \in {"refused", "crashed", "closed"}
        BY <2>3, <2>5 DEF ScanCrashes, NoControl, ParseFails, NoStreaming, FrameWithoutFormat, Close, Ended, Fail,
                          Crash, vars
    <3>2. QED
        BY <2>4, <3>1
  <2>6. CASE BadLength \/ ShortConfiguration \/ NoInterface \/ EndpointFails \/ EndpointsMissing
    <3>1. Parsing
        BY <2>6 DEF BadLength, ShortConfiguration, NoInterface, EndpointFails, EndpointsMissing, Loops, Wanted, Parsing
    <3>2. QED
        BY <2>3, <2>6, <3>1, KeptNever
  <2>7. CASE ParsingDone
    <3>1. Parsing /\ pc' = "parsed"
        BY <2>7 DEF ParsingDone, Parsing
    <3>2. QED
        BY <2>3, <2>7, <3>1, KeptParsingDone
  <2>8. CASE ParseAssociation
    <3>1. Parsing /\ pc = "configuration"
        BY <2>8 DEF ParseAssociation, Loops, Parsing
    <3>2. QED
        BY <2>3, <2>8, <3>1, KeptAssociation
  <2>9. CASE ParseInterface \/ ParseAlternate
    <3>1. Parsing
        BY <2>9 DEF ParseInterface, ParseAlternate, Loops, Parsing
    <3>2. QED
        BY <2>3, <2>9, <3>1, KeptBegin
  <2>10. CASE ParseEndpoint
    <3>1. Parsing /\ pc = "endpoints"
        BY <2>10 DEF ParseEndpoint, Wanted, Parsing
    <3>2. QED
        BY <2>3, <2>10, <3>1, KeptEndpoint
  <2>11. CASE InterfaceDone
    <3>1. Parsing /\ pc # "interface_done"
        BY <2>3, <2>11 DEF InterfaceDone, Parsing
    <3>2. QED
        BY <2>3, <2>11, <3>1, KeptInterfaceDone
  <2>12. CASE \/ ScanControl \/ ParseUnit \/ ParseHeader \/ ScanStreaming \/ StreamsScanned \/ StreamScanned
              \/ ScanDone \/ ParseStreamBlock
    <3>1. Scans
        BY <2>12, BaseControl, StreamingFacts, BaseGoesOn, StreamBlockFacts
    <3>2. Scanning
        BY <2>12 DEF ScanControl, ParseUnit, ParseHeader, NextBlock, ScanStreaming, StreamsScanned, StreamScanned,
                     ScanDone, ParseStreamBlock, ParseInputHeader, ParseFormat, ParseFrame, ParseOther, StreamBlock,
                     Scanning
    <3>3. pc' \notin {"io_error", "interface_done"}
        BY <3>1 DEF Scans
    <3>4. QED
        BY <2>3, <3>1, <3>2, <3>3, KeptScans
  <2>13. CASE NoConfig \/ GetConfig
      BY <1>2, <2>13 DEF NoConfig, GetConfig
  <2>14. QED
      BY <2>5, <2>6, <2>7, <2>8, <2>9, <2>10, <2>11, <2>12, <2>13 DEF Next, ParseConfiguration, GetDeviceInfo
<1>3. QED
    BY <1>1, <1>2

LEMMA KeptAlways == Spec => [](BaseInv /\ TreeInv /\ KeptInv)
<1>1. Init => KeptInv
    BY DEF Init, KeptInv, WellFormed
<1>2. BaseInv /\ KeptInv /\ UNCHANGED vars => KeptInv'
  <2> SUFFICES ASSUME KeptInv, UNCHANGED vars
               PROVE  KeptInv'
      OBVIOUS
  <2>1. /\ blob' = blob /\ window' = window /\ pc' = pc /\ pos' = pos /\ parsed' = parsed /\ config' = config
      BY DEF vars
  <2>2. /\ Interfaces' = Interfaces /\ (\A q : EndpointsOf(q)' = EndpointsOf(q)) /\ First' = First
        /\ \A q : Desc(q)' = Desc(q)
      BY <2>1, Fixed, FixedWindow
  <2>3. /\ Trees' = Trees /\ (\A i : Tree(i)' = Tree(i)) /\ (\A i : SettingsOf(i)' = SettingsOf(i)) /\ Built' = Built
        /\ Parsing' = Parsing /\ Scanning' = Scanning
      BY <2>1 DEF Trees, Tree, SettingsOf, Built, Within, Parsing, Scanning
  <2>4. \A a : SettingKept(a) => SettingKept(a)'
      BY <2>1, <2>2 DEF SettingKept, AreInOrder, Ats
  <2>5. KeptTree => KeptTree'
      BY <2>1, <2>2, <2>3, <2>4 DEF KeptTree
  <2>6. WellFormed' => WellFormed
    <3>1. CASE pc = "start"
        BY <2>1, <3>1 DEF WellFormed
    <3>2. CASE pc # "start"
        BY <2>1, <3>2, SameWellFormed
    <3>3. QED
        BY <3>1, <3>2
  <2>7. QED
      BY <2>1, <2>3, <2>5, <2>6 DEF KeptInv
<1>3. BaseInv /\ TreeInv /\ KeptInv /\ [Next]_vars => KeptInv'
    BY <1>2, KeptStep
<1>4. QED
    BY <1>1, <1>3, TreeAlways, PTL DEF Spec

\* When libusb has parsed it, the element of a number has the settings of that number, in order.
LEMMA ElementIs ==
    ASSUME BaseInv, TreeInv, KeptTree, Scanning, NEW n \in Trees
    PROVE  AreInOrder(Ats(Tree(n)), Numbered(n)) /\ \A a \in SettingsOf(n) : AreInOrder(Ats(a.endpoints), EndpointsOf(a.at))
<1>1. Tree(n) \in Seq(SettingTypes) /\ \A k \in DOMAIN Tree(n) : Tree(n)[k] \in SettingsOf(n)
    BY LiveFacts
<1>2. \A j, k \in DOMAIN Tree(n) : j < k => Tree(n)[j].at < Tree(n)[k].at
    BY DEF TreeInv, InPlace
<1>3. {Tree(n)[k].at : k \in DOMAIN Tree(n)} = {a.at : a \in SettingsOf(n)}
    BY DEF SettingsOf, ToSet
<1>4. \A p : p \in Numbered(n) => \E a \in SettingsOf(n) : a.at = p
  <2> SUFFICES ASSUME NEW p \in Numbered(n)
               PROVE  \E a \in SettingsOf(n) : a.at = p
      OBVIOUS
  <2>1. p \in Interfaces /\ Desc(p).number = n
      BY DEF Numbered
  <2>2. p < pos
      BY <2>1 DEF KeptTree
  <2>3. PICK i \in Trees : \E a \in SettingsOf(i) : a.at = p
      BY <2>1, <2>2, NumberFacts
  <2>4. i = n
      BY <2>1, <2>3, NumberFacts
  <2>5. QED
      BY <2>3, <2>4
<1>5. ASSUME NEW a \in SettingsOf(n)
      PROVE  a.at \in Numbered(n)
  <2>1. a.at \in Interfaces /\ Desc(a.at).number = n
      BY NumberFacts
  <2>2. QED
      BY <2>1 DEF Numbered
<1>6. {a.at : a \in SettingsOf(n)} = Numbered(n)
    BY <1>4, <1>5
<1>7. AreInOrder(Ats(Tree(n)), Numbered(n))
  <2>1. {Tree(n)[k].at : k \in DOMAIN Tree(n)} = Numbered(n)
      BY <1>3, <1>6, Zenon
  <2>2. QED
      BY <1>1, <1>2, <2>1, AtsFacts
<1>8. ASSUME NEW a \in SettingsOf(n)
      PROVE  AreInOrder(Ats(a.endpoints), EndpointsOf(a.at))
  <2>1. a.at \in Interfaces /\ a.at < pos
      BY NumberFacts
  <2>2. \A q \in EndpointsOf(a.at) : q < pos
      BY <2>1 DEF KeptTree, Scanning
  <2>3. {q \in EndpointsOf(a.at) : q < pos} = EndpointsOf(a.at)
      BY <2>2
  <2>4. QED
      BY <2>3 DEF KeptTree, SettingKept
<1>9. QED
    BY <1>7, <1>8

\* A camera with descriptors as USB wants them loses nothing: every setting and every endpoint is
\* in the tree, in order, under the number of its interface.
THEOREM WellFormedIsAlwaysKept == Spec => []WellFormedIsKept
<1>1. ASSUME BaseInv, TreeInv, KeptInv, pc \in {"parsed", "io_error"}, WellFormed
      PROVE  /\ pc = "parsed"
             /\ config.count = Desc(First).count
             /\ \A n \in 0..(config.count - 1) :
                    /\ AreInOrder(Ats(Settings(n)), Numbered(n))
                    /\ \A a \in ToSet(Settings(n)) : AreInOrder(Ats(a.endpoints), EndpointsOf(a.at))
  <2>1. pc = "parsed" /\ Scanning /\ KeptTree
      BY <1>1 DEF KeptInv, Scanning
  <2>2. config.count = Desc(First).count /\ Trees = 0..(config.count - 1)
      BY <2>1 DEF KeptTree
  <2>3. \A n \in Trees : Settings(n) = Tree(n) /\ ToSet(Settings(n)) = SettingsOf(n)
      BY DEF Settings, Trees, Tree, SettingsOf
  <2>4. \A n \in Trees : /\ AreInOrder(Ats(Tree(n)), Numbered(n))
                         /\ \A a \in SettingsOf(n) : AreInOrder(Ats(a.endpoints), EndpointsOf(a.at))
      BY <1>1, <2>1, ElementIs
  <2>5. QED
      BY <2>1, <2>2, <2>3, <2>4
<1>2. BaseInv /\ TreeInv /\ KeptInv => WellFormedIsKept
    BY <1>1 DEF WellFormedIsKept
<1>3. QED
    BY <1>2, KeptAlways, PTL

------------------------------------------------------------------------------
(* The blocks of streaming interfaces *)

\* The frames of these blocks that are of the format at p.
FramesOf(blocks, p) == {f \in blocks : /\ Desc(f).subtype \in FrameSizes /\ f > p
                                       /\ \A g \in FormatsIn(blocks) : g > p => f < g}

LEMMA FormatsKeptIs ==
    \A fs, blocks : FormatsKept(fs, blocks) <=>
        /\ AreInOrder(Ats(fs), FormatsIn(blocks))
        /\ \A j \in DOMAIN fs : AreInOrder(fs[j].frames, FramesOf(blocks, fs[j].at))
BY DEF FormatsKept, FramesOf

LEMMA FormatsEmpty == FormatsKept(<<>>, {})
<1>1. FormatsIn({}) = {}
    BY DEF FormatsIn
<1>2. DOMAIN <<>> = {}
    OBVIOUS
<1>3. QED
    BY <1>1, <1>2, OrderEmpty, FormatsKeptIs

\* The formats are places among the blocks, the last one behind the others.
LEMMA FormatsFacts ==
    ASSUME NEW fs \in Seq(FormatTypes), NEW B, B \subseteq Nat, FormatsKept(fs, B)
    PROVE  /\ Len(fs) \in Nat /\ DOMAIN fs = 1..Len(fs)
           /\ \A j \in DOMAIN fs : /\ fs[j] \in FormatTypes /\ fs[j].at \in FormatsIn(B) /\ fs[j].at \in Nat
                                   /\ fs[j].frames \in Seq(Places)
           /\ \A j, k \in DOMAIN fs : j < k => fs[j].at < fs[k].at
           /\ \A g \in FormatsIn(B) : \E j \in DOMAIN fs : fs[j].at = g
<1>1. Len(fs) \in Nat /\ DOMAIN fs = 1..Len(fs) /\ \A j \in DOMAIN fs : fs[j] \in FormatTypes
    BY SeqFacts
<1>2. {fs[k].at : k \in DOMAIN fs} = FormatsIn(B) /\ \A j, k \in DOMAIN fs : j < k => fs[j].at < fs[k].at
    BY FormatsKeptIs, AtsFacts
<1>3. FormatsIn(B) \subseteq Nat
    BY DEF FormatsIn
<1>4. QED
    BY <1>1, <1>2, <1>3 DEF FormatTypes

LEMMA BlockOther ==
    ASSUME NEW fs \in Seq(FormatTypes), NEW B, B \subseteq Nat, FormatsKept(fs, B),
           NEW b \in Nat, \A y \in B : y < b, Desc(b).subtype \notin Formats \cup FrameSizes
    PROVE  FormatsKept(fs, B \cup {b})
<1>1. FormatsIn(B \cup {b}) = FormatsIn(B)
    BY DEF FormatsIn
<1>2. \A p : FramesOf(B \cup {b}, p) = FramesOf(B, p)
    BY <1>1 DEF FramesOf
<1>3. QED
    BY <1>1, <1>2, FormatsKeptIs

LEMMA BlockFormat ==
    ASSUME NEW fs \in Seq(FormatTypes), NEW B, B \subseteq Nat, FormatsKept(fs, B),
           NEW b \in Places, b \in Nat, \A y \in B : y < b, Desc(b).subtype \in Formats
    PROVE  FormatsKept(Append(fs, [at |-> b, frames |-> <<>>]), B \cup {b})
<1> DEFINE x == [at |-> b, frames |-> <<>>]
           t == Append(fs, x)
           n == Len(fs)
<1>1. x \in FormatTypes /\ x.at = b /\ x.frames = <<>>
    BY EmptySeq DEF FormatTypes
<1> HIDE DEF x
<1>2. /\ DOMAIN t = 1..(n + 1) /\ n \in Nat /\ DOMAIN fs = 1..n
      /\ (\A k \in 1..n : t[k] = fs[k]) /\ t[n + 1] = x
    BY <1>1, AppendFacts, SeqFacts
<1>3. FormatsIn(B \cup {b}) = FormatsIn(B) \cup {b}
    BY DEF FormatsIn
<1>4. \A y \in FormatsIn(B) : y < x.at
    BY <1>1 DEF FormatsIn
<1>5. AreInOrder(Ats(t), FormatsIn(B) \cup {x.at})
    BY <1>1, <1>4, OrderAppend, FormatsKeptIs
<1>6. Desc(b).subtype \notin FrameSizes
    BY DEF Formats, FrameSizes
<1>7. \A p \in Nat : p < b => FramesOf(B \cup {b}, p) = FramesOf(B, p)
    BY <1>3, <1>6 DEF FramesOf
<1>8. FramesOf(B \cup {b}, b) = {}
  <2>1. \A f \in B \cup {b} : ~(f > b)
    <3>1. \A f \in B : f \in Nat /\ f < b
        OBVIOUS
    <3>2. QED
        BY <3>1
  <2>2. QED
      BY <2>1 DEF FramesOf
<1> HIDE DEF t, n
<1>9. ASSUME NEW j \in DOMAIN t
      PROVE  AreInOrder(t[j].frames, FramesOf(B \cup {b}, t[j].at))
  <2>1. CASE j \in 1..n
    <3>1. fs[j].at \in Nat /\ fs[j].at \in FormatsIn(B)
        BY <1>2, <2>1, FormatsFacts
    <3>2. fs[j].at < b
        BY <3>1 DEF FormatsIn
    <3>3. AreInOrder(fs[j].frames, FramesOf(B, fs[j].at))
        BY <1>2, <2>1, FormatsKeptIs
    <3>4. QED
        BY <1>2, <1>7, <2>1, <3>1, <3>2, <3>3
  <2>2. CASE j = n + 1
      BY <1>1, <1>2, <1>8, <2>2, OrderEmpty
  <2>3. QED
      BY <1>2, <2>1, <2>2
<1>10. QED
    BY <1>1, <1>3, <1>5, <1>9, FormatsKeptIs DEF t, x

LEMMA BlockFrame ==
    ASSUME NEW fs \in Seq(FormatTypes), NEW B, B \subseteq Nat, FormatsKept(fs, B), fs # <<>>,
           NEW b \in Places, b \in Nat, \A y \in B : y < b, Desc(b).subtype \in FrameSizes
    PROVE  FormatsKept(AddFrame(fs, b), B \cup {b})
<1> DEFINE n == Len(fs)
           x == [fs[n] EXCEPT !.frames = Append(fs[n].frames, b)]
           t == AddFrame(fs, b)
<1>1. /\ n \in Nat /\ DOMAIN fs = 1..n /\ n \in DOMAIN fs
      /\ \A j \in DOMAIN fs : /\ fs[j] \in FormatTypes /\ fs[j].at \in FormatsIn(B) /\ fs[j].at \in Nat
                              /\ fs[j].frames \in Seq(Places)
      /\ \A j, k \in DOMAIN fs : j < k => fs[j].at < fs[k].at
      /\ \A g \in FormatsIn(B) : \E j \in DOMAIN fs : fs[j].at = g
  <2>1. n \in DOMAIN fs
      BY LastFacts
  <2>2. QED
      BY <2>1, FormatsFacts
<1>2. t = [fs EXCEPT ![n] = x]
    BY DEF AddFrame
<1>3. x.at = fs[n].at /\ x.frames = Append(fs[n].frames, b)
    BY <1>1 DEF FormatTypes
<1> HIDE DEF x, t, n
<1>4. DOMAIN t = DOMAIN fs /\ \A j \in DOMAIN fs : t[j] = (IF j = n THEN x ELSE fs[j])
    BY <1>2
<1>5. \A j \in DOMAIN fs : t[j].at = fs[j].at
    BY <1>3, <1>4
<1>6. Ats(t) = Ats(fs)
    BY <1>4, <1>5 DEF Ats
<1>7. FormatsIn(B \cup {b}) = FormatsIn(B)
    BY DEF FormatsIn, Formats, FrameSizes
<1>8. ASSUME NEW j \in DOMAIN t
      PROVE  AreInOrder(t[j].frames, FramesOf(B \cup {b}, t[j].at))
  <2>1. AreInOrder(fs[j].frames, FramesOf(B, fs[j].at)) /\ j \in DOMAIN fs
      BY <1>4, FormatsKeptIs
  <2>2. CASE j # n
    <3>1. j < n
        BY <1>1, <2>1, <2>2
    <3>2. fs[n].at \in FormatsIn(B) /\ fs[n].at > fs[j].at /\ fs[n].at \in Nat /\ fs[j].at \in Nat
        BY <1>1, <2>1, <3>1
    <3>3. fs[n].at < b
        BY <3>2 DEF FormatsIn
    <3>4. FramesOf(B \cup {b}, fs[j].at) = FramesOf(B, fs[j].at)
        BY <1>7, <3>2, <3>3 DEF FramesOf
    <3>5. QED
        BY <1>4, <2>1, <2>2, <3>4
  <2>3. CASE j = n
    <3>1. ASSUME NEW g \in FormatsIn(B)
          PROVE  ~(g > fs[n].at)
      <4>1. PICK k \in DOMAIN fs : fs[k].at = g
          BY <1>1
      <4>2. k < n \/ k = n
          BY <1>1
      <4>3. QED
          BY <1>1, <4>1, <4>2
    <3>2. fs[n].at < b
        BY <1>1 DEF FormatsIn
    <3>3. FramesOf(B \cup {b}, fs[n].at) = FramesOf(B, fs[n].at) \cup {b}
        BY <1>1, <1>7, <3>1, <3>2 DEF FramesOf
    <3>4. \A y \in FramesOf(B, fs[n].at) : y < b
        BY DEF FramesOf
    <3>5. fs[n].frames \in Seq(Places)
        BY <1>1
    <3>6. AreInOrder(Append(fs[n].frames, b), FramesOf(B, fs[n].at) \cup {b})
        BY <2>1, <2>3, <3>4, <3>5, OrderAppend
    <3>7. QED
        BY <1>3, <1>4, <2>1, <2>3, <3>3, <3>6
  <2>4. QED
      BY <2>2, <2>3
<1>9. QED
    BY <1>6, <1>7, <1>8, FormatsKeptIs DEF t

------------------------------------------------------------------------------
(* A camera as UVC wants it is scanned to its end *)

\* Before the streams nothing is to do, and nothing is known.
Untouched == (pc = "start" \/ Parsing) =>
                 todo.control = {} /\ todo.queue = <<>> /\ info.streams = <<>>

\* A stream has the formats of its blocks, but for those that are left.
StreamKept(s, left) ==
    /\ s.number \in Streamed
    /\ left \subseteq BlocksOf(s.number)
    /\ \A b \in BlocksOf(s.number) \ left, c \in left : b < c
    /\ FormatsKept(s.formats, BlocksOf(s.number) \ left)
Left(k) == IF pc = "blocks" /\ k = Len(info.streams) THEN todo.stream ELSE {}
ScannedTree ==
    /\ todo.control \subseteq In("unknown")
    /\ ToSet(todo.queue) \subseteq Streamed
    /\ \A k \in DOMAIN info.streams : StreamKept(info.streams[k], Left(k))
ScannedInv == /\ Untouched
              /\ WellFormed /\ VideoClass => pc # "crashed" /\ (Scanning => ScannedTree)

LEMMA FollowingIn ==
    ASSUME blob \in Blobs, window.last \in 0..LastPlace, PlacesOf("config") # {}, NEW p \in Nat
    PROVE  Following(p) \subseteq In("unknown")
<1>1. InWindow \subseteq Nat
    BY WindowPlaces
<1>2. ASSUME NEW q \in Following(p)
      PROVE  q \in In("unknown")
  <2>1. q \in InWindow /\ p < q /\ \A r \in (p + 1)..q : Desc(r).type = "unknown"
      BY DEF Following
  <2>2. q \in (p + 1)..q
      BY <1>1, <2>1
  <2>3. QED
      BY <2>1, <2>2 DEF In
<1>3. QED
    BY <1>2

\* The first of a list of places in order is the least.
LEMMA FirstIsMin ==
    ASSUME NEW S, NEW s \in Seq(S), s # <<>>, NEW X, X \subseteq Nat, AreInOrder(Ats(s), X)
    PROVE  s[1].at = Min(X) /\ X # {}
<1>1. Len(s) \in Nat /\ DOMAIN s = 1..Len(s) /\ Len(s) > 0
    BY SeqFacts
<1>2. {s[k].at : k \in DOMAIN s} = X /\ \A j, k \in DOMAIN s : j < k => s[j].at < s[k].at
    BY AtsFacts
<1>3. 1 \in DOMAIN s
    BY <1>1
<1>4. s[1].at \in X
    BY <1>2, <1>3
<1>5. ASSUME NEW y \in X
      PROVE  s[1].at <= y
  <2>1. PICK k \in DOMAIN s : s[k].at = y
      BY <1>2
  <2>2. k = 1 \/ 1 < k
      BY <1>1
  <2>3. s[1].at \in Nat /\ y \in Nat
      BY <1>4
  <2>4. QED
      BY <1>2, <1>3, <2>1, <2>2, <2>3
<1>6. QED
    BY <1>4, <1>5, MinIs

\* The elements and their settings, once the tree is there.
LEMMA KeptElements ==
    ASSUME BaseInv, TreeInv, KeptTree, Scanning, WellFormed, NEW n \in 0..(Desc(First).count - 1)
    PROVE  /\ n \in Trees /\ Settings(n) = Tree(n) /\ Settings(n) # <<>>
           /\ Settings(n)[1] \in SettingsOf(n) /\ Settings(n)[1].at \in Nat
           /\ Desc(Settings(n)[1].at).number = n /\ Settings(n)[1].at = Min(Numbered(n))
           /\ ~NoEndpoint(Settings(n)[1])
           /\ Settings(n)[1].extra = Following(Settings(n)[1].at)
           /\ StreamBlocks(Settings(n)[1]) = BlocksOf(n)
<1> DEFINE a == Settings(n)[1]
<1>1. /\ blob \in Blobs /\ window.last \in 0..LastPlace /\ PlacesOf("config") # {} /\ Interfaces \subseteq Nat
      /\ InWindow \subseteq Nat /\ \A i \in Trees : Tree(i) \in Seq(SettingTypes)
      /\ \A i \in Trees : \A s \in SettingsOf(i) : s \in SettingTypes /\ s.at \in Nat
      /\ \A i \in Trees : \A s \in SettingsOf(i) : s.endpoints \in Seq(EndpointTypes)
    BY LiveFacts
<1>2. n \in Trees /\ Settings(n) = Tree(n)
    BY DEF KeptTree, Settings, Trees, Tree
<1>3. Built = config.count /\ config.count = Desc(First).count /\ config.count \in Nat
    BY BuiltFacts DEF Scanning, Built, Within, KeptTree
<1>4. Settings(n) # <<>>
  <2>1. n < Built
      BY <1>3
  <2>2. QED
      BY <1>2, <2>1 DEF KeptTree
<1>5. a \in SettingsOf(n) /\ a.at \in Nat
    BY <1>1, <1>2, <1>4, SettingsFacts
<1>6. Desc(a.at).number = n
    BY <1>2, <1>5, NumberFacts
<1>7. AreInOrder(Ats(Tree(n)), Numbered(n)) /\ AreInOrder(Ats(a.endpoints), EndpointsOf(a.at))
    BY <1>2, <1>5, ElementIs
<1>8. Numbered(n) \subseteq Nat
    BY <1>1 DEF Numbered
<1>9. a.at = Min(Numbered(n))
    BY <1>1, <1>2, <1>4, <1>7, <1>8, FirstIsMin
<1>10. ~NoEndpoint(a)
    BY <1>2, <1>5 DEF KeptTree, SettingKept, NoEndpoint
<1>11. window.piece # "header"
    BY DEF WellFormed
<1>12. SettingOK(a)
    BY <1>2, <1>5 DEF TreeInv, Elements
<1>13. a.extra = Following(a.at) /\ \A e \in ToSet(a.endpoints) : e.extra = Following(e.at)
    BY <1>11, <1>12 DEF SettingOK, Saved
<1>14. EndpointsOf(a.at) \subseteq Nat
    BY <1>1, <1>5, EndpointsAre
<1>15. a.endpoints \in Seq(EndpointTypes)
    BY <1>1, <1>2, <1>5
<1>16. a.endpoints # <<>> => /\ EndpointsOf(a.at) # {} /\ a.endpoints[1].at = Min(EndpointsOf(a.at))
                             /\ a.endpoints[1].extra = Following(Min(EndpointsOf(a.at)))
  <2> SUFFICES ASSUME a.endpoints # <<>>
               PROVE  /\ EndpointsOf(a.at) # {} /\ a.endpoints[1].at = Min(EndpointsOf(a.at))
                      /\ a.endpoints[1].extra = Following(Min(EndpointsOf(a.at)))
      OBVIOUS
  <2>1. EndpointsOf(a.at) # {} /\ a.endpoints[1].at = Min(EndpointsOf(a.at))
      BY <1>7, <1>14, <1>15, FirstIsMin
  <2>2. DOMAIN a.endpoints = 1..Len(a.endpoints) /\ Len(a.endpoints) \in Nat /\ Len(a.endpoints) > 0
      BY <1>15, SeqFacts
  <2>3. a.endpoints[1] \in ToSet(a.endpoints)
      BY <2>2 DEF ToSet
  <2>4. QED
      BY <1>13, <2>1, <2>3
<1>17. a.endpoints = <<>> => EndpointsOf(a.at) = {}
  <2> SUFFICES ASSUME a.endpoints = <<>>
               PROVE  EndpointsOf(a.at) = {}
      OBVIOUS
  <2>1. Ats(a.endpoints) = Ats(<<>>) /\ AreInOrder(Ats(<<>>), {})
      BY OrderEmpty
  <2>2. QED
      BY <1>7, <2>1 DEF AreInOrder
<1>18. StreamBlocks(a) = BlocksOf(n)
  <2> HIDE DEF a
  <2>1. BlocksOf(n) = IF Following(a.at) = {} /\ EndpointsOf(a.at) # {} THEN Following(Min(EndpointsOf(a.at)))
                      ELSE Following(a.at)
      BY <1>9 DEF BlocksOf
  <2>2. QED
      BY <1>13, <1>16, <1>17, <2>1 DEF StreamBlocks
<1>19. QED
    BY <1>2, <1>4, <1>5, <1>6, <1>9, <1>10, <1>13, <1>18

\* Nothing the scan reads is missing.
LEMMA ScannedNever ==
    ASSUME BaseInv, TreeInv, KeptTree, Scanning, WellFormed, VideoClass, ScannedTree
    PROVE  ~(ScanCrashes \/ NoStreaming \/ FrameWithoutFormat)
<1>1. config.count = Desc(First).count /\ config.count \in Nat
    BY BuiltFacts DEF KeptTree
<1>2. \A i \in 0..(config.count - 1) : Settings(i) # <<>> /\ ~NoEndpoint(Settings(i)[1])
    BY <1>1, KeptElements
<1>3. CASE ScanCrashes
  <2>1. ~NullBefore(config.count)
      BY <1>2 DEF NullBefore, IsNull
  <2>2. ASSUME Controls # {}
        PROVE  ~NullBefore(Min(Controls)) /\ ~NoEndpoint(Settings(Min(Controls))[1])
    <3>1. Min(Controls) \in 0..(config.count - 1)
        BY <2>2, SettingsFacts DEF Controls
    <3>2. 0..(Min(Controls) - 1) \subseteq 0..(config.count - 1)
        BY <1>1, <3>1
    <3>3. QED
        BY <1>2, <3>1, <3>2 DEF NullBefore, IsNull
  <2>3. QED
      BY <1>3, <2>1, <2>2 DEF ScanCrashes
<1>4. CASE NoStreaming
  <2>1. todo.queue \in Seq(Nat) /\ todo.queue # <<>> /\ Settings(Head(todo.queue)) = <<>>
      BY <1>4, TypedFacts DEF BaseInv, NoStreaming, TodoTypes
  <2>2. 1 \in DOMAIN todo.queue /\ Head(todo.queue) = todo.queue[1]
      BY <2>1, SeqFacts, HeadTailProperties
  <2>3. Head(todo.queue) \in Streamed
      BY <2>2 DEF ScannedTree, ToSet
  <2>4. QED
      BY <1>1, <1>2, <2>1, <2>3 DEF VideoClass
<1>5. CASE FrameWithoutFormat
  <2>1. pc = "blocks" /\ todo.stream # {} /\ Desc(Block).subtype \in FrameSizes /\ Stream.formats = <<>>
      BY <1>5 DEF FrameWithoutFormat, StreamBlock
  <2>2. Block \in todo.stream /\ \A c \in todo.stream : Block <= c
      BY <2>1, BlockFacts DEF BaseInv
  <2>3. info.streams # <<>> /\ Len(info.streams) \in DOMAIN info.streams
      BY <2>1, StreamControls, LastFacts DEF BaseInv, Streaming
  <2>4. StreamKept(Stream, todo.stream)
      BY <2>1, <2>3 DEF ScannedTree, Left, Stream
  <2>5. Block \in BlocksOf(Stream.number) /\ Stream.number \in Streamed
      BY <2>2, <2>4 DEF StreamKept
  <2>6. PICK g \in FormatsIn(BlocksOf(Stream.number)) : g < Block
      BY <2>1, <2>5 DEF VideoClass
  <2>7. g \notin todo.stream
    <3>1. todo.stream \subseteq Nat
        BY BlockFacts DEF BaseInv
    <3>2. QED
        BY <2>2, <2>6, <3>1
  <2>8. g \in FormatsIn(BlocksOf(Stream.number) \ todo.stream)
      BY <2>6, <2>7 DEF FormatsIn
  <2>9. FormatsIn(BlocksOf(Stream.number) \ todo.stream) = {}
    <3>1. AreInOrder(Ats(<<>>), FormatsIn(BlocksOf(Stream.number) \ todo.stream))
        BY <2>1, <2>4, FormatsKeptIs DEF StreamKept
    <3>2. QED
        BY <3>1, OrderEmpty DEF AreInOrder
  <2>10. QED
      BY <2>8, <2>9
<1>6. QED
    BY <1>3, <1>4, <1>5

LEMMA SameKept ==
    ASSUME blob' = blob, window' = window
    PROVE  /\ \A fs, blocks : FormatsKept(fs, blocks)' <=> FormatsKept(fs, blocks)
           /\ \A s, left : StreamKept(s, left)' <=> StreamKept(s, left)
           /\ VideoClass' <=> VideoClass
<1>1. First' = First /\ \A p : Desc(p)' = Desc(p)
    BY Fixed
<1>2. Streamed' = Streamed /\ \A n : BlocksOf(n)' = BlocksOf(n)
    BY FixedWindow
<1>3. \A blocks : FormatsIn(blocks)' = FormatsIn(blocks)
    BY <1>1 DEF FormatsIn
<1>4. ASSUME NEW fs, NEW blocks
      PROVE  FormatsKept(fs, blocks)' <=> FormatsKept(fs, blocks)
  <2>1. Ats(fs)' = Ats(fs) /\ FormatsIn(blocks)' = FormatsIn(blocks)
      BY <1>3 DEF Ats
  <2>2. \A j \in DOMAIN fs :
            {f \in blocks : /\ Desc(f)'.subtype \in FrameSizes /\ f > fs[j].at
                            /\ \A g \in FormatsIn(blocks)' : g > fs[j].at => f < g} =
            {f \in blocks : /\ Desc(f).subtype \in FrameSizes /\ f > fs[j].at
                            /\ \A g \in FormatsIn(blocks) : g > fs[j].at => f < g}
      BY <1>1, <2>1
  <2>3. QED
      BY <2>1, <2>2 DEF FormatsKept, AreInOrder
<1>5. \A s, left : StreamKept(s, left)' <=> StreamKept(s, left)
    BY <1>2, <1>4 DEF StreamKept
<1>6. VideoClass' <=> VideoClass
    BY <1>1, <1>2, <1>3 DEF VideoClass
<1>7. QED
    BY <1>4, <1>5, <1>6

\* The blocks of a streaming interface.
LEMMA BlocksFacts ==
    ASSUME BaseInv, Scanning, WellFormed, NEW n \in 0..(Desc(First).count - 1)
    PROVE  BlocksOf(n) \subseteq Nat
<1>1. /\ blob \in Blobs /\ window.last \in 0..LastPlace /\ PlacesOf("config") # {} /\ InWindow \subseteq Nat
    BY LiveFacts
<1>2. \A p : Following(p) \subseteq InWindow
    BY DEF Following
<1>3. QED
    BY <1>1, <1>2 DEF BlocksOf

\* A step that reads no stream.
LEMMA ScannedSame ==
    ASSUME BaseInv, Scans, ScannedTree, Scanning, pc' # "blocks", pc = "blocks" => todo.stream = {},
           info'.streams = info.streams, todo'.control \subseteq In("unknown"), ToSet(todo'.queue) \subseteq Streamed
    PROVE  ScannedTree'
<1>1. blob' = blob /\ window' = window
    BY DEF Scans
<1>2. (\A t : In(t)' = In(t)) /\ Streamed' = Streamed /\ \A s, left : StreamKept(s, left)' <=> StreamKept(s, left)
    BY <1>1, FixedWindow, SameKept
<1>3. \A k : Left(k) = {} /\ Left(k)' = {}
    BY DEF Left
<1>4. \A k \in DOMAIN info.streams : StreamKept(info.streams[k], {})
    BY <1>3 DEF ScannedTree
<1>5. \A k \in DOMAIN info'.streams : StreamKept(info.streams[k], {})'
    BY <1>2, <1>4
<1>6. QED
    BY <1>2, <1>3, <1>5 DEF ScannedTree

LEMMA ScannedStreaming ==
    ASSUME BaseInv, TreeInv, KeptTree, Scanning, WellFormed, VideoClass, ScannedTree, ScanStreaming
    PROVE  ScannedTree'
<1> DEFINE n == Head(todo.queue)
           N == Len(info.streams)
<1>1. /\ Scans /\ pc = "streaming" /\ pc' = "blocks" /\ todo.queue # <<>>
      /\ todo'.queue = Tail(todo.queue) /\ todo'.stream = StreamBlocks(Scanned1) /\ todo'.control = todo.control
      /\ NewStream \in StreamTypes /\ info.streams \in Seq(StreamTypes)
      /\ info'.streams = Append(info.streams, NewStream)
    BY StreamingFacts
<1>2. todo.queue \in Seq(Nat)
    BY TypedFacts DEF BaseInv, TodoTypes
<1>3. n \in ToSet(todo.queue) /\ ToSet(Tail(todo.queue)) \subseteq ToSet(todo.queue)
  <2>1. /\ DOMAIN todo.queue = 1..Len(todo.queue) /\ Len(todo.queue) \in Nat /\ Len(todo.queue) > 0
        /\ n = todo.queue[1] /\ Tail(todo.queue) \in Seq(Nat) /\ Len(Tail(todo.queue)) = Len(todo.queue) - 1
        /\ \A i \in 1..Len(Tail(todo.queue)) : Tail(todo.queue)[i] = todo.queue[i + 1]
      BY <1>1, <1>2, SeqFacts, HeadTailProperties
  <2>2. DOMAIN Tail(todo.queue) = 1..Len(Tail(todo.queue))
      BY <2>1, SeqFacts
  <2>3. \A i \in 1..Len(Tail(todo.queue)) : i + 1 \in 1..Len(todo.queue)
      BY <2>1
  <2>4. 1 \in DOMAIN todo.queue
      BY <2>1
  <2>5. \A i \in DOMAIN Tail(todo.queue) : Tail(todo.queue)[i] = todo.queue[i + 1] /\ i + 1 \in DOMAIN todo.queue
      BY <2>1, <2>2, <2>3
  <2> HIDE DEF n
  <2>6. n \in ToSet(todo.queue)
      BY <2>1, <2>4 DEF ToSet
  <2>7. QED
      BY <2>5, <2>6 DEF ToSet
<1>4. n \in Streamed /\ n \in 0..(Desc(First).count - 1)
    BY <1>3 DEF ScannedTree, VideoClass
<1>5. Desc(Scanned1.at).number = n /\ StreamBlocks(Scanned1) = BlocksOf(n)
    BY <1>4, KeptElements DEF Scanned1
<1>6. NewStream.number = n /\ NewStream.formats = <<>>
    BY <1>5 DEF NewStream
<1> HIDE DEF n
<1>7. blob' = blob /\ window' = window
    BY <1>1 DEF Scans
<1>8. (\A t : In(t)' = In(t)) /\ Streamed' = Streamed /\ \A s, left : StreamKept(s, left)' <=> StreamKept(s, left)
    BY <1>7, FixedWindow, SameKept
<1>9. StreamKept(NewStream, BlocksOf(n))
  <2>1. BlocksOf(n) \ BlocksOf(n) = {}
      OBVIOUS
  <2>2. QED
      BY <1>4, <1>6, <2>1, FormatsEmpty DEF StreamKept
<1>10. \A k \in DOMAIN info.streams : StreamKept(info.streams[k], {})
  <2>1. \A k : Left(k) = {}
      BY <1>1 DEF Left
  <2>2. QED
      BY <2>1 DEF ScannedTree
<1>11. /\ N \in Nat /\ DOMAIN info.streams = 1..N /\ DOMAIN info'.streams = 1..(N + 1) /\ Len(info'.streams) = N + 1
       /\ (\A k \in 1..N : info'.streams[k] = info.streams[k]) /\ info'.streams[N + 1] = NewStream
    BY <1>1, SeqFacts, AppendFacts
<1> HIDE DEF N
<1>12. ASSUME NEW k \in DOMAIN info'.streams
       PROVE  StreamKept(info.streams[k], Left(k))'
  <2>1. CASE k = N + 1
    <3>1. Left(k)' = BlocksOf(n)
        BY <1>1, <1>5, <1>11, <2>1 DEF Left
    <3>2. QED
        BY <1>8, <1>9, <1>11, <2>1, <3>1
  <2>2. CASE k # N + 1
    <3>1. k \in 1..N /\ Left(k)' = {}
        BY <1>11, <1>12, <2>2 DEF Left
    <3>2. QED
        BY <1>8, <1>10, <1>11, <3>1
  <2>3. QED
      BY <2>1, <2>2
<1>13. todo'.control \subseteq In("unknown")' /\ ToSet(todo'.queue) \subseteq Streamed'
    BY <1>1, <1>3, <1>8 DEF ScannedTree
<1>14. QED
    BY <1>12, <1>13 DEF ScannedTree

\* One block is taken off, and what it says is added.
LEMMA BlockKept ==
    ASSUME BaseInv, Scanning, WellFormed, VideoClass, ScannedTree, ParseStreamBlock,
           NEW s \in StreamTypes, BlockStep(s)
    PROVE  StreamKept(s, todo.stream \ {Block})
<1> DEFINE B == BlocksOf(Stream.number)
           K == B \ todo.stream
<1>1. /\ pc = "blocks" /\ Block \in todo.stream /\ Block \in Places /\ Block \in Nat
      /\ \A c \in todo.stream : Block <= c
      /\ info.streams \in Seq(StreamTypes) /\ info.streams # <<>> /\ Stream \in StreamTypes
      /\ Stream = info.streams[Len(info.streams)]
    BY StreamBlockFacts
<1>2. Len(info.streams) \in DOMAIN info.streams
    BY <1>1, LastFacts
<1>3. StreamKept(Stream, todo.stream)
    BY <1>1, <1>2 DEF ScannedTree, Left
<1>4. /\ Stream.number \in Streamed /\ todo.stream \subseteq B /\ (\A b \in K, c \in todo.stream : b < c)
      /\ FormatsKept(Stream.formats, K)
    BY <1>3 DEF StreamKept
<1>5. B \subseteq Nat /\ K \subseteq Nat
    BY <1>4, BlocksFacts DEF VideoClass
<1>6. B \ (todo.stream \ {Block}) = K \cup {Block}
    BY <1>1, <1>4
<1>7. Stream.formats \in Seq(FormatTypes) /\ \A y \in K : y < Block
    BY <1>1, <1>4 DEF StreamTypes
<1>8. s.number = Stream.number /\ FormatsKept(s.formats, K \cup {Block})
  <2> HIDE DEF B, K
  <2>1. CASE Desc(Block).subtype \in Formats /\ s = [Stream EXCEPT !.formats = Append(Stream.formats, [at |-> Block, frames |-> <<>>])]
    <3>1. s.number = Stream.number /\ s.formats = Append(Stream.formats, [at |-> Block, frames |-> <<>>])
        BY <1>1, <2>1 DEF StreamTypes
    <3>2. QED
        BY <1>1, <1>4, <1>5, <1>7, <2>1, <3>1, BlockFormat
  <2>2. CASE /\ Desc(Block).subtype \in FrameSizes /\ Stream.formats # <<>>
             /\ s = [Stream EXCEPT !.formats = AddFrame(Stream.formats, Block)]
    <3>1. s.number = Stream.number /\ s.formats = AddFrame(Stream.formats, Block)
        BY <1>1, <2>2 DEF StreamTypes
    <3>2. QED
        BY <1>1, <1>4, <1>5, <1>7, <2>2, <3>1, BlockFrame
  <2>3. CASE Desc(Block).subtype \notin Formats \cup FrameSizes /\ s.formats = Stream.formats /\ s.number = Stream.number
      BY <1>1, <1>4, <1>5, <1>7, <2>3, BlockOther
  <2>4. Desc(Block).subtype = 1 => Desc(Block).subtype \notin Formats \cup FrameSizes
      BY DEF Formats, FrameSizes
  <2>5. s = [Stream EXCEPT !.controls = Block] => s.formats = Stream.formats /\ s.number = Stream.number
      BY <1>1 DEF StreamTypes
  <2>6. QED
      BY <2>1, <2>2, <2>3, <2>4, <2>5 DEF BlockStep
<1>9. ASSUME NEW b \in K \cup {Block}, NEW c \in todo.stream \ {Block}
      PROVE  b < c
  <2>1. c \in Nat /\ Block <= c /\ c # Block
      BY <1>1, <1>4, <1>5
  <2>2. QED
      BY <1>1, <1>4, <2>1
<1>10. QED
    BY <1>4, <1>6, <1>8, <1>9 DEF StreamKept

LEMMA ScannedBlock ==
    ASSUME BaseInv, Scanning, WellFormed, VideoClass, ScannedTree, ParseStreamBlock
    PROVE  ScannedTree'
<1> DEFINE N == Len(info.streams)
<1>1. /\ Scans /\ pc = "blocks" /\ pc' = "blocks" /\ todo'.stream = todo.stream \ {Block}
      /\ todo'.control = todo.control /\ todo'.queue = todo.queue
      /\ info.streams \in Seq(StreamTypes) /\ info.streams # <<>>
      /\ \E s \in StreamTypes : /\ BlockStep(s)
                                /\ info'.streams = [info.streams EXCEPT ![Len(info.streams)] = s]
    BY StreamBlockFacts
<1>2. PICK s \in StreamTypes : BlockStep(s) /\ info'.streams = [info.streams EXCEPT ![N] = s]
    BY <1>1
<1>3. StreamKept(s, todo.stream \ {Block})
    BY <1>2, BlockKept
<1>4. /\ DOMAIN info'.streams = DOMAIN info.streams /\ Len(info'.streams) = N
      /\ \A k \in DOMAIN info.streams : info'.streams[k] = IF k = N THEN s ELSE info.streams[k]
    BY <1>1, <1>2, LastFacts
<1> HIDE DEF N
<1>5. blob' = blob /\ window' = window
    BY <1>1 DEF Scans
<1>6. (\A t : In(t)' = In(t)) /\ Streamed' = Streamed /\ \A x, left : StreamKept(x, left)' <=> StreamKept(x, left)
    BY <1>5, FixedWindow, SameKept
<1>7. ASSUME NEW k \in DOMAIN info'.streams
      PROVE  StreamKept(info.streams[k], Left(k))'
  <2>1. CASE k = N
    <3>1. Left(k)' = todo.stream \ {Block}
        BY <1>1, <1>4, <2>1 DEF Left
    <3>2. QED
        BY <1>3, <1>4, <1>6, <2>1, <3>1
  <2>2. CASE k # N
    <3>1. Left(k)' = {} /\ Left(k) = {}
        BY <1>4, <2>2 DEF Left, N
    <3>2. StreamKept(info.streams[k], {})
        BY <1>4, <3>1 DEF ScannedTree
    <3>3. QED
        BY <1>4, <1>6, <2>2, <3>1, <3>2
  <2>3. QED
      BY <2>1, <2>2
<1>8. todo'.control \subseteq In("unknown")' /\ ToSet(todo'.queue) \subseteq Streamed'
    BY <1>1, <1>6 DEF ScannedTree
<1>9. QED
    BY <1>7, <1>8 DEF ScannedTree

\* The control interface: its blocks are those that follow it, and a header names streams.
LEMMA ScannedControl ==
    ASSUME BaseInv, TreeInv, KeptTree, Scanning, WellFormed, ScannedTree,
           ScanControl \/ ParseUnit \/ ParseHeader
    PROVE  ScannedTree'
<1>1. /\ info'.streams = info.streams /\ pc \in {"parsed", "control"} /\ Scans
      /\ ScanControl => Settings(Min(Controls)) # <<>> /\ todo'.control = Settings(Min(Controls))[1].extra
      /\ ~ScanControl => todo'.control \subseteq todo.control
      /\ ParseHeader => /\ Block \in todo.control /\ KnownVersion(Block)
                        /\ todo'.queue = Desc(Block).streaming /\ pc' = "streaming"
      /\ ~ParseHeader => todo'.queue = todo.queue /\ pc' = "control"
    BY BaseControl
<1>2. todo'.control \subseteq In("unknown")
  <2>1. CASE ScanControl
    <3>1. Min(Controls) \in 0..(config.count - 1)
        BY <2>1, SettingsFacts DEF ScanControl, Controls
    <3>2. Settings(Min(Controls))[1].extra = Following(Settings(Min(Controls))[1].at) /\ Settings(Min(Controls))[1].at \in Nat
        BY <3>1, KeptElements DEF KeptTree
    <3>3. blob \in Blobs /\ window.last \in 0..LastPlace /\ PlacesOf("config") # {}
        BY LiveFacts
    <3>4. QED
        BY <1>1, <2>1, <3>2, <3>3, FollowingIn
  <2>2. CASE ~ScanControl
      BY <1>1, <2>2 DEF ScannedTree
  <2>3. QED
      BY <2>1, <2>2
<1>3. ToSet(todo'.queue) \subseteq Streamed
  <2>1. CASE ParseHeader
    <3>1. Block \in In("unknown") /\ KnownVersion(Block)
        BY <1>1, <2>1 DEF ScannedTree
    <3>2. QED
        BY <1>1, <2>1, <3>1 DEF Streamed
  <2>2. CASE ~ParseHeader
      BY <1>1, <2>2 DEF ScannedTree
  <2>3. QED
      BY <2>1, <2>2
<1>4. pc' # "blocks" /\ pc # "blocks"
    BY <1>1
<1>5. QED
    BY <1>1, <1>2, <1>3, <1>4, ScannedSame

LEMMA ScannedStep ==
    ASSUME BaseInv, TreeInv, KeptInv, ScannedInv, Next
    PROVE  ScannedInv'
<1>1. Untouched'
  <2>1. CASE NoConfig \/ GetConfig
    <3>1. pc = "start" /\ info' = info /\ todo' = todo
        BY <2>1 DEF NoConfig, GetConfig
    <3>2. QED
        BY <3>1 DEF ScannedInv, Untouched
  <2>2. CASE \/ ParsingDone \/ BadLength \/ ShortConfiguration \/ ParseAssociation \/ NoInterface \/ ParseInterface
             \/ ParseEndpoint \/ EndpointFails \/ EndpointsMissing \/ ParseAlternate \/ InterfaceDone
    <3>1. Parsing /\ info' = info /\ todo' = todo
        BY <2>2 DEF ParsingDone, BadLength, ShortConfiguration, ParseAssociation, NoInterface, ParseInterface,
                    ParseEndpoint, EndpointFails, EndpointsMissing, ParseAlternate, InterfaceDone, Loops, Wanted, Parsing
    <3>2. QED
        BY <3>1 DEF ScannedInv, Untouched
  <2>3. CASE GetDeviceInfo \/ Close
    <3>1. pc' \notin {"start", "configuration", "endpoints", "interface_done"}
        BY <2>3 DEF GetDeviceInfo, ScanCrashes, NoControl, ScanControl, ParseUnit, ParseFails, ParseHeader, NextBlock,
                    ScanStreaming, NoStreaming, StreamsScanned, ParseStreamBlock, ParseInputHeader, ParseFormat,
                    ParseFrame, ParseOther, StreamBlock, FrameWithoutFormat, Crash, Fail, StreamScanned, ScanDone, Close
    <3>2. QED
        BY <3>1 DEF Untouched, Parsing
  <2>4. CASE Ended
    <3>1. pc \in {"io_error", "refused", "crashed", "closed"} /\ pc' = pc
        BY <2>4 DEF Ended, vars
    <3>2. QED
        BY <3>1 DEF Untouched, Parsing
  <2>5. QED
      BY <2>1, <2>2, <2>3, <2>4 DEF Next, ParseConfiguration
<1>2. CASE pc = "start"
  <2>1. pc' # "crashed" /\ ~Scanning'
      BY <1>2 DEF Next, ParseConfiguration, GetDeviceInfo, NoConfig, GetConfig, ParsingDone, BadLength,
                  ShortConfiguration, ParseAssociation, NoInterface, ParseInterface, ParseEndpoint, EndpointFails,
                  EndpointsMissing, ParseAlternate, InterfaceDone, Loops, Wanted, ScanCrashes, NoControl, ScanControl,
                  ParseUnit, ParseFails, ParseHeader, NextBlock, ScanStreaming, NoStreaming, StreamsScanned,
                  ParseStreamBlock, ParseInputHeader, ParseFormat, ParseFrame, ParseOther, FrameWithoutFormat,
                  StreamBlock, StreamScanned, ScanDone, Close, Ended, Scanning
  <2>2. QED
      BY <1>1, <2>1 DEF ScannedInv
<1>3. CASE pc # "start"
  <2>1. blob' = blob /\ window' = window /\ pc' # "start"
      BY <1>3, KeepsWindow
  <2>2. (WellFormed' <=> WellFormed) /\ (VideoClass' <=> VideoClass)
      BY <1>3, <2>1, SameWellFormed, SameKept
  <2> SUFFICES ASSUME WellFormed, VideoClass
               PROVE  pc' # "crashed" /\ (Scanning' => ScannedTree')
      BY <1>1, <2>2 DEF ScannedInv
  <2>3. pc # "crashed" /\ pc \notin {"io_error", "interface_done"} /\ (Parsing \/ Scanning => KeptTree)
        /\ (Scanning => ScannedTree) /\ Untouched
      BY DEF ScannedInv, KeptInv
  <2>4. CASE ScanCrashes \/ NoStreaming \/ FrameWithoutFormat
    <3>1. Scanning
        BY <2>4 DEF ScanCrashes, NoStreaming, FrameWithoutFormat, StreamBlock, Scanning
    <3>2. QED
        BY <2>3, <2>4, <3>1, ScannedNever
  <2>5. CASE NoControl \/ ParseFails \/ Close \/ Ended
    <3>1. pc' \in {"refused", "closed"}
        BY <2>3, <2>5 DEF NoControl, ParseFails, Close, Ended, Fail, vars
    <3>2. QED
        BY <3>1 DEF Scanning
  <2>6. CASE BadLength \/ ShortConfiguration \/ NoInterface \/ EndpointFails \/ EndpointsMissing
    <3>1. Parsing
        BY <2>6 DEF BadLength, ShortConfiguration, NoInterface, EndpointFails, EndpointsMissing, Loops, Wanted, Parsing
    <3>2. QED
        BY <2>3, <2>6, <3>1, KeptNever
  <2>7. CASE ParsingDone
    <3>1. Parsing /\ pc' = "parsed" /\ info' = info /\ todo' = todo
        BY <2>7 DEF ParsingDone, Parsing
    <3>2. todo'.control = {} /\ todo'.queue = <<>> /\ info'.streams = <<>>
        BY <2>3, <3>1 DEF Untouched
    <3>3. ToSet(<<>>) = {} /\ DOMAIN <<>> = {}
        BY DEF ToSet
    <3>4. QED
        BY <3>1, <3>2, <3>3 DEF ScannedTree
  <2>8. CASE ParseAssociation \/ ParseInterface \/ ParseAlternate \/ ParseEndpoint \/ InterfaceDone
    <3>1. Parsing
        BY <2>8 DEF ParseAssociation, ParseInterface, ParseAlternate, ParseEndpoint, InterfaceDone, Loops, Wanted, Parsing
    <3>2. pc' \in {"configuration", "endpoints", "io_error", "interface_done"}
        BY <2>3, <2>8 DEF ParseAssociation, ParseInterface, ParseAlternate, ParseEndpoint, InterfaceDone, ParseSetting,
                          Fail, Loops, Wanted
    <3>3. QED
        BY <3>2 DEF Scanning
  <2>9. CASE ScanControl \/ ParseUnit \/ ParseHeader
    <3>1. Scanning
        BY <2>9 DEF ScanControl, ParseUnit, ParseHeader, NextBlock, Scanning
    <3>2. pc' # "crashed"
        BY <2>9, BaseControl DEF Scans
    <3>3. QED
        BY <2>3, <2>9, <3>1, <3>2, ScannedControl
  <2>10. CASE ScanStreaming
    <3>1. Scanning /\ pc' # "crashed"
        BY <2>10 DEF ScanStreaming, Scanning
    <3>2. QED
        BY <2>3, <2>10, <3>1, ScannedStreaming
  <2>11. CASE ParseStreamBlock
    <3>1. pc = "blocks" /\ pc' = "blocks"
        BY <2>11, StreamBlockFacts
    <3>2. Scanning
        BY <3>1 DEF Scanning
    <3>3. QED
        BY <2>3, <2>11, <3>1, <3>2, ScannedBlock
  <2>12. CASE StreamsScanned \/ StreamScanned \/ ScanDone
    <3>1. Scans /\ UNCHANGED <<info, todo, heap>> /\ Scanning /\ Scanning'
        BY <2>12, BaseGoesOn
    <3>2. pc' # "blocks" /\ (pc = "blocks" => todo.stream = {}) /\ pc' # "crashed"
        BY <2>12 DEF StreamsScanned, StreamScanned, ScanDone
    <3>3. todo.control \subseteq In("unknown") /\ ToSet(todo.queue) \subseteq Streamed
        BY <2>3, <3>1 DEF ScannedTree
    <3>4. QED
        BY <2>3, <3>1, <3>2, <3>3, ScannedSame
  <2>13. CASE NoConfig \/ GetConfig
      BY <1>3, <2>13 DEF NoConfig, GetConfig
  <2>14. QED
      BY <2>4, <2>5, <2>6, <2>7, <2>8, <2>9, <2>10, <2>11, <2>12, <2>13 DEF Next, ParseConfiguration, GetDeviceInfo
<1>4. QED
    BY <1>2, <1>3

LEMMA ScannedAlways == Spec => [](BaseInv /\ TreeInv /\ KeptInv /\ ScannedInv)
<1>1. Init => ScannedInv
    BY DEF Init, ScannedInv, Untouched, WellFormed
<1>2. ScannedInv /\ UNCHANGED vars => ScannedInv'
  <2> SUFFICES ASSUME ScannedInv, UNCHANGED vars
               PROVE  ScannedInv'
      OBVIOUS
  <2>1. /\ blob' = blob /\ window' = window /\ pc' = pc /\ info' = info /\ todo' = todo
      BY DEF vars
  <2>2. (\A t : In(t)' = In(t)) /\ Streamed' = Streamed /\ (\A s, left : StreamKept(s, left)' <=> StreamKept(s, left))
        /\ (VideoClass' <=> VideoClass)
      BY <2>1, FixedWindow, SameKept
  <2>3. \A k : Left(k)' = Left(k)
      BY <2>1 DEF Left
  <2>4. ScannedTree => ScannedTree'
    <3> SUFFICES ASSUME ScannedTree
                 PROVE  ScannedTree'
        OBVIOUS
    <3>1. \A k \in DOMAIN info'.streams : StreamKept(info.streams[k], Left(k))'
        BY <2>1, <2>2, <2>3 DEF ScannedTree
    <3>2. QED
        BY <2>1, <2>2, <3>1 DEF ScannedTree
  <2>5. WellFormed' => WellFormed
    <3>1. CASE pc = "start"
        BY <2>1, <3>1 DEF WellFormed
    <3>2. CASE pc # "start"
        BY <2>1, <3>2, SameWellFormed
    <3>3. QED
        BY <3>1, <3>2
  <2>6. Untouched' /\ (Scanning' => Scanning)
      BY <2>1 DEF ScannedInv, Untouched, Parsing, Scanning
  <2>7. QED
      BY <2>1, <2>2, <2>4, <2>5, <2>6 DEF ScannedInv
<1>3. BaseInv /\ TreeInv /\ KeptInv /\ ScannedInv /\ [Next]_vars => ScannedInv'
    BY <1>2, ScannedStep
<1>4. QED
    BY <1>1, <1>3, KeptAlways, PTL DEF Spec

\* With the blocks as UVC wants them uvc_open ends without a crash, and then each streaming
\* interface has each format and frame once, each frame under the format before it.
THEOREM FormatsAreAlwaysKept == Spec => []FormatsAreKept
<1>1. ASSUME ScannedInv, pc \in {"open", "crashed"}, WellFormed, VideoClass
      PROVE  /\ pc = "open"
             /\ \A k \in DOMAIN info.streams :
                    LET s == info.streams[k]
                    IN  FormatsKept(s.formats, BlocksOf(s.number))
  <2>1. pc = "open" /\ ScannedTree
      BY <1>1 DEF ScannedInv, Scanning
  <2>2. ASSUME NEW k \in DOMAIN info.streams
        PROVE  FormatsKept(info.streams[k].formats, BlocksOf(info.streams[k].number))
    <3>1. StreamKept(info.streams[k], {})
        BY <2>1 DEF ScannedTree, Left
    <3>2. BlocksOf(info.streams[k].number) \ {} = BlocksOf(info.streams[k].number)
        OBVIOUS
    <3>3. QED
        BY <3>1, <3>2 DEF StreamKept
  <2>3. QED
      BY <2>1, <2>2
<1>2. ScannedInv => FormatsAreKept
    BY <1>1 DEF FormatsAreKept
<1>3. QED
    BY <1>2, ScannedAlways, PTL
=============================================================================
