------------------------------ MODULE AuthProofs ------------------------------
(***************************************************************************)
(* Proofs about Auth for every number of sessions and every environment.   *)
(***************************************************************************)
EXTENDS Auth, TLAPS

(* Between the two steps of dropping a session nothing is being saved and, *)
(* unless a file operation has failed, its file is gone.                   *)
FileGoneBeforeClear == pc = "clear" => saving = "no" /\ (trouble \/ file = Absent)

(* Only sessions there have been are dropped, or named by a cookie: so a   *)
(* new session's cookies cannot be those of a dropped one.                 *)
DroppedSessions == gone \subseteq 0..logins
KnownSessions ==
  \A c \in {mem, file.cookies, env} : \A k \in DOMAIN c : c[k] <= logins

(* A file that cannot be read has no cookies.                              *)
UnreadableIsEmpty == file.state # "ok" => Stored = NoCookies

IInv ==
  /\ TypeOK /\ UnreadableIsEmpty /\ FileGoneBeforeClear /\ DroppedSessions /\ KnownSessions
  /\ RestartForgetsNothing /\ DroppedStaysDropped /\ NoOlderLogin
------------------------------------------------------------------------------
(* What a cookie map is, for provers that do not look into UNION.          *)
LEMMA CookieMapsElements ==
  ASSUME NEW c
  PROVE  c \in CookieMaps <=>
           /\ c \in [DOMAIN c -> 0..MaxLogins]
           /\ DOMAIN c \subseteq Keys
BY DEF CookieMaps

(* The cookie maps the code builds by itself.                              *)
LEMMA SmallMaps ==
  /\ NoCookies \in CookieMaps
  /\ \A s \in 0..MaxLogins, K \in SUBSET Keys : Of(s, K) \in CookieMaps
BY CookieMapsElements, AuthAssumption DEF NoCookies, Of, Keys

(* HashMap::insert, key by key: what a merge holds.                        *)
LEMMA MergeElements ==
  ASSUME NEW c \in CookieMaps, NEW d \in CookieMaps
  PROVE  /\ Merge(c, d) \in CookieMaps
         /\ DOMAIN Merge(c, d) = DOMAIN c \cup DOMAIN d
         /\ \A k \in DOMAIN c \cup DOMAIN d :
              Merge(c, d)[k] = IF k \in DOMAIN d THEN d[k] ELSE c[k]
<1>1. /\ c \in [DOMAIN c -> 0..MaxLogins] /\ DOMAIN c \subseteq Keys
      /\ d \in [DOMAIN d -> 0..MaxLogins] /\ DOMAIN d \subseteq Keys
  BY CookieMapsElements
<1>2. /\ DOMAIN Merge(c, d) = DOMAIN c \cup DOMAIN d
      /\ \A k \in DOMAIN c \cup DOMAIN d :
           Merge(c, d)[k] = IF k \in DOMAIN d THEN d[k] ELSE c[k]
  BY DEF Merge
<1>3. Merge(c, d) \in [DOMAIN Merge(c, d) -> 0..MaxLogins]
  BY <1>1, <1>2 DEF Merge
<1> QED
  BY <1>1, <1>2, <1>3, CookieMapsElements

(* The session of a cookie map is a session, or none.                      *)
LEMMA SessionRange ==
  ASSUME NEW c \in CookieMaps
  PROVE  SessionOf(c) \in 0..MaxLogins
BY CookieMapsElements, AuthAssumption DEF SessionOf, HasUnb

(* The sessions in memory and in the file are ones there have been.        *)
LEMMA SessionKnown ==
  ASSUME IInv
  PROVE  SessionOf(mem) \in 0..logins /\ SessionOf(Stored) \in 0..logins
<1>1. ASSUME NEW c \in {mem, file.cookies} PROVE SessionOf(c) \in 0..logins
  <2>1. SessionOf(c) \in 0..MaxLogins /\ logins \in Sessions
    BY SessionRange DEF IInv, TypeOK
  <2>2. SessionOf(c) <= logins
    BY <2>1, AuthAssumption DEF SessionOf, HasUnb, IInv, KnownSessions, Sessions
  <2> QED
    BY <2>1, <2>2, AuthAssumption DEF Sessions
<1> QED
  BY <1>1 DEF Stored

(* What a step without a login leaves of the number of sessions.           *)
LEMMA SameLogins ==
  ASSUME IInv, logins' = logins
  PROVE  logins' \in Sessions /\ logins <= logins'
BY AuthAssumption DEF IInv, TypeOK, Sessions

(* The files and environments the process may find at its first start.     *)
LEMMA InitIInv == Init => IInv
<1> SUFFICES ASSUME Init PROVE IInv
  OBVIOUS
<1>1. NoCookies \in CookieMaps /\ Of(1, Keys) \in CookieMaps
  BY SmallMaps, AuthAssumption
<1>2. file.state \in {"absent", "torn", "ok"} /\ file.cookies \in CookieMaps
  BY <1>1 DEF Init, Absent, Torn, Holding
<1>3. TypeOK
  <2>1. logins \in Sessions
    BY AuthAssumption DEF Init, Sessions
  <2> QED
    BY <1>1, <1>2, <2>1, AuthAssumption DEF Init, TypeOK, PC
<1>4. KnownSessions
  <2>1. \A c \in {NoCookies, Of(1, Keys)} \cup EnvCookies : \A k \in DOMAIN c : c[k] <= 1
    BY AuthAssumption DEF NoCookies, Of
  <2>2. /\ mem = NoCookies /\ env \in EnvCookies /\ logins = 1
        /\ file.cookies \in {NoCookies, Of(1, Keys)}
    BY DEF Init, Absent, Torn, Holding
  <2> QED
    BY <2>1, <2>2 DEF KnownSessions
<1> QED
  BY <1>3, <1>4
  DEF Init, IInv, FileGoneBeforeClear, DroppedSessions, RestartForgetsNothing,
      DroppedStaysDropped, NoOlderLogin, HasUnb, NoCookies, UnreadableIsEmpty, Stored,
      Absent, Torn, Holding

(* A step that brings no new cookies leaves the known sessions known.      *)
LEMMA KnownKept ==
  ASSUME IInv, logins' \in Sessions, logins <= logins'
  PROVE  /\ \A c \in {mem, file.cookies, env} : \A k \in DOMAIN c : c[k] <= logins'
         /\ /\ mem' \in {mem, file.cookies, env, NoCookies}
            /\ file'.cookies \in {mem, file.cookies, env, NoCookies}
            /\ env' = env
            => KnownSessions'
<1>1. \A c \in {mem, file.cookies, env} : c \in CookieMaps
  BY DEF IInv, TypeOK
<1>2. \A c \in {mem, file.cookies, env} : \A k \in DOMAIN c : c[k] \in Nat
  BY <1>1, CookieMapsElements, AuthAssumption
<1>3. logins \in Nat /\ logins' \in Nat /\ logins <= logins'
  BY DEF IInv, TypeOK, Sessions
<1>4. \A c \in {mem, file.cookies, env} : \A k \in DOMAIN c : c[k] <= logins'
  BY <1>2, <1>3 DEF IInv, KnownSessions
<1>5. \A k \in DOMAIN NoCookies : NoCookies[k] <= logins'
  BY DEF NoCookies
<1> QED
  BY <1>4, <1>5 DEF KnownSessions

(* The files the code leaves behind: one that cannot be read holds nothing.*)
LEMMA UnreadableKept ==
  ASSUME IInv, file' \in {file, Absent, Torn, Holding(mem)}
  PROVE  UnreadableIsEmpty'
BY DEF IInv, UnreadableIsEmpty, Stored, Absent, Torn, Holding

(* Storing cookies the service has just sent: they are merged into memory, *)
(* and saved if that changed anything.  None of them is a dropped one's.   *)
LEMMA StoreStep ==
  ASSUME IInv, NEW new \in CookieMaps, NEW to \in PC \ {"off", "clear"},
         Ready(pc), pc \notin {"off", "clear"},
         StoreAndGo(new, to),
         ~trouble /\ env = NoCookies => \A k \in DOMAIN new : new[k] \notin gone \ {0},
         \A k \in DOMAIN new : new[k] <= logins',
         HasUnb(new) => new["unb"] = logins',
         logins' \in Sessions, logins <= logins',
         UNCHANGED <<file, env, gone, trouble>>
  PROVE  IInv'
<1>1. mem \in CookieMaps /\ mem' \in CookieMaps
  BY MergeElements DEF StoreAndGo, IInv, TypeOK
<1>2. TypeOK'
  BY <1>1 DEF IInv, TypeOK, StoreAndGo
<1>3. FileGoneBeforeClear' /\ DroppedSessions'
  BY AuthAssumption
  DEF IInv, TypeOK, StoreAndGo, FileGoneBeforeClear, DroppedSessions, Sessions
<1>4. RestartForgetsNothing'
  BY DEF IInv, Ready, StoreAndGo, RestartForgetsNothing, Stored
<1>5. /\ DOMAIN mem' = DOMAIN mem \cup DOMAIN new
      /\ \A k \in DOMAIN mem' : mem'[k] = IF k \in DOMAIN new THEN new[k] ELSE mem[k]
  <2>1. mem' = Merge(mem, new)
    BY DEF StoreAndGo
  <2>2. /\ DOMAIN Merge(mem, new) = DOMAIN mem \cup DOMAIN new
        /\ \A k \in DOMAIN mem \cup DOMAIN new :
             Merge(mem, new)[k] = IF k \in DOMAIN new THEN new[k] ELSE mem[k]
    BY <1>1, MergeElements
  <2> QED
    BY <2>1, <2>2
<1>6. KnownSessions'
  <2>1. \A c \in {mem, file.cookies, env} : \A k \in DOMAIN c : c[k] <= logins'
    BY KnownKept
  <2>2. \A k \in DOMAIN mem' : mem'[k] <= logins'
    BY <1>5, <2>1
  <2> QED
    BY <2>1, <2>2 DEF KnownSessions
<1>7. DroppedStaysDropped'
  <2>1. SUFFICES ASSUME ~trouble, env = NoCookies, NEW s \in gone \ {0}
                 PROVE  /\ \A k \in DOMAIN mem' : mem'[k] # s
                        /\ \A k \in DOMAIN Stored : Stored[k] # s
    BY DEF DroppedStaysDropped, Stored
  <2>2. /\ \A k \in DOMAIN mem : mem[k] # s
        /\ \A k \in DOMAIN Stored : Stored[k] # s
        /\ \A k \in DOMAIN new : new[k] # s
    BY <2>1 DEF IInv, DroppedStaysDropped
  <2>3. ASSUME NEW k \in DOMAIN mem' PROVE mem'[k] # s
    <3>1. CASE k \in DOMAIN new
      BY <1>5, <2>2, <3>1
    <3>2. CASE k \in DOMAIN mem /\ k \notin DOMAIN new
      BY <1>5, <2>2, <3>2
    <3> QED
      BY <1>5, <3>1, <3>2
  <2> QED
    BY <2>2, <2>3
<1>8. NoOlderLogin'
  <2>1. SUFFICES ASSUME HasUnb(mem'), HasUnb(Stored) PROVE SessionOf(Stored) <= SessionOf(mem')
    BY DEF NoOlderLogin, Stored
  <2>2. CASE HasUnb(new)
    <3>1. SessionOf(mem') = logins'
      BY <1>5, <2>1, <2>2 DEF SessionOf, HasUnb
    <3> QED
      BY <3>1, SessionKnown DEF IInv, TypeOK, Sessions
  <2>3. CASE ~HasUnb(new)
    <3>1. HasUnb(mem) /\ SessionOf(mem') = SessionOf(mem)
      BY <1>5, <2>1, <2>3 DEF SessionOf, HasUnb
    <3> QED
      BY <2>1, <3>1 DEF IInv, NoOlderLogin
  <2> QED
    BY <2>2, <2>3
<1> QED
  BY <1>2, <1>3, <1>4, <1>6, <1>7, <1>8, UnreadableKept DEF IInv

(* A step that leaves cookies and file alone, whatever else it does.       *)
LEMMA KeepStep ==
  ASSUME IInv, pc' \in PC, pc' = pc \/ (pc \notin {"off", "clear"} /\ pc' # "clear"),
         logins' \in Sessions, logins <= logins',
         UNCHANGED <<mem, saving, file, env, gone, trouble>>
  PROVE  IInv'
<1>1. TypeOK' /\ FileGoneBeforeClear' /\ DroppedSessions'
  BY AuthAssumption DEF IInv, TypeOK, FileGoneBeforeClear, DroppedSessions, Sessions
<1>2. RestartForgetsNothing' /\ DroppedStaysDropped'
  BY DEF IInv, RestartForgetsNothing, DroppedStaysDropped, Stored
<1>3. KnownSessions'
  BY KnownKept
<1>4. NoOlderLogin'
  BY DEF IInv, NoOlderLogin, Stored
<1> QED
  BY <1>1, <1>2, <1>3, <1>4, UnreadableKept DEF IInv

(* A response may rotate the token of the session in memory.               *)
LEMMA RotateStep ==
  ASSUME IInv, NEW to \in PC \ {"off", "clear"},
         Ready(pc), pc \notin {"off", "clear"},
         Rotate(to),
         UNCHANGED <<file, env, logins, gone, trouble>>
  PROVE  IInv'
<1>1. CASE pc' = to /\ UNCHANGED <<mem, saving>>
  BY <1>1, KeepStep, AuthAssumption DEF IInv, TypeOK, Sessions
<1>2. ASSUME NEW n \in {SessionOf(mem), 0}, StoreAndGo(Of(n, {"tk"}), to)
      PROVE  IInv'
  <2> DEFINE new == Of(n, {"tk"})
  <2>1. n \in 0..MaxLogins /\ n \in 0..logins
    BY SessionRange, SessionKnown, AuthAssumption DEF IInv, TypeOK, Sessions
  <2>2. new \in CookieMaps
    BY <2>1, SmallMaps DEF Keys
  <2>3. ~trouble /\ env = NoCookies => n \notin gone \ {0}
    BY DEF IInv, DroppedStaysDropped, SessionOf, HasUnb
  <2>4. ~trouble /\ env = NoCookies => \A k \in DOMAIN new : new[k] \notin gone \ {0}
    BY <2>3 DEF Of
  <2>5. logins' \in Sessions /\ logins <= logins'
    BY AuthAssumption DEF IInv, TypeOK, Sessions
  <2>6. \A k \in DOMAIN new : new[k] <= logins'
    BY <2>1, <2>5 DEF Of
  <2>7. ~HasUnb(new)
    BY DEF HasUnb, Of
  <2> HIDE DEF new
  <2> QED
    BY <1>2, <2>2, <2>4, <2>5, <2>6, <2>7, StoreStep DEF new
<1> QED
  BY <1>1, <1>2 DEF Rotate

(* The process ends, by itself or not.                                     *)
LEMMA OffStep ==
  ASSUME IInv, pc' = "off", mem' = NoCookies, saving' = "no",
         UNCHANGED <<file, env, logins, gone, trouble>>
  PROVE  IInv'
<1>1. TypeOK' /\ FileGoneBeforeClear' /\ DroppedSessions' /\ RestartForgetsNothing'
  BY SmallMaps
  DEF IInv, TypeOK, PC, FileGoneBeforeClear, DroppedSessions, RestartForgetsNothing
<1>2. DroppedStaysDropped'
  BY DEF IInv, DroppedStaysDropped, Stored, NoCookies
<1>3. KnownSessions'
  BY KnownKept, SameLogins
<1>4. NoOlderLogin'
  BY DEF NoOlderLogin, HasUnb, NoCookies
<1> QED
  BY <1>1, <1>2, <1>3, <1>4, UnreadableKept DEF IInv

(* A save that succeeds writes what is in memory; one that fails is        *)
(* trouble.                                                                *)
LEMMA SaveStep ==
  ASSUME IInv, SaveOpens \/ SaveFills
  PROVE  IInv'
<1>1. CASE SaveOpens
  <2>1. Torn.cookies = NoCookies /\ Torn.state = "torn" /\ NoCookies \in CookieMaps
    BY SmallMaps DEF Torn
  <2>2. TypeOK' /\ FileGoneBeforeClear' /\ DroppedSessions' /\ RestartForgetsNothing'
    BY <1>1, <2>1 DEF SaveOpens, IInv, TypeOK, FileGoneBeforeClear, DroppedSessions,
                      RestartForgetsNothing
  <2>3. DroppedStaysDropped'
    BY <1>1, <2>1 DEF SaveOpens, IInv, TypeOK, DroppedStaysDropped, Stored, NoCookies
  <2>4. KnownSessions'
    BY <1>1, <2>1, KnownKept, SameLogins DEF SaveOpens
  <2>5. NoOlderLogin'
    BY <1>1, <2>1 DEF SaveOpens, IInv, NoOlderLogin, Stored, HasUnb, NoCookies
  <2> QED
    BY <2>2, <2>3, <2>4, <2>5, <1>1, UnreadableKept DEF IInv, SaveOpens
<1>2. CASE SaveFills
  <2>1. Holding(mem).cookies = mem /\ Holding(mem).state = "ok"
    BY DEF Holding
  <2>2. TypeOK' /\ FileGoneBeforeClear' /\ DroppedSessions'
    BY <1>2, <2>1 DEF SaveFills, IInv, TypeOK, FileGoneBeforeClear, DroppedSessions
  <2>3. RestartForgetsNothing' /\ DroppedStaysDropped'
    BY <1>2, <2>1 DEF SaveFills, IInv, TypeOK, RestartForgetsNothing, DroppedStaysDropped,
                      Stored
  <2>4. KnownSessions'
    BY <1>2, <2>1, KnownKept, SameLogins DEF SaveFills
  <2>5. SessionOf(mem) <= SessionOf(mem)
    BY SessionRange DEF IInv, TypeOK
  <2>6. NoOlderLogin'
    BY <1>2, <2>1, <2>5 DEF SaveFills, IInv, NoOlderLogin, Stored
  <2> QED
    BY <2>2, <2>3, <2>4, <2>6, <1>2, UnreadableKept DEF IInv, SaveFills
<1> QED
  BY <1>1, <1>2

(* The process starts with what the file or the environment holds.         *)
LEMMA BootStep ==
  ASSUME IInv, Boot
  PROVE  IInv'
<1>1. Load \in CookieMaps
  BY DEF IInv, TypeOK, Load
<1>2. TypeOK' /\ FileGoneBeforeClear' /\ DroppedSessions'
  BY <1>1 DEF Boot, IInv, TypeOK, PC, FileGoneBeforeClear, DroppedSessions
<1>3. RestartForgetsNothing' /\ DroppedStaysDropped'
  BY DEF Boot, Load, IInv, RestartForgetsNothing, DroppedStaysDropped, Stored, NoCookies
<1>4. KnownSessions'
  BY KnownKept, SameLogins DEF Boot, Load
<1>5. NoOlderLogin'
  <2>1. SessionOf(Stored) <= SessionOf(Stored)
    BY SessionRange DEF IInv, TypeOK, Stored
  <2>2. HasUnb(Stored) => Load = Stored
    BY DEF Load, Stored, IInv, UnreadableIsEmpty, HasUnb, NoCookies
  <2> QED
    BY <2>1, <2>2 DEF Boot, NoOlderLogin, Stored
<1> QED
  BY <1>2, <1>3, <1>4, <1>5, UnreadableKept DEF IInv, Boot

(* A new session is of a number never dropped before.                      *)
LEMMA NewSession ==
  ASSUME IInv, logins < MaxLogins, NEW K \in SUBSET Keys
  PROVE  /\ logins + 1 \in Sessions /\ Of(logins + 1, K) \in CookieMaps
         /\ DOMAIN Of(logins + 1, K) = K
         /\ \A k \in K : /\ Of(logins + 1, K)[k] = logins + 1
                        /\ Of(logins + 1, K)[k] \notin gone \ {0}
                        /\ Of(logins + 1, K)[k] <= logins + 1
         /\ logins <= logins + 1
<1>1. logins \in 1..MaxLogins /\ gone \subseteq 0..logins
  BY DEF IInv, TypeOK, Sessions, DroppedSessions
<1>2. logins + 1 \in 1..MaxLogins /\ logins + 1 \in 0..MaxLogins /\ logins + 1 \notin gone
  BY <1>1, AuthAssumption
<1>3. logins + 1 <= logins + 1 /\ logins <= logins + 1
  BY <1>1
<1>4. DOMAIN Of(logins + 1, K) = K /\ \A k \in K : Of(logins + 1, K)[k] = logins + 1
  BY DEF Of
<1> HIDE DEF Of
<1> QED
  BY <1>1, <1>2, <1>3, <1>4, SmallMaps DEF Sessions

(* An importer stores cookies of a new session over what it has loaded.    *)
LEMMA ImportStep ==
  ASSUME IInv, Import
  PROVE  IInv'
<1> DEFINE n == logins + 1
<1>1. Load \in CookieMaps
  BY DEF IInv, TypeOK, Load
<1>2. PICK K \in SUBSET Keys : mem' = Merge(Load, Of(n, K))
  BY DEF Import
<1> DEFINE new == Of(n, K)
<1>3. /\ n \in Sessions /\ new \in CookieMaps /\ DOMAIN new = K
      /\ \A k \in K : new[k] = n /\ new[k] \notin gone \ {0} /\ new[k] <= n
      /\ logins <= n
  BY NewSession DEF Import
<1> HIDE DEF new
<1>4. /\ mem' \in CookieMaps
      /\ DOMAIN mem' = DOMAIN Load \cup K
      /\ \A k \in DOMAIN Load \cup K : mem'[k] = IF k \in K THEN new[k] ELSE Load[k]
  <2>1. /\ Merge(Load, new) \in CookieMaps
        /\ DOMAIN Merge(Load, new) = DOMAIN Load \cup DOMAIN new
        /\ \A k \in DOMAIN Load \cup DOMAIN new :
             Merge(Load, new)[k] = IF k \in DOMAIN new THEN new[k] ELSE Load[k]
    BY <1>1, <1>3, MergeElements
  <2> QED
    BY <1>2, <1>3, <2>1 DEF new
<1>5. logins' = n
  BY DEF Import
<1>6. /\ TypeOK' /\ UnreadableIsEmpty' /\ FileGoneBeforeClear' /\ DroppedSessions'
      /\ RestartForgetsNothing'
  BY <1>3, <1>4, <1>5, AuthAssumption
  DEF Import, IInv, TypeOK, PC, UnreadableIsEmpty, Stored, FileGoneBeforeClear,
      DroppedSessions, RestartForgetsNothing, Sessions
<1>7. DroppedStaysDropped'
  <2>1. SUFFICES ASSUME ~trouble, env = NoCookies, NEW s \in gone \ {0}
                 PROVE  /\ \A k \in DOMAIN mem' : mem'[k] # s
                        /\ \A k \in DOMAIN Stored : Stored[k] # s
    BY DEF DroppedStaysDropped, Stored, Import
  <2>2. \A k \in DOMAIN Stored : Stored[k] # s
    BY <2>1 DEF IInv, DroppedStaysDropped
  <2>3. \A k \in DOMAIN Load : Load[k] # s
    BY <2>1, <2>2 DEF Load, Stored, NoCookies
  <2>4. ASSUME NEW k \in DOMAIN mem' PROVE mem'[k] # s
    <3>1. CASE k \in K
      BY <1>3, <1>4, <3>1
    <3>2. CASE k \in DOMAIN Load /\ k \notin K
      BY <1>4, <2>3, <3>2
    <3> QED
      BY <1>4, <3>1, <3>2
  <2> QED
    BY <2>2, <2>4
<1>8. KnownSessions'
  <2>1. \A c \in {mem, file.cookies, env} : \A k \in DOMAIN c : c[k] <= logins'
    BY <1>3, <1>5, KnownKept
  <2>2. \A k \in DOMAIN mem' : mem'[k] <= logins'
    BY <1>3, <1>4, <1>5, <2>1 DEF Load
  <2> QED
    BY <2>1, <2>2 DEF KnownSessions, Import
<1>9. NoOlderLogin'
  <2>1. SUFFICES ASSUME HasUnb(mem'), HasUnb(Stored) PROVE SessionOf(Stored) <= SessionOf(mem')
    BY DEF NoOlderLogin, Stored, Import
  <2>2. SessionOf(Stored) <= n /\ SessionOf(Stored) <= SessionOf(Stored)
    BY SessionKnown DEF IInv, TypeOK, Sessions
  <2>3. Load = Stored
    BY <2>1 DEF Load, Stored, IInv, UnreadableIsEmpty, HasUnb, NoCookies
  <2>4. CASE "unb" \in K
    BY <1>3, <1>4, <2>1, <2>2, <2>4 DEF SessionOf, HasUnb
  <2>5. CASE "unb" \notin K
    BY <1>4, <2>1, <2>2, <2>3, <2>5 DEF SessionOf, HasUnb
  <2> QED
    BY <2>4, <2>5
<1> QED
  BY <1>6, <1>7, <1>8, <1>9 DEF IInv

(* The two steps that drop a session: first its file, then its cookies.    *)
LEMMA DropStep ==
  ASSUME IInv, RmAuthFile \/ Clear
  PROVE  IInv'
<1>1. Absent.cookies = NoCookies /\ Absent.state = "absent" /\ NoCookies \in CookieMaps
  BY SmallMaps DEF Absent
<1>2. CASE RmAuthFile
  <2>1. TypeOK' /\ FileGoneBeforeClear' /\ DroppedSessions' /\ RestartForgetsNothing'
    BY <1>1, <1>2 DEF RmAuthFile, Ready, IInv, TypeOK, PC, FileGoneBeforeClear,
                      DroppedSessions, RestartForgetsNothing
  <2>2. DroppedStaysDropped'
    BY <1>1, <1>2 DEF RmAuthFile, IInv, DroppedStaysDropped, Stored, NoCookies
  <2>3. KnownSessions'
    BY <1>1, <1>2, KnownKept, SameLogins DEF RmAuthFile
  <2>4. NoOlderLogin'
    BY <1>1, <1>2 DEF RmAuthFile, IInv, NoOlderLogin, Stored, HasUnb, NoCookies
  <2> QED
    BY <2>1, <2>2, <2>3, <2>4, <1>2, UnreadableKept DEF IInv, RmAuthFile
<1>3. CASE Clear
  <2>1. SessionOf(mem) \in 0..MaxLogins /\ SessionOf(mem) \in 0..logins
    BY SessionKnown, SessionRange DEF IInv, TypeOK
  <2>2. trouble \/ file.cookies = NoCookies
    BY <1>1, <1>3 DEF Clear, Ready, IInv, FileGoneBeforeClear
  <2>3. gone' \subseteq 0..MaxLogins /\ gone' \subseteq 0..logins
    BY <1>3, <2>1 DEF Clear, IInv, TypeOK, DroppedSessions
  <2>4. TypeOK' /\ FileGoneBeforeClear' /\ DroppedSessions'
    BY <1>1, <1>3, <2>3
    DEF Clear, Ready, IInv, TypeOK, PC, FileGoneBeforeClear, DroppedSessions
  <2>5. RestartForgetsNothing'
    BY <1>1, <1>3, <2>2 DEF Clear, IInv, TypeOK, RestartForgetsNothing, Stored
  <2>6. KnownSessions'
    BY <1>3, KnownKept, SameLogins DEF Clear
  <2>7. DroppedStaysDropped'
    BY <1>3, <2>2 DEF Clear, DroppedStaysDropped, Stored, NoCookies
  <2>8. NoOlderLogin'
    BY <1>3 DEF Clear, NoOlderLogin, HasUnb, NoCookies
  <2> QED
    BY <2>4, <2>5, <2>6, <2>7, <2>8, <1>3, UnreadableKept DEF IInv, Clear
<1> QED
  BY <1>2, <1>3

(* A confirmed QR code stores a new session.                               *)
LEMMA ConfirmStep ==
  ASSUME IInv, QrcodeConfirmed
  PROVE  IInv'
<1> DEFINE n == logins + 1
<1>1. logins' = n /\ Ready("poll") /\ UNCHANGED <<file, env, gone, trouble>>
  BY DEF QrcodeConfirmed
<1>2. PICK K \in SUBSET Keys : StoreAndGo(Of(n, K), "connect")
  BY DEF QrcodeConfirmed
<1> DEFINE new == Of(n, K)
<1>3. /\ n \in Sessions /\ new \in CookieMaps /\ DOMAIN new = K
      /\ \A k \in K : new[k] = n /\ new[k] \notin gone \ {0} /\ new[k] <= n
      /\ logins <= n
  BY NewSession DEF QrcodeConfirmed
<1>4. Ready(pc) /\ pc = "poll" /\ "connect" \in PC \ {"off", "clear"}
  BY <1>1 DEF Ready, PC
<1> HIDE DEF n, new
<1>5. HasUnb(new) => new["unb"] = n
  BY <1>3 DEF HasUnb
<1>6. StoreAndGo(new, "connect")
  BY <1>2 DEF new
<1> QED
  BY <1>1, <1>3, <1>4, <1>5, <1>6, StoreStep

(* The calls whose responses can do no more than set the token.            *)
LEMMA CallStep ==
  ASSUME IInv, GetToken \/ RefreshToken \/ GetMh5tk \/ Reconnect
  PROVE  IInv'
<1>1. Ready(pc) /\ pc \notin {"off", "clear"}
  BY DEF GetToken, RefreshToken, GetMh5tk, Reconnect, Ready
<1>2. {"connect", "rm", "failed", "refresh", "mh5tk", "qrgen"} \subseteq PC \ {"off", "clear"}
  BY DEF PC
<1>3. PICK to \in PC \ {"off", "clear"} : Rotate(to)
  BY <1>2 DEF GetToken, RefreshToken, GetMh5tk, Reconnect
<1>4. UNCHANGED <<file, env, logins, gone, trouble>>
  BY DEF GetToken, RefreshToken, GetMh5tk, Reconnect
<1> QED
  BY <1>1, <1>3, <1>4, RotateStep

(* Every step of the process and of its environment keeps the invariant.   *)
LEMMA NextStep == IInv /\ [Next]_vars => IInv'
<1> SUFFICES ASSUME IInv, [Next]_vars PROVE IInv'
  OBVIOUS
<1>1. CASE Boot \/ Import
  BY <1>1, BootStep, ImportStep
<1>2. CASE SaveOpens \/ SaveFills
  BY <1>2, SaveStep
<1>3. CASE RmAuthFile \/ Clear
  BY <1>3, DropStep
<1>4. CASE GetToken \/ RefreshToken \/ GetMh5tk \/ Reconnect
  BY <1>4, CallStep
<1>5. CASE QrcodeConfirmed
  BY <1>5, ConfirmStep
<1>6. CASE ImportReturns \/ Exit \/ Crash
  BY <1>6, OffStep DEF ImportReturns, Exit, Crash, Ready
<1>7. CASE HasLogin \/ QrcodeGen \/ QrcodeEnds
  <2>1. pc' \in PC /\ pc \notin {"off", "clear"} /\ pc' # "clear"
    BY <1>7 DEF HasLogin, QrcodeGen, QrcodeEnds, Ready, PC
  <2>2. UNCHANGED <<mem, saving, file, env, logins, gone, trouble>>
    BY <1>7 DEF HasLogin, QrcodeGen, QrcodeEnds
  <2> QED
    BY <2>1, <2>2, SameLogins, KeepStep
<1>8. CASE UNCHANGED vars
  <2>1. pc' \in PC /\ pc' = pc
    BY <1>8 DEF vars, IInv, TypeOK
  <2>2. UNCHANGED <<mem, saving, file, env, logins, gone, trouble>>
    BY <1>8 DEF vars
  <2> QED
    BY <2>1, <2>2, SameLogins, KeepStep
<1> QED
  BY <1>1, <1>2, <1>3, <1>4, <1>5, <1>6, <1>7, <1>8 DEF Next
------------------------------------------------------------------------------
(* In every state, whatever crashes, failures and logins led to it.        *)
THEOREM Invariance == Spec => []IInv
BY InitIInv, NextStep, PTL DEF Spec

(* Every variable keeps to its type.                                       *)
THEOREM TypeCorrect == Spec => []TypeOK
<1>1. IInv => TypeOK
  BY DEF IInv
<1> QED
  BY <1>1, Invariance, PTL

(* A restart would find what the process has, but for failures of the file *)
(* system and cookies of the environment (auth.rs 110-131).                *)
THEOREM NothingForgotten == Spec => []RestartForgetsNothing
<1>1. IInv => RestartForgetsNothing
  BY DEF IInv
<1> QED
  BY <1>1, Invariance, PTL

(* No crash, merge or restart brings a dropped session back (api.rs        *)
(* 592-600, auth.rs 86-143).                                               *)
THEOREM DroppedForGood == Spec => []DroppedStaysDropped
<1>1. IInv => DroppedStaysDropped
  BY DEF IInv
<1> QED
  BY <1>1, Invariance, PTL

(* No old session's account cookies are used, or saved, in place of a newer*)
(* one's in the file (auth.rs 60-62, 86-131, api.rs 549-573, 592-600).     *)
THEOREM OldLoginNeverUsed == Spec => []NoOlderLogin
<1>1. IInv => NoOlderLogin
  BY DEF IInv
<1> QED
  BY <1>1, Invariance, PTL
==============================================================================
