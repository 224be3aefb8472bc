-------------------------------- MODULE Log --------------------------------
(***************************************************************************)
(* The kernel log, kernel/debug/log.c.                                     *)
(*                                                                         *)
(* Records of the latest messages form a circular queue; their texts, each *)
(* ended by a null, form another one of characters.  A new message makes   *)
(* room in both by giving up the oldest messages, and is then handed to    *)
(* the callbacks that are registered.                                      *)
(*                                                                         *)
(* A character of the text is the number of the message it belongs to, the *)
(* null is 0; the text's length counts the null.  Only the main thread     *)
(* logs, so a call is one action.  history and registered are the caller's *)
(* view, which the code does not keep.                                     *)
(***************************************************************************)
EXTENDS Integers, Sequences, FiniteSets, FiniteSetsExt

CONSTANTS
    RBUFSIZE,       \* records
    MBUFSIZE,       \* characters
    MAX_CALLBACKS,
    Levels,         \* the log levels used, numbers
    Lengths,        \* the texts' lengths, at most MBUFSIZE
    Handlers,       \* the callback functions
    MaxLogs         \* bound: messages logged

ASSUME LogAssumption ==
    /\ RBUFSIZE \in Nat \ {0} /\ MBUFSIZE \in Nat \ {0}
    /\ MAX_CALLBACKS \in Nat /\ MaxLogs \in Nat
    /\ Levels \subseteq Nat
    /\ Lengths \subseteq 1..MBUFSIZE

VARIABLES
    rbuf, rhead, rtail, rbufsz,     \* the record buffer
    mbuf, mhead, mtail, mbufsz,     \* the message buffer
    callbacks, callbacks_size,
    called,         \* the callbacks issued by the last message
    history,        \* the messages logged, [level, len, end], end the number
                    \* of characters logged up to and with the message's
    registered      \* the callbacks registered, with their levels

bufs == <<rbuf, rhead, rtail, rbufsz, mbuf, mhead, mtail, mbufsz>>
vars == <<bufs, callbacks, callbacks_size, called, history, registered>>

RIndex == 0..(RBUFSIZE - 1)
MIndex == 0..(MBUFSIZE - 1)

\* The characters logged up to and with message id.
End(id) == IF id = 0 THEN 0 ELSE history[id].end

-----------------------------------------------------------------------------
(* Eviction, on a record s of the buffers' variables. *)

Bufs == [rbuf |-> rbuf, rhead |-> rhead, rtail |-> rtail, rbufsz |-> rbufsz,
         mbuf |-> mbuf, mhead |-> mhead, mtail |-> mtail, mbufsz |-> mbufsz]

\* The places of the nulls among the characters in use, from the oldest on.
Nulls(s) == {i \in 0..(s.mbufsz - 1) : s.mbuf[(s.mhead + i) % MBUFSIZE] = 0}

evict_record(s, n) ==
    [s EXCEPT !.rhead = (@ + n) % RBUFSIZE, !.rbufsz = @ - n]

evict_chars(s, n) ==
    [s EXCEPT !.mhead = (@ + n) % MBUFSIZE, !.mbufsz = @ - n]

\* Mistaken variant: everything goes.
ThroughNullAll(s, n) == s.mbufsz

\* The characters up to and with the first null at place n or later.
ThroughNull(s, n) ==
    LET later == {i \in Nulls(s) : i >= n}
    IN  IF later = {} THEN s.mbufsz ELSE Min(later) + 1

\* At least chars characters go, then whatever follows through a null, and
\* a record for each null.
evict_msg(s, chars) ==
    LET n == ThroughNull(s, Min({chars, s.mbufsz}))
    IN  evict_record(evict_chars(s, n), Cardinality({i \in Nulls(s) : i < n}))

evict_oldest_msg(s) == evict_chars(s, ThroughNull(s, 0))

-----------------------------------------------------------------------------
(* Logging. *)

\* mtail may come to MBUFSIZE, where the next text then begins.
add_msg(s, id, schars) ==
    LET room == IF s.mbufsz + schars > MBUFSIZE
                THEN evict_msg(s, s.mbufsz + schars - MBUFSIZE) ELSE s
        end  == s.mtail + schars
    IN  [room EXCEPT
            !.mbuf = [a \in MIndex |->
                IF \E i \in 0..(schars - 1) : a = (s.mtail + i) % MBUFSIZE
                THEN IF a = (end - 1) % MBUFSIZE THEN 0 ELSE id
                ELSE room.mbuf[a]],
            !.mtail = IF end > MBUFSIZE THEN end - MBUFSIZE ELSE end,
            !.mbufsz = @ + schars]

\* Mistaken variant: the record given up keeps its text.
add_recordOnly(s, offset, level) ==
    LET room == IF s.rbufsz = RBUFSIZE THEN evict_record(s, 1) ELSE s
    IN  [room EXCEPT !.rbuf[room.rtail] = [level |-> level, moffset |-> offset],
                     !.rtail = (@ + 1) % RBUFSIZE,
                     !.rbufsz = @ + 1]

add_record(s, offset, level) ==
    LET room == IF s.rbufsz = RBUFSIZE THEN evict_oldest_msg(evict_record(s, 1))
                ELSE s
    IN  [room EXCEPT !.rbuf[room.rtail] = [level |-> level, moffset |-> offset],
                     !.rtail = (@ + 1) % RBUFSIZE,
                     !.rbufsz = @ + 1]

log(level, schars) ==
    /\ Len(history) < MaxLogs
    /\ LET id == Len(history) + 1
           s  == add_record(add_msg(Bufs, id, schars), mtail, level)
       IN  /\ rbuf' = s.rbuf /\ rhead' = s.rhead
           /\ rtail' = s.rtail /\ rbufsz' = s.rbufsz
           /\ mbuf' = s.mbuf /\ mhead' = s.mhead
           /\ mtail' = s.mtail /\ mbufsz' = s.mbufsz
    /\ called' = {callbacks[i].cb :
                     i \in {j \in 1..callbacks_size : level <= callbacks[j].maxlevel}}
    /\ history' = Append(history, [level |-> level, len |-> schars,
                                     end |-> End(Len(history)) + schars])
    /\ UNCHANGED <<callbacks, callbacks_size, registered>>

-----------------------------------------------------------------------------
(* Callbacks. *)

\* A registration beyond the last place is ignored.
log_addcallback(maxlevel, cb) ==
    /\ cb \notin DOMAIN registered
    /\ IF callbacks_size = MAX_CALLBACKS
       THEN UNCHANGED <<callbacks, callbacks_size, registered>>
       ELSE /\ callbacks_size' = callbacks_size + 1
            /\ callbacks' = [callbacks EXCEPT ![callbacks_size + 1] =
                                [maxlevel |-> maxlevel, cb |-> cb]]
            /\ registered' = [h \in DOMAIN registered \union {cb} |->
                                  IF h = cb THEN maxlevel ELSE registered[h]]
    /\ UNCHANGED <<bufs, called, history>>

Unregister(cb) ==
    /\ registered' = [h \in DOMAIN registered \ {cb} |-> registered[h]]
    /\ UNCHANGED <<bufs, callbacks_size, called, history>>

\* Mistaken variant: the later registrations move down whatever is removed.
log_removecallbackFirst(cb) ==
    /\ cb \in DOMAIN registered
    /\ callbacks' = [j \in 1..MAX_CALLBACKS |->
                        IF j < callbacks_size THEN callbacks[j + 1] ELSE callbacks[j]]
    /\ Unregister(cb)

\* The later registrations move down; the size stays.
log_removecallback(cb) ==
    /\ cb \in DOMAIN registered
    /\ callbacks' = [j \in 1..MAX_CALLBACKS |->
                        IF j < callbacks_size /\ \E i \in 1..j : callbacks[i].cb = cb
                        THEN callbacks[j + 1] ELSE callbacks[j]]
    /\ Unregister(cb)

-----------------------------------------------------------------------------
NoCallback == [maxlevel |-> 0, cb |-> 0]

\* The context is zeroed memory.
Init ==
    /\ rbuf = [i \in RIndex |-> [level |-> 0, moffset |-> 0]]
    /\ rhead = 0 /\ rtail = 0 /\ rbufsz = 0
    /\ mbuf = [i \in MIndex |-> 0]
    /\ mhead = 0 /\ mtail = 0 /\ mbufsz = 0
    /\ callbacks = [i \in 1..MAX_CALLBACKS |-> NoCallback]
    /\ callbacks_size = 0
    /\ called = {}
    /\ history = <<>>
    /\ registered = <<>>

Next ==
    \/ \E level \in Levels, n \in Lengths : log(level, n)
    \/ \E level \in Levels, cb \in Handlers : log_addcallback(level, cb)
    \/ \E cb \in Handlers : log_removecallback(cb)

Spec == Init /\ [][Next]_vars

-----------------------------------------------------------------------------
(* Properties. *)

\* The two queues are consistent: heads, tails and sizes agree, whatever was
\* given up on the way.
TypeOK ==
    /\ rhead \in RIndex /\ rtail \in RIndex /\ rbufsz \in 0..RBUFSIZE
    /\ mhead \in MIndex /\ mtail \in 0..MBUFSIZE /\ mbufsz \in 0..MBUFSIZE
    /\ rtail = (rhead + rbufsz) % RBUFSIZE
    /\ mtail % MBUFSIZE = (mhead + mbufsz) % MBUFSIZE
    /\ callbacks_size \in 0..MAX_CALLBACKS

\* The log's k-th record is that of message number id, and its offset finds
\* the whole text.
Holds(k, id) ==
    LET r == rbuf[(rhead + k) % RBUFSIZE]
        n == history[id].len
    IN  /\ r.level = history[id].level
        /\ \A i \in 0..(n - 1) :
               mbuf[(r.moffset + i) % MBUFSIZE] = IF i = n - 1 THEN 0 ELSE id

\* "A circular queue that contains records describing the most recent log
\* messages" (log.c:45-46): the records are those of the latest messages, in
\* order, each with its text intact, and there is no text without a record.
HoldsMostRecent ==
    LET first == Len(history) - rbufsz
    IN  /\ TypeOK
        /\ \A k \in 0..(rbufsz - 1) : Holds(k, first + k + 1)
        /\ mbufsz = End(Len(history)) - End(first)
        /\ history # <<>> => rbufsz > 0

\* A message gives up others only for room: with the last two of those given
\* up the texts would not fit, unless the records were full.
GivesUpForRoom ==
    [][\A level \in Levels, n \in Lengths :
          log(level, n) /\ rbufsz' < rbufsz + 1 =>
              \/ rbufsz = RBUFSIZE /\ rbufsz' = RBUFSIZE
              \/ LET first == Max({0, Len(history) - rbufsz - 2})
                 IN  (End(Len(history)) - End(first))' > MBUFSIZE]_vars

\* Every callback registered gets the messages of its levels, whichever
\* others have been removed before.
NobodyMissed ==
    [][\A level \in Levels, n \in Lengths :
          log(level, n) =>
              {cb \in DOMAIN registered : level <= registered[cb]} \subseteq called']_vars

\* moffset is the "offset of message in context::mbuf" (log.c:31).
OffsetsInBuffer == \A i \in RIndex : rbuf[i].moffset \in MIndex

\* log_removecallback: "Remove a callback handler for log messages"
\* (log.h:50): one that is removed gets no more messages.
RemovedIsSilent ==
    [][\A level \in Levels, n \in Lengths :
          log(level, n) => called' \subseteq DOMAIN registered]_vars
=============================================================================
