------------------------------- MODULE GEvent -------------------------------
(***************************************************************************)
(* The registration layer of the reactors: struct gevent, the one entry    *)
(* per descriptor in greactor.events, and the three calls that change it   *)
(* together with the epoll interest list.  A slot is a record with the     *)
(* fields of struct gevent that decide what happens                        *)
(*    callback  the function the dispatcher will call                      *)
(*    events    the events the program believes it asked epoll for         *)
(*    status    1 when the program believes the descriptor is in epoll     *)
(* and the kernel's side of the same descriptor                            *)
(*    interest  the events registered in the epoll instance, {} when the   *)
(*              descriptor is not in the interest list.                    *)
(* Keeping both sides lets the specifications ask whether they agree: the  *)
(* code never checks what epoll_ctl returned.                              *)
(***************************************************************************)

\* EPOLLIN and EPOLLOUT; EPOLLERR and EPOLLHUP are reported together with one
\* of these two and the dispatchers test neither.
Event == {"IN", "OUT"}

Callback == {"none", "accept", "recv", "send"}

\* epoll_ctl(EPOLL_CTL_ADD): fails with EEXIST on a registered descriptor.
EpollCtlAdd(interest, events) == IF interest = {} THEN events ELSE interest

\* epoll_ctl(EPOLL_CTL_MOD): fails with ENOENT on an unregistered descriptor.
EpollCtlMod(interest, events) == IF interest = {} THEN {} ELSE events

\* close(): the kernel takes a closed descriptor out of the interest list.
CloseDescriptor(s) == [s EXCEPT !.interest = {}]

GeventSet(s, callback) == [s EXCEPT !.callback = callback, !.events = {}]

GeventAdd(s, events) ==
    [s EXCEPT !.events   = events,
              !.status   = 1,
              !.interest = IF s.status = 1 THEN EpollCtlMod(@, events)
                                           ELSE EpollCtlAdd(@, events)]

\* gevent_del: the entry is free whatever EPOLL_CTL_DEL returns, EBADF if the
\* descriptor was closed first.
GeventDelChecked(s) ==
    IF s.status # 1 \/ s.interest = {} THEN s
    ELSE [s EXCEPT !.status = 0, !.interest = {}]
GeventDel(s) ==
    IF s.status # 1 THEN s ELSE [s EXCEPT !.status = 0, !.interest = {}]

\* gevent_del, gevent_set and gevent_add, as two of the callbacks call them.
ReArmSwapped(s, callback, events) ==
    GeventSet(GeventAdd(GeventDel(s), events), callback)
ReArmForgets(s, callback, events) == GeventAdd(GeventDel(s), events)
ReArm(s, callback, events) ==
    GeventAdd(GeventSet(GeventDel(s), callback), events)

=============================================================================
