--------------------------- MODULE MCProvisioning ---------------------------
(* A world small enough to be played through in every order.               *)
EXTENDS Provisioning

CONSTANTS a, b, c, start, hall, yard, menu, stall, tent, deep, guard, keep, tag

Role(ref, kind, policy, hard) ==
    [ref |-> ref, kind |-> kind, policy |-> policy, hard |-> hard]
To(path, qualified) == [to |-> path, qualified |-> qualified]
Templ(path, kind, roles, links) ==
    [path |-> path, kind |-> kind, tags |-> {}, start |-> FALSE, roles |-> roles,
     links |-> links, items |-> {}]

\* A guard who is called for everywhere, by roles that create one, that only
\* take one who is there, or that do not insist; a keep that comes with scene b
\* and that scene c waits for; a menu of stalls, one of which wants the guard.
World == LET EitherWay == {"EXISTING", "CREATE"} IN <<
    Templ(<<a>>, "scene", <<>>, <<>>),
    [Templ(<<a, start>>, "block", <<>>,
        <<To(<<a, hall>>, FALSE), To(<<b>>, FALSE), To(<<c, deep>>, TRUE)>>)
     EXCEPT !.start = TRUE],
    Templ(<<a, hall>>, "block", <<Role(guard, "actor", EitherWay, TRUE)>>,
        <<To(<<a, start>>, FALSE), To(<<b, menu>>, TRUE)>>),
    Templ(<<b>>, "scene", <<Role(keep, "location", {"CREATE"}, TRUE)>>, <<>>),
    [Templ(<<b, yard>>, "block", <<Role(guard, "actor", EitherWay, TRUE)>>,
        <<To(<<b, menu>>, FALSE), To(<<a, start>>, TRUE)>>) EXCEPT !.start = TRUE],
    [Templ(<<b, menu>>, "menu", <<>>, <<To(<<a, hall>>, TRUE)>>) EXCEPT !.items = {tag}],
    [Templ(<<b, stall>>, "block", <<Role(guard, "actor", {"CREATE"}, TRUE)>>,
        <<To(<<b, yard>>, FALSE)>>) EXCEPT !.tags = {tag}],
    [Templ(<<b, tent>>, "block", <<Role(guard, "actor", {"EXISTING"}, FALSE)>>,
        <<To(<<b, menu>>, FALSE)>>) EXCEPT !.tags = {tag}],
    Templ(<<c>>, "scene", <<Role(keep, "location", {"EXISTING"}, TRUE)>>, <<>>),
    Templ(<<c, deep>>, "block", <<Role(guard, "actor", {"EXISTING"}, TRUE)>>,
        <<To(<<a, start>>, TRUE)>>),
    Templ(<<guard>>, "actor", <<>>, <<>>),
    Templ(<<keep>>, "location", <<>>, <<>>) >>

-----------------------------------------------------------------------------
(* What the passing run supposes of a world's author, and the code does    *)
(* not enforce: see the README.                                            *)

LinksResolve ==
    \A t \in DOMAIN Templates : \A k \in DOMAIN Templates[t].links :
        Cardinality(Candidates(Destination(Templates[t].links[k]))) = 1
Creatable(spec) == "CREATE" \in spec.policy /\ Candidates(RoleOf(spec)) # {}
EntriesProvided ==
    \A t, s \in DOMAIN Templates : \A k \in DOMAIN Templates[t].links :
        LET to == Templates[t].links[k].to
            e == EntryTemplate(s)
        IN  (e # 0 /\ IsPrefix(Templates[s].path, to) /\ Templates[e].path # to)
              => \A spec \in HardRoles(e) : spec.hard => Creatable(spec)
ItemsBeside ==
    \A t, m \in DOMAIN Templates :
        (Templates[m].items # {} /\ Templates[m].items \subseteq Templates[t].tags)
          => Front(Templates[t].path) = Front(Templates[m].path)
ASSUME Authored == LinksResolve /\ EntriesProvided /\ ItemsBeside
=============================================================================
