---------------------------- MODULE SheetPicture ----------------------------
(***************************************************************************)
(* What callers of the window layers expect to see: a stack of layers,     *)
(* each colouring some points, of which the screen shows the topmost at    *)
(* every point.  One call restacks, shows or hides one layer, or changes   *)
(* how one layer looks: it is moved or painted.                            *)
(***************************************************************************)
CONSTANTS Points, Layers

VARIABLES shown,      \* the layers that are shown
          above,      \* the pairs of them whose first is above the second
          look,       \* the points each layer colours, with their colours
          screen

vars == <<shown, above, look, screen>>

IsStack(layers, order) ==
    /\ order \subseteq layers \X layers
    /\ \A a, b \in layers : <<a, b>> \in order => <<b, a>> \notin order
    /\ \A a, b \in layers : a # b => <<a, b>> \in order \/ <<b, a>> \in order
    /\ \A a, b, c \in layers :
           <<a, b>> \in order /\ <<b, c>> \in order => <<a, c>> \in order

Topmost(s, p) == /\ s \in shown /\ p \in DOMAIN look[s]
                 /\ \A r \in shown \ {s} : p \in DOMAIN look[r] => <<s, r>> \in above

IsPicture == /\ DOMAIN screen = Points
             /\ \A p \in Points : \E s \in Layers : Topmost(s, p) /\ screen[p] = look[s][p]

Init == (\E s \in Layers : shown = {s}) /\ above = {} /\ IsPicture

\* The others keep their order.
Restack(s) == /\ shown' \ {s} = shown \ {s}
              /\ \A a, b \in Layers \ {s} : <<a, b>> \in above' <=> <<a, b>> \in above
              /\ UNCHANGED look

Change(s) == /\ \A r \in Layers \ {s} : look'[r] = look[r]
             /\ UNCHANGED <<shown, above>>

Next == /\ \E s \in Layers : Restack(s) \/ Change(s)
        /\ IsStack(shown', above')
        /\ IsPicture'

Spec == Init /\ [][Next]_vars
=============================================================================
