-------------------------------- MODULE Kbd ---------------------------------
(***************************************************************************)
(* The keyboard's interrupt handler, devices/kbd.c: scan codes change the  *)
(* state of the shift keys or give a character for the input buffer.       *)
(* Characters and scan codes are numbers.                                  *)
(***************************************************************************)
EXTENDS Integers, Sequences

Keymap(first, chars) == [first |-> first, chars |-> chars]

\* Escape, backspace, the rows of letters, `*', space and delete.
invariant_keymap ==
  {Keymap(1, <<27>>), Keymap(14, <<8>>),
   Keymap(15, <<9, 81, 87, 69, 82, 84, 89, 85, 73, 79, 80>>), Keymap(28, <<13>>),
   Keymap(30, <<65, 83, 68, 70, 71, 72, 74, 75, 76>>),
   Keymap(44, <<90, 88, 67, 86, 66, 78, 77>>), Keymap(55, <<42>>), Keymap(57, <<32>>),
   Keymap(83, <<127>>)}
\* Digits, brackets, quotes, backslash and comma, without and with Shift.
unshifted_keymap ==
  {Keymap(2, <<49, 50, 51, 52, 53, 54, 55, 56, 57, 48, 45, 61>>), Keymap(26, <<91, 93>>),
   Keymap(39, <<59, 39, 96>>), Keymap(43, <<92>>), Keymap(51, <<44, 46, 47>>)}
shifted_keymap ==
  {Keymap(2, <<33, 64, 35, 36, 37, 94, 38, 42, 40, 41, 95, 43>>), Keymap(26, <<123, 125>>),
   Keymap(39, <<58, 34, 126>>), Keymap(43, <<124>>), Keymap(51, <<60, 62, 63>>)}

\* The characters that a keymap has for a scan code: one or none.
map_key(k, code) ==
  {m.chars[code - m.first + 1] :
     m \in {n \in k : code >= n.first /\ code < n.first + Len(n.chars)}}

PREFIX == 224
CapsLock == 58
\* A code with a prefix is 256 times the prefix more.
shift_keys ==
  [c \in {42, 54, 56, 29, PREFIX * 256 + 56, PREFIX * 256 + 29} |->
     CASE c = 42 -> "left_shift" [] c = 54 -> "right_shift" [] c = 56 -> "left_alt"
       [] c = 29 -> "left_ctrl" [] c = PREFIX * 256 + 56 -> "right_alt"
       [] c = PREFIX * 256 + 29 -> "right_ctrl"]

tolower(c) == IF c \in 65 .. 90 THEN c + 32 ELSE c

\* The keyboard: the shift keys that are down, Caps Lock, the characters given
\* to input_putc(), and whether the machine was told to reboot.
NoKeys == [down |-> {}, caps_lock |-> FALSE, chars |-> <<>>, reboot |-> FALSE]

IsDown(k, side1, side2) == k.down \cap {side1, side2} # {}

\* An ordinary character that is pressed.
Typed(k, c) ==
  LET shift == IsDown(k, "left_shift", "right_shift")
      alt == IsDown(k, "left_alt", "right_alt")
      ctrl == IsDown(k, "left_ctrl", "right_ctrl")
      plain == IF ctrl /\ c >= 64 /\ c < 96 THEN c - 64
               ELSE IF shift = k.caps_lock THEN tolower(c) ELSE c
  IN [k EXCEPT !.reboot = @ \/ (c = 127 /\ ctrl /\ alt),
               !.chars = Append(@, IF alt THEN plain + 128 ELSE plain)]

\* One interrupt, with the bytes that it reads: a code or a prefix and a code.
keyboard_interrupt(k, bytes) ==
  LET last == bytes[Len(bytes)]
      release == last >= 128
      code == (last % 128) + (IF Len(bytes) = 2 THEN PREFIX * 256 ELSE 0)
      shift == IsDown(k, "left_shift", "right_shift")
      found == map_key(invariant_keymap, code)
               \union map_key(IF shift THEN shifted_keymap ELSE unshifted_keymap, code)
  IN IF code = CapsLock
     THEN [k EXCEPT !.caps_lock = IF release THEN @ ELSE ~ @]
     ELSE IF found # {}
     THEN IF release THEN k ELSE Typed(k, CHOOSE c \in found : TRUE)
     ELSE IF code \in DOMAIN shift_keys
     THEN [k EXCEPT !.down = IF release THEN @ \ {shift_keys[code]}
                                        ELSE @ \union {shift_keys[code]}]
     ELSE k

RECURSIVE Interrupts(_, _)
Interrupts(k, events) ==
  IF events = <<>> THEN k ELSE Interrupts(keyboard_interrupt(k, Head(events)), Tail(events))
-----------------------------------------------------------------------------
(***************************************************************************)
(* The reference: keys by name, pressed and released by somebody.          *)
(***************************************************************************)
Key == {"left_shift", "right_shift", "left_alt", "right_ctrl", "caps", "a", "2", "del"}

Bytes(key, release) ==
  LET code == CASE key = "left_shift" -> 42 [] key = "right_shift" -> 54
                [] key = "left_alt" -> 56 [] key = "right_ctrl" -> 29
                [] key = "caps" -> CapsLock [] key = "a" -> 30 [] key = "2" -> 3
                [] key = "del" -> 83
      last == IF release THEN code + 128 ELSE code
  IN IF key = "right_ctrl" THEN <<PREFIX, last>> ELSE <<last>>

\* The keys that are down after a sequence of key events.
Held(events) ==
  {k \in Key : \E i \in DOMAIN events :
     /\ events[i] = [key |-> k, release |-> FALSE]
     /\ \A j \in i + 1 .. Len(events) : events[j] # [key |-> k, release |-> TRUE]}

\* What a person expects of a key that is pressed after others.
Expected(before, key) ==
  LET held == Held(before)
      shift == held \cap {"left_shift", "right_shift"} # {}
      caps == Len(SelectSeq(before, LAMBDA e : e = [key |-> "caps", release |-> FALSE])) % 2 = 1
      upper == shift # caps
      ctrl == "right_ctrl" \in held
      c == CASE key = "a" -> IF ctrl THEN 1 ELSE IF upper THEN 65 ELSE 97
             [] key = "2" -> IF ~ shift THEN 50 ELSE IF ctrl THEN 0 ELSE 64
             [] key = "del" -> 127
  IN IF "left_alt" \in held THEN c + 128 ELSE c

\* The keys are pressed before they are released.
Possible(events) ==
  \A i \in DOMAIN events :
    events[i].release => events[i].key \in Held(SubSeq(events, 1, i - 1))

\* Whatever the order in which shift keys are pressed and let go, one of a pair
\* or both, the last key that is typed gives the character it should, and the
\* machine reboots for Ctrl, Alt and Del only.
TypesWhatIsMeant(events) ==
  LET k == Interrupts(NoKeys, [i \in DOMAIN events |-> Bytes(events[i].key, events[i].release)])
      before == SubSeq(events, 1, Len(events) - 1)
      last == events[Len(events)]
  IN events # <<>> /\ last.key \in {"a", "2", "del"} /\ ~ last.release =>
       /\ k.chars[Len(k.chars)] = Expected(before, last.key)
       /\ last.key = "del" /\ {"left_alt", "right_ctrl"} \subseteq Held(before) => k.reboot
       /\ k.reboot => \E n \in 1 .. Len(events) :
            /\ events[n].key = "del"
            /\ {"left_alt", "right_ctrl"} \subseteq Held(SubSeq(events, 1, n - 1))
=============================================================================
