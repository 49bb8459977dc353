---------------------------- MODULE OptionTables ----------------------------
(***************************************************************************)
(* The tables of options of main(): optstr with what the back end of each  *)
(* platform appends to it, and long_options.                               *)
(***************************************************************************)
EXTENDS Sequences

Takes(letter) == [letter |-> letter, has_arg |-> "required"]
Bare(letter)  == [letter |-> letter, has_arg |-> "no"]

MainOptstr ==
    <<Bare("h"), Takes("s"), Takes("S"), Takes("t"), Takes("T"), Takes("b"),
      Bare("m"), Bare("g"), Bare("r"), Bare("v"), Takes("M"), Takes("P"),
      Bare("N"), Takes("Y"), Takes("X")>>

\* mididev_add_optstr()
DevOptstr(platform) ==
    CASE platform \in {"linux", "dos"} -> <<Takes("p")>>
      [] platform = "windows" -> <<Bare("l"), Takes("p")>>
      [] platform = "amiga" -> <<Bare("S"), Takes("l")>>
      [] platform = "atari" -> <<>>

Optstr(platform) == MainOptstr \o DevOptstr(platform)

Sets(flag, name) == [name |-> name, has_arg |-> "no", flag |-> flag, val |-> "1"]
Means(letter, has_arg, name) ==
    [name |-> name, has_arg |-> has_arg, flag |-> "NULL", val |-> letter]

MainLongOptions ==
    <<Sets("verbose", "verbose"), Sets("reboot_flag", "reboot"),
      Means("h", "no", "help"), Means("m", "no", "mt32"),
      Means("S", "required", "mt32-rstereo"), Means("g", "no", "fluidsynth"),
      Means("s", "required", "soundfont"), Sets("mt32_rst_flag", "mt32-reset"),
      Sets("gm_rst_flag", "gm-reset"), Sets("gs_rst_flag", "gs-reset"),
      Means("t", "required", "mt32-txt"), Means("T", "required", "sc55-txt"),
      Means("P", "required", "sc55-bmp"), Means("X", "required", "sc55-btxt"),
      Means("N", "required", "negative"), Means("b", "required", "romset"),
      Means("M", "required", "midi"), Means("Y", "required", "syx")>>
=============================================================================
