----------------------------- MODULE GrayScale -----------------------------
(***************************************************************************)
(* The gray-scale switch (app/internal/config/gray_scale.go): which share  *)
(* of the waybills the Go service handles instead of Ruby.  A tracking     *)
(* number is the sequence of its code points.                              *)
(***************************************************************************)
EXTENDS Integers, FiniteSets, Sequences

\* The hash of a number, one code point after another; the remainder at every
\* step keeps it from overflowing.
hashTrackingNumber(number) ==
    LET hash[i \in 0 .. Len(number)] ==
            IF i = 0 THEN 0 ELSE (hash[i - 1] * 31 + number[i]) % 100
    IN  hash[Len(number)]

\* Wrong versions: an inclusive bound; one number in every
\* 100 / percentage.
ShouldProcessByGoInclusive(config, number, channel) ==
    /\ config.Enabled
    /\ \/ number \in config.EnabledTrackingNumbers
       \/ channel \in config.EnabledChannels
       \/ config.Percentage > 0 /\ hashTrackingNumber(number) % 100 <= config.Percentage

ShouldProcessByGoSampled(config, number, channel) ==
    /\ config.Enabled
    /\ \/ number \in config.EnabledTrackingNumbers
       \/ channel \in config.EnabledChannels
       \/ config.Percentage >= 100
       \/ /\ config.Percentage > 0
          /\ hashTrackingNumber(number) % (100 \div config.Percentage) = 0

\* Listed numbers and channels always go to Go; of the others those whose hash
\* is below the percentage.
ShouldProcessByGo(config, number, channel) ==
    /\ config.Enabled
    /\ \/ number \in config.EnabledTrackingNumbers
       \/ channel \in config.EnabledChannels
       \/ config.Percentage > 0 /\ hashTrackingNumber(number) % 100 < config.Percentage

-----------------------------------------------------------------------------
\* Configuration d lets through whatever c is meant to, and perhaps more.
Widens(c, d) ==
    /\ c.Enabled => d.Enabled
    /\ c.Percentage <= d.Percentage
    /\ c.EnabledChannels \subseteq d.EnabledChannels
    /\ c.EnabledTrackingNumbers \subseteq d.EnabledTrackingNumbers

\* The percentage in force; the code does not check the configured one.
EffectivePercentage(config) ==
    IF config.Percentage < 0 THEN 0
    ELSE IF config.Percentage > 100 THEN 100 ELSE config.Percentage

\* The code points a number that begins with prefix may end in and still go to Go.
GoEndings(config, prefix, channel) ==
    {c \in 0..99 : ShouldProcessByGo(config, Append(prefix, c), channel)}
=============================================================================
