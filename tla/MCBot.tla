--------------------------------- MODULE MCBot ---------------------------------
(* Instances of Bot: each part with the life of the bot.                     *)
EXTENDS Bot, TLC

CONSTANTS m1, m2, joke, l1, r1, r2, north, t1, t2

MCConfigurations == {{f} : f \in Features}
MCProgressConfigurations == {{f} : f \in Features \ {"messages", "warnings"}} \cup {{"messages", "warnings"}}
MCSender == [m \in Messages |-> "user"]
MCInvokes == [m \in Messages |-> joke]
MCCooldown == [c \in Commands |-> 3]
MCQueueThreshold == [c \in Commands |-> 1]
MCAuthor == [p \in Texts |-> "user"]
MCIdentity == [p \in Texts |-> 1]
MCFirstSignature == [p \in Texts |-> 1]
MCRegion == [p \in Texts |-> IF p = t1 THEN north ELSE Unscoped]
(* The two messages of the user differ in nothing.                           *)
MCSymmetry == Permutations(Messages)
MCText == [r \in Replies |-> "pong"]
================================================================================
