SPECIFICATION FairSpec
CONSTANTS
  Emails = {ana, bia}
  Passwords = {pw}
  Wrong = Wrong
  Requests = {q1, q2}
  MaxUsers = 2
  MaxObjects = 2
INVARIANT TypeOK
INVARIANT TokensTellTheRow
PROPERTY AvatarChangesToOwn
PROPERTY RegisteredGetsIn
