------------------------ MODULE FleetCollisionProofs ------------------------
(***************************************************************************)
(* Theorems about FleetCollision for every safety distance, horizon, timing *)
(* of the samples and set of places and velocities.                        *)
(***************************************************************************)
EXTENDS FleetCollision, TLAPS

Vectors == [x : Int, y : Int, z : Int]

OneOrigin == ~Separate

-----------------------------------------------------------------------------
(* Vectors *)

LEMMA VectorTypes ==
    ASSUME NEW u \in Vectors, NEW v \in Vectors, NEW n \in Int
    PROVE  /\ Plus(u, v) \in Vectors /\ Minus(u, v) \in Vectors /\ Times(n, u) \in Vectors
           /\ Dot(u, v) \in Int
<1>1. u.x \in Int /\ u.y \in Int /\ u.z \in Int /\ v.x \in Int /\ v.y \in Int /\ v.z \in Int
  BY DEF Vectors
<1>2. \A i, j \in Int : i * j \in Int
  OBVIOUS
<1>3. Times(n, u) \in Vectors
  BY <1>1, <1>2 DEF Times, Vec, Vectors
<1>4. Dot(u, v) \in Int
  BY <1>1, <1>2 DEF Dot
<1> QED
  BY <1>1, <1>3, <1>4 DEF Plus, Minus, Vec, Vectors

\* Where a sample was taken lies a unit further back after a unit of flight.
LEMMA OneUnit ==
    ASSUME NEW p \in Vectors, NEW u \in Vectors, NEW k \in Int
    PROVE  Minus(Plus(p, u), Times(k + 1, u)) = Minus(p, Times(k, u))
<1>1. \A i \in Int : (k + 1) * i = k * i + i /\ k * i \in Int
  OBVIOUS
<1>2. p.x \in Int /\ p.y \in Int /\ p.z \in Int /\ u.x \in Int /\ u.y \in Int /\ u.z \in Int
  BY DEF Vectors
<1>3. \A i, j \in Int : (j + i) - (k + 1) * i = j - k * i
  BY <1>1
<1>4. /\ (p.x + u.x) - (k + 1) * u.x = p.x - k * u.x
      /\ (p.y + u.y) - (k + 1) * u.y = p.y - k * u.y
      /\ (p.z + u.z) - (k + 1) * u.z = p.z - k * u.z
  BY <1>2, <1>3
<1> QED
  BY <1>4 DEF Minus, Plus, Times, Vec

LEMMA SeenFrom ==
    ASSUME NEW p \in Vectors, NEW q \in Vectors, NEW w \in Vectors
    PROVE  Minus(p, Minus(q, w)) = Plus(Minus(p, q), w)
BY DEF Minus, Plus, Vec, Vectors

LEMMA FlownApart ==
    ASSUME NEW p \in Vectors, NEW q \in Vectors, NEW u \in Vectors, NEW v \in Vectors
    PROVE  Minus(Plus(p, u), Plus(q, v)) = Plus(Minus(p, q), Minus(u, v))
BY DEF Minus, Plus, Vec, Vectors

LEMMA NoTime ==
    ASSUME NEW d \in Vectors, NEW v \in Vectors
    PROVE  Plus(d, Times(0, v)) = d
BY DEF Plus, Times, Vec, Vectors

LEMMA VelocityZero ==
    ASSUME NEW v \in Vectors
    PROVE  Dot(v, v) \in Nat /\ (Dot(v, v) = 0 <=> v = Still)
<1>1. v.x \in Int /\ v.y \in Int /\ v.z \in Int
  BY DEF Vectors
<1>2. \A n \in Int : n * n \in Int /\ n * n >= 0 /\ (n * n = 0 <=> n = 0)
  OBVIOUS
<1>3. Dot(v, v) \in Nat /\ (Dot(v, v) = 0 <=> v.x = 0 /\ v.y = 0 /\ v.z = 0)
  <2> DEFINE a == v.x * v.x  b == v.y * v.y  c == v.z * v.z
  <2>1. /\ a \in Int /\ b \in Int /\ c \in Int /\ a >= 0 /\ b >= 0 /\ c >= 0
        /\ a = 0 <=> v.x = 0
        /\ b = 0 <=> v.y = 0
        /\ c = 0 <=> v.z = 0
    BY <1>1, <1>2
  <2>2. Dot(v, v) = a + b + c
    BY DEF Dot
  <2> HIDE DEF a, b, c
  <2>3. a + b + c \in Nat /\ (a + b + c = 0 <=> a = 0 /\ b = 0 /\ c = 0)
    BY <2>1
  <2> QED
    BY <2>1, <2>2, <2>3
<1>4. v = Still <=> v.x = 0 /\ v.y = 0 /\ v.z = 0
  BY DEF Vectors, Still, Vec
<1> QED
  BY <1>3, <1>4

LEMMA SquareOrder ==
    ASSUME NEW x \in Int, NEW y \in Int, y >= 0, x * x <= y * y
    PROVE  x <= y
<1> SUFFICES ASSUME x > y PROVE FALSE
  OBVIOUS
<1> DEFINE k == x - y - 1
<1>1. k \in Int /\ k >= 0 /\ x = y + 1 + k
  OBVIOUS
<1> HIDE DEF k
<1>2. x * x = y * y + 2 * y + 1 + k * k + 2 * k + 2 * (k * y)
  BY <1>1
<1>3. k * k >= 0 /\ k * y >= 0 /\ k * k \in Int /\ k * y \in Int /\ y * y \in Int
  BY <1>1
<1> QED
  BY <1>1, <1>2, <1>3

-----------------------------------------------------------------------------
(* The time of closest approach *)

\* The square of the distance at time b / a, times a * a.
Quadratic(A, B, C, a, b) == (a * a) * A + 2 * ((a * b) * B) + (b * b) * C

\* For lines of motion with products A, B and C: C times the square of the distance at
\* the closest moment.  It does not change in straight flight.
Miss(A, B, C) == C * A - B * B

LEMMA SquareExpand ==
    ASSUME NEW a \in Int, NEW b \in Int, NEW x \in Int, NEW y \in Int
    PROVE  /\ (a * x + b * y) * (a * x + b * y)
                  = (a * a) * (x * x) + 2 * ((a * b) * (x * y)) + (b * b) * (y * y)
           /\ x * x \in Int /\ x * y \in Int /\ x * x >= 0
OBVIOUS

LEMMA Distribute ==
    ASSUME NEW n \in Int, NEW x \in Int, NEW y \in Int, NEW z \in Int
    PROVE  n * (x + y + z) = n * x + n * y + n * z
OBVIOUS

LEMMA DotExpand ==
    ASSUME NEW d \in Vectors, NEW v \in Vectors, NEW a \in Int, NEW b \in Int,
           NEW at, at = Plus(Times(a, d), Times(b, v))
    PROVE  Dot(at, at) = Quadratic(Dot(d, d), Dot(d, v), Dot(v, v), a, b)
<1> DEFINE term(x, y) == (a * a) * (x * x) + 2 * ((a * b) * (x * y)) + (b * b) * (y * y)
<1>1. d.x \in Int /\ d.y \in Int /\ d.z \in Int /\ v.x \in Int /\ v.y \in Int /\ v.z \in Int
  BY DEF Vectors
<1>2. at.x = a * d.x + b * v.x /\ at.y = a * d.y + b * v.y /\ at.z = a * d.z + b * v.z
  BY DEF Plus, Times, Vec
<1>3. at.x * at.x = term(d.x, v.x) /\ at.y * at.y = term(d.y, v.y) /\ at.z * at.z = term(d.z, v.z)
  BY <1>1, <1>2, SquareExpand
<1>4. Dot(at, at) = term(d.x, v.x) + term(d.y, v.y) + term(d.z, v.z)
  BY <1>3 DEF Dot
<1>5. /\ (a * a) * Dot(d, d) = (a * a) * (d.x * d.x) + (a * a) * (d.y * d.y) + (a * a) * (d.z * d.z)
      /\ (a * b) * Dot(d, v) = (a * b) * (d.x * v.x) + (a * b) * (d.y * v.y) + (a * b) * (d.z * v.z)
      /\ (b * b) * Dot(v, v) = (b * b) * (v.x * v.x) + (b * b) * (v.y * v.y) + (b * b) * (v.z * v.z)
  BY <1>1, SquareExpand, Distribute DEF Dot
<1>6. Dot(at, at) = Quadratic(Dot(d, d), Dot(d, v), Dot(v, v), a, b)
  <2> DEFINE p1 == (a * a) * (d.x * d.x)  q1 == (a * b) * (d.x * v.x)  r1 == (b * b) * (v.x * v.x)
             p2 == (a * a) * (d.y * d.y)  q2 == (a * b) * (d.y * v.y)  r2 == (b * b) * (v.y * v.y)
             p3 == (a * a) * (d.z * d.z)  q3 == (a * b) * (d.z * v.z)  r3 == (b * b) * (v.z * v.z)
  <2>1. /\ p1 \in Int /\ p2 \in Int /\ p3 \in Int /\ q1 \in Int /\ q2 \in Int /\ q3 \in Int
        /\ r1 \in Int /\ r2 \in Int /\ r3 \in Int
    BY <1>1
  <2>2. Dot(at, at) = (p1 + 2 * q1 + r1) + (p2 + 2 * q2 + r2) + (p3 + 2 * q3 + r3)
    BY <1>4
  <2>3. Quadratic(Dot(d, d), Dot(d, v), Dot(v, v), a, b)
            = (p1 + p2 + p3) + 2 * (q1 + q2 + q3) + (r1 + r2 + r3)
    BY <1>5 DEF Quadratic
  <2> HIDE DEF p1, p2, p3, q1, q2, q3, r1, r2, r3
  <2> QED
    BY <2>1, <2>2, <2>3
<1> QED
  BY <1>6

LEMMA DistanceExpand ==
    ASSUME NEW r \in Nat, NEW d \in Vectors, NEW v \in Vectors, NEW a \in Int, NEW b \in Int
    PROVE  Within(r, d, v, b, a)
              <=> Quadratic(Dot(d, d), Dot(d, v), Dot(v, v), a, b) <= r * r * a * a
BY DotExpand DEF Within

LEMMA Cancel ==
    ASSUME NEW k \in Int, NEW x \in Int, NEW y \in Int, k > 0, k * x <= k * y
    PROVE  x <= y
<1> SUFFICES ASSUME x > y PROVE FALSE
  OBVIOUS
<1> DEFINE e == x - y - 1
<1>1. e \in Int /\ e >= 0
  OBVIOUS
<1>2. k * x = k * y + k + k * e
  OBVIOUS
<1>3. k * e \in Int /\ k * e >= 0
  BY <1>1
<1> QED
  BY <1>2, <1>3

\* A quadratic is smallest at its vertex -B / C.
LEMMA VertexIsLowest ==
    ASSUME NEW A \in Int, NEW B \in Int, NEW C \in Int, NEW S \in Int,
           NEW m \in Int, NEW n \in Int, C > 0, m > 0,
           Quadratic(A, B, C, m, n) <= S * m * m
    PROVE  Quadratic(A, B, C, C, -B) <= S * C * C
<1> DEFINE D == C * A - B * B
           r == n * C + m * B
           q == Quadratic(A, B, C, m, n)
<1>1. D \in Int /\ r \in Int /\ q \in Int /\ m * m \in Int /\ S * C \in Int
  BY DEF Quadratic
<1>2. C * q = (m * m) * D + r * r
  BY DEF Quadratic
<1>3. r * r >= 0 /\ m * m > 0
  BY <1>1
<1>4. C * q <= (m * m) * (S * C)
  <2>1. C * q <= C * (S * m * m)
    <3>1. S * m * m \in Int /\ q <= S * m * m
      OBVIOUS
    <3> HIDE DEF q
    <3> QED
      BY <1>1, <3>1
  <2>2. C * (S * m * m) = (m * m) * (S * C)
    OBVIOUS
  <2> QED
    BY <2>1, <2>2
<1>5. D <= S * C
  <2> DEFINE k == m * m  t == S * C
  <2>1. k * D <= k * t
    <3>1. (m * m) * D \in Int /\ r * r \in Int /\ C * q \in Int /\ k * t \in Int
      BY <1>1
    <3> HIDE DEF D, r, q
    <3> QED
      BY <1>2, <1>3, <1>4, <3>1
  <2>2. k \in Int /\ t \in Int /\ k > 0 /\ D \in Int
    BY <1>1, <1>3
  <2> HIDE DEF k, t, D
  <2>3. D <= t
    BY <2>1, <2>2, Cancel
  <2> QED
    BY <2>3 DEF t
<1>6. Quadratic(A, B, C, C, -B) = C * D
  BY DEF Quadratic
<1>7. C * D <= C * (S * C)
  <2> DEFINE t == S * C
  <2>1. t \in Int
    OBVIOUS
  <2> HIDE DEF D, t
  <2>2. C * D <= C * t
    BY <1>1, <1>5, <2>1 DEF t
  <2> QED
    BY <2>2 DEF t
<1>8. C * (S * C) = S * C * C
  OBVIOUS
<1> QED
  BY <1>6, <1>7, <1>8

LEMMA MissAtVertex ==
    ASSUME NEW A \in Int, NEW B \in Int, NEW C \in Int, NEW S \in Int, C > 0
    PROVE  /\ Quadratic(A, B, C, C, -B) = C * Miss(A, B, C)
           /\ Quadratic(A, B, C, C, -B) <= S * C * C <=> Miss(A, B, C) <= S * C
<1> DEFINE D == Miss(A, B, C)  t == S * C
<1>1. D \in Int /\ t \in Int
  BY DEF Miss
<1>2. Quadratic(A, B, C, C, -B) = C * D
  BY DEF Quadratic, Miss
<1>3. S * C * C = C * t
  OBVIOUS
<1> HIDE DEF D, t
<1>4. C * D <= C * t => D <= t
  BY <1>1, Cancel
<1>5. D <= t => C * D <= C * t
  BY <1>1
<1> QED
  BY <1>2, <1>3, <1>4, <1>5 DEF D, t

\* Cauchy's inequality: the square of a distance is nowhere negative.
LEMMA MissNotNegative ==
    ASSUME NEW d \in Vectors, NEW v \in Vectors, Dot(v, v) > 0
    PROVE  Miss(Dot(d, d), Dot(d, v), Dot(v, v)) >= 0
<1> DEFINE A == Dot(d, d)  B == Dot(d, v)  C == Dot(v, v)
<1>1. A \in Int /\ B \in Int /\ C \in Int /\ C > 0 /\ -B \in Int
  BY VectorTypes
<1>2. PICK at : at = Plus(Times(C, d), Times(-B, v))
  OBVIOUS
<1>3. at \in Vectors
  BY <1>1, <1>2, VectorTypes
<1>4. Quadratic(A, B, C, C, -B) = Dot(at, at)
  BY <1>1, <1>2, DotExpand
<1>5. Dot(at, at) >= 0
  BY <1>3, VelocityZero
<1> HIDE DEF A, B, C
<1>6. Miss(A, B, C) \in Int
  BY <1>1 DEF Miss
<1>7. C * 0 <= C * Miss(A, B, C)
  BY <1>1, <1>4, <1>5, MissAtVertex
<1>8. 0 <= Miss(A, B, C)
  BY <1>1, <1>6, <1>7, Cancel
<1> QED
  BY <1>6, <1>8 DEF A, B, C

LEMMA DotAlong ==
    ASSUME NEW d \in Vectors, NEW u \in Vectors, NEW v \in Vectors, NEW n \in Int
    PROVE  Dot(Plus(d, Times(n, u)), v) = Dot(d, v) + n * Dot(u, v)
<1>1. /\ d.x \in Int /\ d.y \in Int /\ d.z \in Int
      /\ u.x \in Int /\ u.y \in Int /\ u.z \in Int
      /\ v.x \in Int /\ v.y \in Int /\ v.z \in Int
  BY DEF Vectors
<1>2. PICK e : e = Plus(d, Times(n, u))
  OBVIOUS
<1>3. e.x = d.x + n * u.x /\ e.y = d.y + n * u.y /\ e.z = d.z + n * u.z
  BY <1>2 DEF Plus, Times, Vec
<1>4. ASSUME NEW x \in Int, NEW y \in Int, NEW z \in Int
      PROVE  (x + n * y) * z = x * z + n * (y * z) /\ x * z \in Int /\ y * z \in Int
  OBVIOUS
<1> DEFINE f == d.x * v.x  g == d.y * v.y  h == d.z * v.z
           k == u.x * v.x  l == u.y * v.y  m == u.z * v.z
<1>5. e.x * v.x = f + n * k /\ f \in Int /\ k \in Int
  BY <1>1, <1>3, <1>4
<1>6. e.y * v.y = g + n * l /\ g \in Int /\ l \in Int
  BY <1>1, <1>3, <1>4
<1>7. e.z * v.z = h + n * m /\ h \in Int /\ m \in Int
  BY <1>1, <1>3, <1>4
<1>8. /\ Dot(d, v) = f + g + h /\ Dot(u, v) = k + l + m
      /\ Dot(e, v) = e.x * v.x + e.y * v.y + e.z * v.z
  BY DEF Dot
<1> HIDE DEF f, g, h, k, l, m
<1>9. n * (k + l + m) = n * k + n * l + n * m /\ n * k \in Int /\ n * l \in Int /\ n * m \in Int
  BY <1>5, <1>6, <1>7, Distribute
<1> QED
  BY <1>2, <1>5, <1>6, <1>7, <1>8, <1>9

LEMMA AlongFlight ==
    ASSUME NEW d \in Vectors, NEW v \in Vectors, NEW n \in Int, NEW e, e = Plus(d, Times(n, v))
    PROVE  /\ Dot(e, v) = Dot(d, v) + n * Dot(v, v)
           /\ Dot(e, e) = Dot(d, d) + 2 * (n * Dot(d, v)) + n * n * Dot(v, v)
<1>4. Dot(e, v) = Dot(d, v) + n * Dot(v, v)
  BY DotAlong
<1>5. Dot(e, e) = Quadratic(Dot(d, d), Dot(d, v), Dot(v, v), 1, n)
  <2>1. e = Plus(Times(1, d), Times(n, v))
    BY DEF Plus, Times, Vec, Vectors
  <2> QED
    BY <2>1, DotExpand
<1>6. Dot(d, d) \in Int /\ Dot(d, v) \in Int /\ Dot(v, v) \in Int
  BY VectorTypes
<1> QED
  BY <1>4, <1>5, <1>6 DEF Quadratic

LEMMA MissConstant ==
    ASSUME NEW A \in Int, NEW B \in Int, NEW C \in Int, NEW n \in Int
    PROVE  Miss(A + 2 * (n * B) + n * n * C, B + n * C, C) = Miss(A, B, C)
BY DEF Miss

-----------------------------------------------------------------------------
(* Displacements *)

LEMMA Factor ==
    ASSUME NEW x \in Int, NEW y \in Int, NEW k \in Int, k >= 0, x <= y
    PROVE  x * k <= y * k
<1>1. (y - x) * k >= 0
  <2>1. \A i, j \in Nat : i * j >= 0
    OBVIOUS
  <2> QED
    BY <2>1
<1>2. (y - x) * k = y * k - x * k /\ x * k \in Int /\ y * k \in Int
  OBVIOUS
<1> QED
  BY <1>1, <1>2

LEMMA Cauchy ==
    ASSUME NEW u \in Vectors, NEW w \in Vectors
    PROVE  Dot(u, w) * Dot(u, w) <= Dot(u, u) * Dot(w, w)
<1> DEFINE A == Dot(u, u)  B == Dot(u, w)  C == Dot(w, w)
<1>1. A \in Int /\ B \in Int /\ C \in Nat
  BY VectorTypes, VelocityZero
<1>2. CASE C = 0
  <2>1. w = Still
    BY <1>2, VelocityZero
  <2>2. B = 0
    BY <2>1 DEF Dot, Still, Vec, Vectors
  <2> HIDE DEF A, B, C
  <2> QED
    BY <1>1, <1>2, <2>2 DEF A, B, C
<1>3. CASE C > 0
  <2>1. Miss(A, B, C) >= 0
    BY <1>3, MissNotNegative
  <2> HIDE DEF A, B, C
  <2>2. C * A = A * C /\ C * A \in Int /\ B * B \in Int
    BY <1>1
  <2>3. B * B <= A * C
    BY <2>1, <2>2 DEF Miss
  <2> QED
    BY <2>3 DEF A, B, C
<1> QED
  BY <1>1, <1>2, <1>3

\* Who is displaced by no more than q comes no nearer than by q.
LEMMA Displaced ==
    ASSUME NEW d \in Vectors, NEW v \in Vectors, NEW w \in Vectors,
           NEW r \in Nat, NEW q \in Nat, NEW n \in Int, NEW m \in Nat,
           Dot(w, w) <= q * q, Within(r, d, v, n, m)
    PROVE  Within(r + q, Plus(d, w), v, n, m)
<1> DEFINE at == Plus(Times(m, d), Times(n, v))
           to == Plus(Times(1, at), Times(m, w))
           A == Dot(at, at)
           B == Dot(at, w)
           C == Dot(w, w)
<1>1. at \in Vectors
  BY VectorTypes
<1>2. Plus(Times(m, Plus(d, w)), Times(n, v)) = to
  <2>1. \A i, j, k \in Int : m * (i + j) + k = 1 * (m * i + k) + m * j
    OBVIOUS
  <2>2. n * v.x \in Int /\ n * v.y \in Int /\ n * v.z \in Int
    BY DEF Vectors
  <2> QED
    BY <2>1, <2>2 DEF Plus, Times, Vec, Vectors
<1> HIDE DEF at
<1>3. Dot(to, to) = Quadratic(A, B, C, 1, m)
  BY <1>1, DotExpand
<1>4. A \in Nat /\ B \in Int /\ C \in Nat /\ B * B <= A * C
  BY <1>1, VectorTypes, VelocityZero, Cauchy
<1>5. A <= r * r * m * m /\ C <= q * q
  BY DEF Within, at
<1> HIDE DEF A, B, C, to
<1> DEFINE R == r * m
<1>6. R \in Nat /\ A <= R * R /\ R * R \in Nat
  <2>1. r * r * m * m = R * R /\ R \in Nat /\ R * R \in Nat
    OBVIOUS
  <2> QED
    BY <1>5, <2>1
<1>7. (r + q) * (r + q) * m * m = R * R + 2 * (m * (R * q)) + (m * m) * (q * q)
  OBVIOUS
<1> HIDE DEF R
<1>8. B <= R * q
  <2>1. A * C <= (R * R) * C
    BY <1>4, <1>6, Factor
  <2>2. C * (R * R) <= (q * q) * (R * R)
    BY <1>4, <1>5, <1>6, Factor
  <2>3. (R * R) * C = C * (R * R) /\ (q * q) * (R * R) = (R * q) * (R * q)
    BY <1>4, <1>6
  <2>4. R * q \in Int /\ R * q >= 0
    BY <1>6
  <2>5. /\ A * C \in Int /\ C * (R * R) \in Int /\ (R * q) * (R * q) \in Int
        /\ B * B \in Int
    BY <1>4, <1>6
  <2>6. B * B <= (R * q) * (R * q)
    BY <1>4, <2>1, <2>2, <2>3, <2>5
  <2> QED
    BY <1>4, <2>4, <2>6, SquareOrder
<1>9. m * B <= m * (R * q) /\ (m * m) * C <= (m * m) * (q * q)
  <2>1. R * q \in Int /\ m * m \in Nat /\ q * q \in Int
    BY <1>6
  <2>2. B * m <= (R * q) * m
    BY <1>4, <1>8, <2>1, Factor
  <2>3. C * (m * m) <= (q * q) * (m * m)
    BY <1>4, <1>5, <2>1, Factor
  <2>4. /\ B * m = m * B /\ (R * q) * m = m * (R * q)
        /\ C * (m * m) = (m * m) * C /\ (q * q) * (m * m) = (m * m) * (q * q)
    BY <1>4, <2>1
  <2> QED
    BY <2>2, <2>3, <2>4
<1>10. Quadratic(A, B, C, 1, m) = A + 2 * (m * B) + (m * m) * C
  BY <1>4 DEF Quadratic
<1>11. Dot(to, to) <= (r + q) * (r + q) * m * m
  <2>1. /\ m * B \in Int /\ m * (R * q) \in Int /\ (m * m) * C \in Int
        /\ (m * m) * (q * q) \in Int
    BY <1>4, <1>6
  <2> QED
    BY <1>3, <1>4, <1>6, <1>7, <1>9, <1>10, <2>1
<1> QED
  BY <1>2, <1>11 DEF Within

-----------------------------------------------------------------------------
(* What a sample says *)

Samples == [pos : Vectors, vel : Velocity \cup {Still}, lag : Nat, current : BOOLEAN]

\* A sample that is current shows where the peer was lag units ago on this course.
Faithful(s) ==
    s.current => /\ s.vel = velocity[Peer]
                 /\ s.pos = Minus(place[Peer], Times(s.lag, velocity[Peer]))

SkyOK ==
    /\ place \in [Pilot -> Place] /\ velocity \in [Pilot -> Velocity \cup {Still}]
    /\ origin = [d \in Pilot |-> Still]
    /\ air \in SUBSET Samples /\ remote \in SUBSET Samples
    /\ \A s \in air \cup remote : Faithful(s)

LEMMA SkyVectors ==
    ASSUME SkyOK
    PROVE  /\ \A d \in Pilot : place[d] \in Vectors /\ velocity[d] \in Vectors
           /\ Distance \in Vectors /\ Approach \in Vectors
           /\ \A d \in Pilot : Dot(velocity[d], velocity[d]) <= MaxSpeed * MaxSpeed
<1>1. /\ \A d \in Pilot : place[d] \in Vectors /\ velocity[d] \in Vectors
      /\ Self \in Pilot /\ Peer \in Pilot
  BY GeometryAssumption DEF SkyOK, Vectors, Still, Vec, Pilot
<1>2. Distance \in Vectors /\ Approach \in Vectors
  BY <1>1, VectorTypes DEF Distance, Approach
<1>3. \A v \in Velocity \cup {Still} : Dot(v, v) <= MaxSpeed * MaxSpeed
  <2>1. Dot(Still, Still) = 0 /\ MaxSpeed * MaxSpeed >= 0
    BY GeometryAssumption DEF Dot, Still, Vec
  <2> QED
    BY <2>1, GeometryAssumption
<1> QED
  BY <1>1, <1>2, <1>3 DEF SkyOK

LEMMA SamplePeer ==
    ASSUME SkyOK
    PROVE  Sample(Peer) \in Samples /\ Faithful(Sample(Peer))
<1>1. place[Peer] \in Vectors /\ velocity[Peer] \in Velocity \cup {Still} /\ origin[Peer] = Still
  BY SkyVectors DEF SkyOK, Pilot
<1>2. /\ Minus(place[Peer], origin[Peer]) \in Vectors
      /\ Minus(place[Peer], origin[Peer]) = Minus(place[Peer], Times(0, velocity[Peer]))
  <2>1. velocity[Peer] \in Vectors
    BY SkyVectors DEF Pilot
  <2> QED
    BY <1>1, <2>1 DEF Minus, Times, Still, Vec, Vectors
<1> QED
  BY <1>1, <1>2 DEF Sample, Samples, Faithful

LEMMA FlySky ==
    ASSUME SkyOK, Fly
    PROVE  SkyOK'
<1>1. /\ place[Peer] \in Vectors /\ velocity[Peer] \in Vectors
      /\ place'[Peer] = Plus(place[Peer], velocity[Peer])
  BY SkyVectors DEF Fly, Pilot
<1>2. \A s \in air \cup remote :
          /\ [s EXCEPT !.lag = @ + 1] \in Samples
          /\ Faithful([s EXCEPT !.lag = @ + 1])'
  <2> SUFFICES ASSUME NEW s \in air \cup remote, NEW t, t = [s EXCEPT !.lag = @ + 1]
               PROVE  t \in Samples /\ Faithful(t)'
    OBVIOUS
  <2>1. s \in Samples /\ Faithful(s)
    BY DEF SkyOK
  <2>2. /\ t \in Samples /\ t.lag = s.lag + 1 /\ t.pos = s.pos /\ t.vel = s.vel
        /\ t.current = s.current /\ s.lag \in Int
    BY <2>1 DEF Samples
  <2>3. Minus(place'[Peer], Times(t.lag, velocity[Peer])) = Minus(place[Peer], Times(s.lag, velocity[Peer]))
    BY <1>1, <2>2, OneUnit
  <2>4. velocity' = velocity
    BY DEF Fly
  <2> QED
    BY <2>1, <2>2, <2>3, <2>4 DEF Faithful
<1>3. /\ air' = Older(air) /\ remote' \subseteq Older(remote)
      /\ place' \in [Pilot -> Place] /\ velocity' = velocity /\ origin' = origin
  BY DEF Fly
<1> QED
  BY <1>2, <1>3 DEF SkyOK, Older

LEMMA TurnSky ==
    ASSUME SkyOK, NEW d \in Pilot, NEW v \in Velocity, Turn(d, v)
    PROVE  SkyOK'
<1>1. velocity' \in [Pilot -> Velocity \cup {Still}] /\ place' = place /\ origin' = origin
  BY DEF Turn, SkyOK
<1>2. CASE d = Peer
  <2>1. air' = Outdated(air) /\ remote' = Outdated(remote)
    BY <1>2 DEF Turn
  <2>2. \A s \in air \cup remote :
            /\ [s EXCEPT !.current = FALSE] \in Samples
            /\ ~[s EXCEPT !.current = FALSE].current
    BY DEF SkyOK, Samples
  <2> QED
    BY <1>1, <2>1, <2>2 DEF SkyOK, Outdated, Faithful
<1>3. CASE d # Peer
  <2>1. air' = air /\ remote' = remote /\ velocity'[Peer] = velocity[Peer]
    BY <1>3 DEF Turn, SkyOK, Pilot
  <2> QED
    BY <1>1, <2>1 DEF SkyOK, Faithful
<1> QED
  BY <1>2, <1>3

LEMMA SkyInv == OneOrigin => (Spec => []SkyOK)
<1> SUFFICES ASSUME OneOrigin PROVE Spec => []SkyOK
  OBVIOUS
<1>1. Init => SkyOK
  <2> SUFFICES ASSUME Init PROVE SkyOK
    OBVIOUS
  <2>1. origin = [d \in Pilot |-> Still]
    BY DEF Init, OneOrigin
  <2> QED
    BY <2>1 DEF Init, SkyOK
<1>2. SkyOK /\ [Next]_vars => SkyOK'
  <2> SUFFICES ASSUME SkyOK, [Next]_vars PROVE SkyOK'
    OBVIOUS
  <2>1. CASE Broadcast
    BY <2>1, SamplePeer DEF Broadcast, SkyOK, Faithful
  <2>2. ASSUME NEW m \in air, Receive(m) PROVE SkyOK'
    <3>1. air' \subseteq air /\ remote' = {m} /\ UNCHANGED <<place, velocity, origin>>
      BY <2>2 DEF Receive, Stored
    <3> QED
      BY <3>1 DEF SkyOK, Faithful
  <2>3. ASSUME NEW m \in air, Lose(m) PROVE SkyOK'
    BY <2>3 DEF Lose, SkyOK, Faithful
  <2>4. CASE Fly
    BY <2>4, FlySky
  <2>5. ASSUME NEW d \in Pilot, NEW v \in Velocity, Turn(d, v) PROVE SkyOK'
    BY <2>5, TurnSky
  <2>6. CASE UNCHANGED vars
    BY <2>6 DEF vars, mesh, SkyOK, Faithful
  <2> QED
    BY <2>1, <2>2, <2>3, <2>4, <2>5, <2>6 DEF Next
<1> QED
  BY <1>1, <1>2, PTL DEF Spec

-----------------------------------------------------------------------------
(* Warnings, up to what the peer has flown since its sample *)

Verdict(d, v) ==
    IF v = Still THEN Within(SafetyDistance, d, v, 0, 1)
    ELSE /\ InHorizon(TcaNum(d, v), Dot(v, v))
         /\ Within(SafetyDistance, d, v, TcaNum(d, v), Dot(v, v))

Flown(s) == Times(s.lag, velocity[Peer])

LEMMA Scaled ==
    ASSUME NEW u \in Vectors, NEW k \in Int
    PROVE  Dot(Times(k, u), Times(k, u)) = (k * k) * Dot(u, u)
<1>1. Dot(Times(k, u), Times(k, u)) = (k * u.x) * (k * u.x) + (k * u.y) * (k * u.y) + (k * u.z) * (k * u.z)
  BY DEF Dot, Times, Vec
<1>2. \A i \in Int : (k * i) * (k * i) = (k * k) * (i * i) /\ i * i \in Int
  OBVIOUS
<1>3. u.x \in Int /\ u.y \in Int /\ u.z \in Int
  BY DEF Vectors
<1>4. /\ (k * u.x) * (k * u.x) = (k * k) * (u.x * u.x)
      /\ (k * u.y) * (k * u.y) = (k * k) * (u.y * u.y)
      /\ (k * u.z) * (k * u.z) = (k * k) * (u.z * u.z)
      /\ u.x * u.x \in Int /\ u.y * u.y \in Int /\ u.z * u.z \in Int
  BY <1>2, <1>3
<1>5. (k * k) * Dot(u, u) = (k * k) * (u.x * u.x) + (k * k) * (u.y * u.y) + (k * k) * (u.z * u.z)
  BY <1>4, Distribute DEF Dot
<1> QED
  BY <1>1, <1>4, <1>5

LEMMA FlownBound ==
    ASSUME SkyOK, NEW s \in remote
    PROVE  /\ Flown(s) \in Vectors /\ Drift(s) \in Nat
           /\ Dot(Flown(s), Flown(s)) <= Drift(s) * Drift(s)
<1>1. /\ s.lag \in Nat /\ MaxSpeed \in Nat /\ velocity[Peer] \in Vectors
      /\ Dot(velocity[Peer], velocity[Peer]) <= MaxSpeed * MaxSpeed
      /\ Dot(velocity[Peer], velocity[Peer]) \in Nat
  BY SkyVectors, VelocityZero, GeometryAssumption DEF SkyOK, Samples, Pilot
<1>2. Flown(s) \in Vectors
  BY <1>1, VectorTypes DEF Flown
<1> DEFINE k == s.lag  q == Dot(velocity[Peer], velocity[Peer])
<1>3. Dot(Flown(s), Flown(s)) = (k * k) * q
  BY <1>1, Scaled DEF Flown
<1>4. Drift(s) \in Nat /\ Drift(s) * Drift(s) = (MaxSpeed * MaxSpeed) * (k * k)
  BY <1>1 DEF Drift
<1> HIDE DEF q, k
<1>5. q * (k * k) <= (MaxSpeed * MaxSpeed) * (k * k) /\ (k * k) * q = q * (k * k)
  <2>1. k * k \in Nat /\ q \in Nat /\ MaxSpeed * MaxSpeed \in Int /\ q <= MaxSpeed * MaxSpeed
    BY <1>1 DEF k, q
  <2> QED
    BY <2>1, Factor
<1> QED
  BY <1>2, <1>3, <1>4, <1>5

\* The drone judges its own place against the one where the sample was taken.
LEMMA VerdictOf ==
    ASSUME SkyOK, NEW s \in remote, s.current
    PROVE  /\ Plus(Distance, Flown(s)) \in Vectors
           /\ EvaluateCollision(Sample(Self), s) <=> Verdict(Plus(Distance, Flown(s)), Approach)
<1>1. /\ place[Self] \in Vectors /\ place[Peer] \in Vectors /\ Approach \in Vectors
      /\ Distance \in Vectors /\ Flown(s) \in Vectors /\ origin[Self] = Still
  BY SkyVectors, FlownBound DEF SkyOK, Pilot
<1>2. Sample(Self).pos = place[Self] /\ Sample(Self).vel = velocity[Self]
  BY <1>1 DEF Sample, Minus, Vec, Still, Vectors
<1>3. s.vel = velocity[Peer] /\ s.pos = Minus(place[Peer], Flown(s))
  BY DEF SkyOK, Faithful, Flown
<1>4. Minus(Sample(Self).pos, s.pos) = Plus(Distance, Flown(s))
  BY <1>1, <1>2, <1>3, SeenFrom DEF Distance
<1>5. RelativeVelocity(Sample(Self), s) = Approach
  BY <1>2, <1>3 DEF RelativeVelocity, Approach
<1>6. Dot(Approach, Approach) = 0 <=> Approach = Still
  BY <1>1, VelocityZero
<1>7. Plus(Distance, Flown(s)) \in Vectors
  BY <1>1, VectorTypes
<1> QED
  BY <1>4, <1>5, <1>6, <1>7 DEF EvaluateCollision, Verdict

\* The times the code looks at have denominators within the bound.
DenominatorsCovered ==
    /\ MaxDen > 0
    /\ \A u, v \in Velocity \cup {Still} : Dot(Minus(u, v), Minus(u, v)) <= MaxDen

\* A warning from a sample of the peer's present course is about an approach within the
\* horizon, as close as the safety distance and what the peer can have flown since the
\* sample was taken, for drones with one origin: with two it is not so, as the run
\* collision_frames shows (fleet_state.h:78, fleet_state.c:220-236).
THEOREM WarningsAreReal ==
    OneOrigin /\ DenominatorsCovered => (Spec => []WarningIsReal)
<1> SUFFICES ASSUME OneOrigin, DenominatorsCovered PROVE Spec => []WarningIsReal
  OBVIOUS
<1>1. SkyOK => WarningIsReal
  <2> SUFFICES ASSUME SkyOK PROVE WarningIsReal
    OBVIOUS
  <2> SUFFICES ASSUME NEW s \in remote, s.current, EvaluateCollision(Sample(Self), s)
               PROVE  ComeWithin(SafetyDistance + Drift(s))
    BY DEF WarningIsReal
  <2>1. velocity[Self] \in Velocity \cup {Still} /\ velocity[Peer] \in Velocity \cup {Still}
    BY DEF SkyOK, Pilot
  <2>2. /\ Dot(Approach, Approach) <= MaxDen /\ Dot(Approach, Approach) \in Nat
        /\ MaxDen \in Nat /\ MaxDen > 0 /\ Distance \in Vectors /\ Approach \in Vectors
        /\ Approach # Still => Dot(Approach, Approach) > 0
    BY <2>1, SkyVectors, VelocityZero, GeometryAssumption DEF DenominatorsCovered, Approach
  <2> DEFINE d == Plus(Distance, Flown(s))  back == Times(-1, Flown(s))
  <2>3. d \in Vectors /\ Verdict(d, Approach) /\ Flown(s) \in Vectors /\ Drift(s) \in Nat
    BY VerdictOf, FlownBound
  <2>4. /\ back \in Vectors /\ Plus(d, back) = Distance
        /\ Dot(back, back) <= Drift(s) * Drift(s)
    <3>1. back \in Vectors
      BY <2>3, VectorTypes
    <3>2. Plus(d, back) = Distance
      BY <2>2, <2>3 DEF Plus, Times, Vec, Vectors
    <3>3. Dot(back, back) = Dot(Flown(s), Flown(s))
      <4>1. Dot(back, back) = ((-1) * (-1)) * Dot(Flown(s), Flown(s)) /\ Dot(Flown(s), Flown(s)) \in Int
        BY <2>3, Scaled, VectorTypes
      <4> QED
        BY <4>1
    <3> QED
      BY <3>1, <3>2, <3>3, FlownBound
  <2> HIDE DEF d, back
  <2>5. ASSUME NEW den \in 1..MaxDen, NEW num \in 0..(Horizon * den),
               Within(SafetyDistance, d, Approach, num, den)
        PROVE  ComeWithin(SafetyDistance + Drift(s))
    <3>1. num \in Int /\ den \in Nat /\ SafetyDistance \in Nat
      BY <2>2, GeometryAssumption
    <3>2. Within(SafetyDistance + Drift(s), Distance, Approach, num, den)
      BY <2>2, <2>3, <2>4, <2>5, <3>1, Displaced
    <3> QED
      BY <3>2 DEF ComeWithin
  <2>6. CASE Approach = Still
    <3>1. Within(SafetyDistance, d, Approach, 0, 1)
      BY <2>3, <2>6 DEF Verdict
    <3>2. 1 \in 1..MaxDen /\ 0 \in 0..(Horizon * 1)
      BY <2>2, GeometryAssumption
    <3> QED
      BY <2>5, <3>1, <3>2
  <2>7. CASE Approach # Still
    <3> DEFINE num == TcaNum(d, Approach)  den == Dot(Approach, Approach)
    <3>1. InHorizon(num, den) /\ Within(SafetyDistance, d, Approach, num, den)
      BY <2>3, <2>7 DEF Verdict
    <3>2. den \in 1..MaxDen /\ num \in Int
      BY <2>2, <2>3, <2>7, VectorTypes DEF TcaNum
    <3>3. num \in 0..(Horizon * den)
      BY <3>1, <3>2, GeometryAssumption DEF InHorizon
    <3> QED
      BY <2>5, <3>1, <3>2, <3>3
  <2> QED
    BY <2>6, <2>7
<1> QED
  BY <1>1, SkyInv, PTL

\* At no other time are the two closer than at the one the code looks at.
LEMMA LowestIsSeen ==
    ASSUME NEW d \in Vectors, NEW v \in Vectors, NEW n \in Int, NEW m \in Nat, m > 0,
           Within(SafetyDistance, d, v, n, m),
           v = Still \/ InHorizon(TcaNum(d, v), Dot(v, v))
    PROVE  Verdict(d, v)
<1> DEFINE A == Dot(d, d)  B == Dot(d, v)  C == Dot(v, v)
           S == SafetyDistance * SafetyDistance
<1>1. /\ A \in Int /\ B \in Int /\ C \in Nat /\ S \in Int /\ -B \in Int
      /\ SafetyDistance \in Nat
  <2>1. A \in Int /\ B \in Int /\ C \in Nat
    BY VectorTypes, VelocityZero
  <2>2. SafetyDistance \in Nat /\ S \in Int
    BY GeometryAssumption
  <2> HIDE DEF A, B, C, S
  <2> QED
    BY <2>1, <2>2
<1>2. Quadratic(A, B, C, m, n) <= S * m * m
  BY <1>1, DistanceExpand
<1>3. CASE v = Still
  <2>1. B = 0 /\ C = 0
    BY <1>3 DEF Dot, Still, Vec, Vectors
  <2>2. Quadratic(A, 0, 0, m, n) = (m * m) * A /\ Quadratic(A, 0, 0, 1, 0) = A
    BY <1>1 DEF Quadratic
  <2>3. m * m \in Int /\ m * m > 0 /\ S * m * m = (m * m) * S /\ S * 1 * 1 = S
    BY <1>1
  <2>4. A <= S
    <3> HIDE DEF A, B, C, S
    <3>1. (m * m) * A <= (m * m) * S
      BY <1>2, <2>1, <2>2, <2>3
    <3> QED
      BY <1>1, <2>3, <3>1, Cancel
  <2>5. Quadratic(A, B, C, 1, 0) <= S * 1 * 1
    BY <2>1, <2>2, <2>3, <2>4
  <2>6. Within(SafetyDistance, d, v, 0, 1)
    BY <1>1, <2>5, DistanceExpand
  <2> QED
    BY <1>3, <2>6 DEF Verdict
<1>4. CASE v # Still
  <2>1. C > 0
    BY <1>1, <1>4, VelocityZero
  <2>2. Quadratic(A, B, C, C, -B) <= S * C * C
    <3>1. /\ A \in Int /\ B \in Int /\ C \in Int /\ S \in Int /\ C > 0
          /\ m \in Int /\ Quadratic(A, B, C, m, n) <= S * m * m
      BY <1>1, <1>2, <2>1
    <3> HIDE DEF A, B, C, S
    <3> QED
      BY <3>1, VertexIsLowest
  <2>3. Within(SafetyDistance, d, v, -B, C)
    BY <1>1, <2>2, DistanceExpand
  <2> QED
    BY <1>4, <2>3 DEF Verdict, TcaNum
<1> QED
  BY <1>3, <1>4

\* The peer seen where its sample was taken, the closest moment is earlier or later by
\* no more than the slip of Soon.
LEMMA SoonIsInHorizon ==
    ASSUME SkyOK, NEW s \in remote, Soon(s), Approach # Still
    PROVE  InHorizon(TcaNum(Plus(Distance, Flown(s)), Approach), Dot(Approach, Approach))
<1> DEFINE u == velocity[Peer]  x == Dot(u, Approach)  k == s.lag
           B == Dot(Distance, Approach)  C == Dot(Approach, Approach)
<1>1. /\ u \in Vectors /\ Approach \in Vectors /\ Distance \in Vectors /\ k \in Nat
      /\ x \in Int /\ B \in Int /\ C \in Int
  BY SkyVectors, VectorTypes DEF SkyOK, Samples, Pilot
<1>2. Dot(Plus(Distance, Times(k, u)), Approach) = B + k * x
  BY <1>1, DotAlong
<1>3. -B >= k * Abs(x) /\ -B + k * Abs(x) <= Horizon * C
  BY DEF Soon, TcaNum
<1> HIDE DEF u, x, k, B, C
<1>4. k * Abs(x) \in Int /\ k * x \in Int /\ k * x <= k * Abs(x) /\ -(k * x) <= k * Abs(x)
  <2>1. CASE x < 0
    <3>1. Abs(x) = -x /\ k * (-x) = -(k * x) /\ k * x \in Int
      BY <1>1, <2>1 DEF Abs
    <3>2. k * (-x) >= 0
      <4>1. -x \in Nat
        BY <1>1, <2>1
      <4>2. \A i, j \in Nat : i * j >= 0
        OBVIOUS
      <4> QED
        BY <1>1, <4>1, <4>2
    <3> QED
      BY <3>1, <3>2
  <2>2. CASE x >= 0
    <3>1. Abs(x) = x /\ k * x \in Int
      BY <1>1, <2>2 DEF Abs
    <3>2. k * x >= 0
      <4>1. x \in Nat
        BY <1>1, <2>2
      <4>2. \A i, j \in Nat : i * j >= 0
        OBVIOUS
      <4> QED
        BY <1>1, <4>1, <4>2
    <3> QED
      BY <3>1, <3>2
  <2> QED
    BY <1>1, <2>1, <2>2
<1>5. Horizon * C \in Int
  BY <1>1, GeometryAssumption
<1>6. InHorizon(-(B + k * x), C)
  BY <1>1, <1>3, <1>4, <1>5 DEF InHorizon
<1> QED
  BY <1>2, <1>6 DEF TcaNum, Flown, u, k, C

\* No approach is missed that comes closer than the safety distance by what the peer can
\* have flown since its sample, and whose closest moment is, with the same margin,
\* between now and the horizon (fleet_state.c:220-236, 258-276, in exact arithmetic).
THEOREM NothingSoonIsMissed == OneOrigin => (Spec => []NoApproachMissed)
<1> SUFFICES ASSUME OneOrigin PROVE Spec => []NoApproachMissed
  OBVIOUS
<1>1. SkyOK => NoApproachMissed
  <2> SUFFICES ASSUME SkyOK PROVE NoApproachMissed
    OBVIOUS
  <2> SUFFICES ASSUME NEW s \in remote, s.current, Drift(s) <= SafetyDistance,
                      ComeWithin(SafetyDistance - Drift(s)), Soon(s)
               PROVE  EvaluateCollision(Sample(Self), s)
    BY DEF NoApproachMissed
  <2> DEFINE r == SafetyDistance - Drift(s)
  <2>1. PICK m \in 1..MaxDen :
             \E n \in 0..(Horizon * m) : Within(r, Distance, Approach, n, m)
    BY DEF ComeWithin
  <2>2. PICK n \in 0..(Horizon * m) : Within(r, Distance, Approach, n, m)
    BY <2>1
  <2>3. /\ m \in Nat /\ m > 0 /\ n \in Int /\ Drift(s) \in Nat /\ r \in Nat
        /\ r + Drift(s) = SafetyDistance /\ Distance \in Vectors /\ Approach \in Vectors
        /\ Flown(s) \in Vectors /\ Dot(Flown(s), Flown(s)) <= Drift(s) * Drift(s)
    BY SkyVectors, FlownBound, GeometryAssumption
  <2> HIDE DEF r
  <2>4. Within(r + Drift(s), Plus(Distance, Flown(s)), Approach, n, m)
    BY <2>2, <2>3, Displaced
  <2>5. Within(SafetyDistance, Plus(Distance, Flown(s)), Approach, n, m)
    BY <2>3, <2>4
  <2>6. \/ Approach = Still
        \/ InHorizon(TcaNum(Plus(Distance, Flown(s)), Approach), Dot(Approach, Approach))
    BY SoonIsInHorizon
  <2>7. Plus(Distance, Flown(s)) \in Vectors
    BY VerdictOf
  <2>8. Verdict(Plus(Distance, Flown(s)), Approach)
    BY <2>3, <2>5, <2>6, <2>7, LowestIsSeen
  <2> QED
    BY <2>8, VerdictOf
<1> QED
  BY <1>1, SkyInv, PTL

-----------------------------------------------------------------------------
(* Drones that approach fast are warned on the way *)

\* On a timely mesh the one sample Self has is as old as sinceSeen, and on the present
\* courses no older than a broadcast interval.
SampleTimely ==
    /\ sinceTx \in 0..BROADCAST_INTERVAL /\ sinceSeen \in Nat
    /\ \A s \in air : s.lag = 0
    /\ \A s, t \in air : s = t
    /\ air # {} => sinceTx = 0
    /\ \A s \in remote : s.lag = sinceSeen

SampleCurrent ==
    course # "new" =>
        /\ remote # {} /\ \A s \in air \cup remote : s.current
        /\ sinceSeen <= BROADCAST_INTERVAL
        /\ air = {} => sinceSeen <= sinceTx

\* The distance when a sample was taken on the present courses.
DistanceThen(s) == Plus(Distance, Times(-s.lag, Approach))

\* Who was told to warn by a sample when it was fresh has warned once it is not.
JudgedFresh ==
    course # "new" =>
        \A s \in remote : s.lag > 0 /\ Verdict(DistanceThen(s), Approach) => warned

\* Who has passed the closest moment, and passed it close, has been warned before it.
PassedIsWarned ==
    /\ course = "apart" /\ Approach # Still /\ Dot(Distance, Approach) > 0
    /\ Miss(Dot(Distance, Distance), Dot(Distance, Approach), Dot(Approach, Approach))
          <= SafetyDistance * SafetyDistance * Dot(Approach, Approach)
    => ~Close \/ warned

TimelyOK ==
    radio = "timely" => SampleTimely /\ SampleCurrent /\ JudgedFresh /\ PassedIsWarned

LEMMA BroadcastTimely ==
    ASSUME SkyOK, TimelyOK, radio = "timely", Broadcast
    PROVE  TimelyOK'
<1>1. SampleTimely /\ SampleCurrent /\ JudgedFresh /\ PassedIsWarned
  BY DEF TimelyOK
<1>2. /\ sinceTx' = 0 /\ sinceTx = BROADCAST_INTERVAL /\ BROADCAST_INTERVAL \in Nat /\ air = {}
      /\ air' = {Sample(Peer)}
  BY <1>1, SampleAssumption DEF Broadcast, SampleTimely
<1>3. UNCHANGED <<origin, place, velocity, radio, remote, sinceSeen, course, warned>>
  BY DEF Broadcast
<1>4. Sample(Peer).lag = 0 /\ Sample(Peer).current
  BY DEF Sample
<1>5. SampleTimely'
  BY <1>1, <1>2, <1>3, <1>4 DEF SampleTimely
<1>6. SampleCurrent'
  BY <1>1, <1>2, <1>3, <1>4 DEF SampleCurrent
<1>7. Distance' = Distance /\ Approach' = Approach /\ Close' = Close
  BY <1>3 DEF Distance, Approach, Close
<1>8. JudgedFresh'
  BY <1>1, <1>3, <1>7 DEF JudgedFresh, DistanceThen
<1>9. PassedIsWarned'
  BY <1>1, <1>3, <1>7 DEF PassedIsWarned
<1> QED
  BY <1>5, <1>6, <1>8, <1>9 DEF TimelyOK

LEMMA ReceiveTimely ==
    ASSUME SkyOK, TimelyOK, radio = "timely", NEW m \in air, Receive(m)
    PROVE  TimelyOK'
<1>1. SampleTimely /\ SampleCurrent /\ JudgedFresh /\ PassedIsWarned
  BY DEF TimelyOK
<1>2. m.lag = 0 /\ air' = {} /\ remote' = {m} /\ sinceSeen' = 0
  BY <1>1 DEF Receive, Stored, SampleTimely
<1>3. UNCHANGED <<origin, place, velocity, radio, sinceTx, warned>>
  BY DEF Receive
<1>4. SampleTimely'
  BY <1>1, <1>2, <1>3 DEF SampleTimely
<1>5. course' # "new" => m.current
  BY <1>1 DEF Receive, SampleCurrent
<1>6. SampleCurrent'
  <2>1. 0 <= sinceTx /\ 0 <= BROADCAST_INTERVAL
    BY <1>1, SampleAssumption DEF SampleTimely
  <2> QED
    BY <1>2, <1>3, <1>5, <2>1 DEF SampleCurrent
<1>7. JudgedFresh'
  BY <1>2 DEF JudgedFresh
<1>8. PassedIsWarned'
  <2>1. Distance' = Distance /\ Approach' = Approach /\ Close' = Close
    BY <1>3 DEF Distance, Approach, Close
  <2>2. course' = "apart" => course = "apart" \/ ~Close
    BY DEF Receive
  <2> QED
    BY <1>1, <1>3, <2>1, <2>2 DEF PassedIsWarned
<1> QED
  BY <1>4, <1>6, <1>7, <1>8 DEF TimelyOK

LEMMA TurnTimely ==
    ASSUME SkyOK, TimelyOK, radio = "timely", NEW d \in Pilot, NEW v \in Velocity, Turn(d, v)
    PROVE  TimelyOK'
<1>1. SampleTimely
  BY DEF TimelyOK
<1>2. course' = "new" /\ UNCHANGED <<radio, sinceTx, sinceSeen>>
  BY DEF Turn
<1>3. SampleTimely'
  <2>1. CASE d = Peer
    <3>1. air' = Outdated(air) /\ remote' = Outdated(remote)
      BY <2>1 DEF Turn
    <3>2. \A s \in air \cup remote : [s EXCEPT !.current = FALSE].lag = s.lag
      BY DEF SkyOK, Samples
    <3> QED
      BY <1>1, <1>2, <3>1, <3>2 DEF SampleTimely, Outdated
  <2>2. CASE d # Peer
    BY <1>1, <1>2, <2>2 DEF SampleTimely, Turn
  <2> QED
    BY <2>1, <2>2
<1> QED
  BY <1>2, <1>3 DEF TimelyOK, SampleCurrent, JudgedFresh, PassedIsWarned

\* What a unit of straight flight does.
LEMMA FlyMoves ==
    ASSUME SkyOK, Fly
    PROVE  Distance' = Plus(Distance, Times(1, Approach)) /\ Approach' = Approach
<1>1. /\ place'[Self] = Plus(place[Self], velocity[Self])
      /\ place'[Peer] = Plus(place[Peer], velocity[Peer])
  BY DEF Fly, Pilot
<1>2. /\ place[Self] \in Vectors /\ velocity[Self] \in Vectors
      /\ place[Peer] \in Vectors /\ velocity[Peer] \in Vectors
      /\ Approach \in Vectors
  BY SkyVectors DEF Pilot
<1>3. Distance' = Plus(Distance, Approach)
  BY <1>1, <1>2, FlownApart DEF Distance, Approach
<1>4. Approach = Times(1, Approach)
  BY <1>2 DEF Times, Vec, Vectors
<1> QED
  BY <1>3, <1>4 DEF Fly, Approach

LEMMA FlySamples ==
    ASSUME SkyOK, SampleTimely, SampleCurrent, radio = "timely", Fly
    PROVE  /\ air = {} /\ air' = {} /\ sinceTx' = sinceTx + 1 /\ sinceTx < BROADCAST_INTERVAL
           /\ SampleTimely' /\ SampleCurrent'
           /\ course # "new" => remote' = Older(remote)
<1>1. air = {}
  BY DEF Fly, SampleTimely, LongestDelay
<1>2. /\ air' = {} /\ sinceTx < BROADCAST_INTERVAL /\ sinceTx' = sinceTx + 1
      /\ course' = course /\ remote' = IF TooOld(sinceSeen + 1) THEN {} ELSE Older(remote)
      /\ sinceSeen' = IF sinceSeen < ENTRY_TIMEOUT THEN sinceSeen + 1 ELSE sinceSeen
  <2>1. Older({}) = {}
    BY DEF Older
  <2> QED
    BY <1>1, <2>1 DEF Fly
<1>3. \A s \in remote : /\ [s EXCEPT !.lag = @ + 1].lag = s.lag + 1
                        /\ [s EXCEPT !.lag = @ + 1].current = s.current
  BY DEF SkyOK, Samples
<1>4. SampleTimely'
  <2>1. sinceTx' \in 0..BROADCAST_INTERVAL /\ sinceSeen' \in Nat
    BY <1>2, SampleAssumption DEF SampleTimely
  <2>2. CASE TooOld(sinceSeen + 1)
    BY <1>2, <2>1, <2>2 DEF SampleTimely
  <2>3. CASE ~TooOld(sinceSeen + 1)
    <3>1. remote' = Older(remote) /\ sinceSeen' = sinceSeen + 1
      BY <1>2, <2>3, SampleAssumption DEF SampleTimely, TooOld
    <3>2. \A s \in remote' : s.lag = sinceSeen'
      BY <1>3, <3>1 DEF SampleTimely, Older
    <3> QED
      BY <1>2, <2>1, <3>2 DEF SampleTimely
  <2> QED
    BY <2>2, <2>3
<1>5. ASSUME course # "new" PROVE ~TooOld(sinceSeen + 1) /\ sinceSeen' = sinceSeen + 1
                                  /\ sinceSeen <= sinceTx
  BY <1>1, <1>2, <1>5, SampleAssumption DEF SampleCurrent, SampleTimely, TooOld
<1>6. SampleCurrent'
  <2> SUFFICES ASSUME course # "new"
               PROVE  /\ remote' # {} /\ \A s \in air' \cup remote' : s.current
                      /\ sinceSeen' <= BROADCAST_INTERVAL /\ sinceSeen' <= sinceTx'
    BY <1>2 DEF SampleCurrent
  <2>1. remote' = Older(remote) /\ remote # {} /\ \A s \in remote : s.current
    BY <1>2, <1>5 DEF SampleCurrent
  <2>2. sinceSeen' <= BROADCAST_INTERVAL /\ sinceSeen' <= sinceTx'
    BY <1>2, <1>5, SampleAssumption DEF SampleTimely
  <2> QED
    BY <1>2, <1>3, <2>1, <2>2 DEF Older
<1> QED
  BY <1>1, <1>2, <1>4, <1>5, <1>6

\* The verdict on a closest moment that is now or ahead, in time and close.
LEMMA VerdictAhead ==
    ASSUME NEW d \in Vectors, NEW v \in Vectors, v # Still,
           Dot(d, v) <= 0, -Dot(d, v) <= Horizon * Dot(v, v),
           Miss(Dot(d, d), Dot(d, v), Dot(v, v))
              <= SafetyDistance * SafetyDistance * Dot(v, v)
    PROVE  Verdict(d, v)
<1> DEFINE A == Dot(d, d)  B == Dot(d, v)  C == Dot(v, v)
           S == SafetyDistance * SafetyDistance
<1>1. A \in Int /\ B \in Int /\ C \in Int /\ C > 0
  BY VectorTypes, VelocityZero
<1>2. S \in Int /\ SafetyDistance \in Nat /\ -B \in Int
  BY <1>1, GeometryAssumption
<1>3. Quadratic(A, B, C, C, -B) <= S * C * C
  <2>1. Miss(A, B, C) <= S * C
    OBVIOUS
  <2> HIDE DEF A, B, C, S
  <2> QED
    BY <1>1, <1>2, <2>1, MissAtVertex
<1>4. Within(SafetyDistance, d, v, -B, C)
  BY <1>1, <1>2, <1>3, DistanceExpand
<1>5. InHorizon(-B, C)
  BY <1>1 DEF InHorizon
<1> QED
  BY <1>4, <1>5 DEF Verdict, TcaNum

LEMMA WarnsFresh ==
    ASSUME SkyOK, NEW s \in remote, s.current, s.lag = 0, Verdict(Distance, Approach)
    PROVE  Warns
<1>1. Plus(Distance, Flown(s)) = Distance
  BY SkyVectors, NoTime DEF Flown, Pilot
<1> QED
  BY <1>1, VerdictOf DEF Warns

LEMMA ThenTypes ==
    ASSUME SkyOK, NEW s \in remote
    PROVE  DistanceThen(s) \in Vectors /\ (s.lag = 0 => DistanceThen(s) = Distance) /\ s.lag \in Nat
<1>1. s.lag \in Nat /\ Distance \in Vectors /\ Approach \in Vectors
  BY SkyVectors DEF SkyOK, Samples
<1>2. -s.lag \in Int /\ (s.lag = 0 => -s.lag = 0)
  BY <1>1
<1>3. DistanceThen(s) \in Vectors
  BY <1>1, <1>2, VectorTypes DEF DistanceThen
<1> QED
  BY <1>1, <1>2, <1>3, NoTime DEF DistanceThen

\* Who approaches so that the moment lay in time when the sample was taken is warned.
LEMMA WarnedInTime ==
    ASSUME SkyOK, SampleTimely, SampleCurrent, JudgedFresh, course # "new", Approach # Still,
           Dot(Distance, Approach) <= sinceSeen * Dot(Approach, Approach),
           sinceSeen * Dot(Approach, Approach) - Dot(Distance, Approach)
              <= Horizon * Dot(Approach, Approach),
           Miss(Dot(Distance, Distance), Dot(Distance, Approach), Dot(Approach, Approach))
              <= SafetyDistance * SafetyDistance * Dot(Approach, Approach)
    PROVE  warned \/ Warns
<1>1. PICK s \in remote : s.current /\ s.lag = sinceSeen
  BY DEF SampleTimely, SampleCurrent
<1> DEFINE A == Dot(Distance, Distance)
           B == Dot(Distance, Approach)
           C == Dot(Approach, Approach)
           k == sinceSeen
<1>2. /\ Distance \in Vectors /\ Approach \in Vectors
      /\ A \in Int /\ B \in Int /\ C \in Int
      /\ k \in Nat /\ -k \in Int
  BY SkyVectors, VectorTypes DEF SampleTimely
<1>3. PICK d : d = DistanceThen(s)
  OBVIOUS
<1>4. d \in Vectors /\ d = Plus(Distance, Times(-k, Approach))
  BY <1>1, <1>3, ThenTypes DEF DistanceThen
<1>5. Dot(d, Approach) = B + (-k) * C /\ Dot(d, d) = A + 2 * ((-k) * B) + (-k) * (-k) * C
  BY <1>2, <1>4, AlongFlight
<1>6. Miss(Dot(d, d), Dot(d, Approach), C) = Miss(A, B, C)
  <2> HIDE DEF A, B, C, k
  <2>1. PICK n \in Int : n = -k
    BY <1>2
  <2>2. Miss(A + 2 * (n * B) + n * n * C, B + n * C, C) = Miss(A, B, C)
    BY <1>2, MissConstant
  <2>3. Dot(d, Approach) = B + n * C /\ Dot(d, d) = A + 2 * (n * B) + n * n * C
    BY <1>5, <2>1
  <2> QED
    BY <2>2, <2>3
<1>7. Dot(d, Approach) <= 0 /\ -Dot(d, Approach) <= Horizon * C
  <2>1. B <= k * C /\ k * C - B <= Horizon * C
    OBVIOUS
  <2>2. (-k) * C = -(k * C) /\ k * C \in Int
    BY <1>2
  <2> HIDE DEF B, C, k
  <2> QED
    BY <1>2, <1>5, <2>1, <2>2
<1>8. Verdict(d, Approach)
  BY <1>2, <1>4, <1>6, <1>7, VerdictAhead
<1>9. CASE k = 0
  BY <1>1, <1>3, <1>8, <1>9, ThenTypes, WarnsFresh
<1>10. CASE k > 0
  BY <1>1, <1>3, <1>8, <1>10 DEF JudgedFresh
<1> QED
  BY <1>2, <1>9, <1>10

LEMMA FlyTimely ==
    ASSUME SkyOK, TimelyOK, radio = "timely", Fly
    PROVE  TimelyOK'
<1> DEFINE A == Dot(Distance, Distance)
           B == Dot(Distance, Approach)
           C == Dot(Approach, Approach)
           S == SafetyDistance * SafetyDistance
<1>1. SampleTimely /\ SampleCurrent /\ JudgedFresh /\ PassedIsWarned
  BY DEF TimelyOK
<1>2. /\ air = {} /\ sinceTx < BROADCAST_INTERVAL /\ SampleTimely' /\ SampleCurrent'
      /\ course # "new" => remote' = Older(remote)
  BY <1>1, FlySamples
<1>3. course' = course /\ (warned' <=> warned \/ Warns)
  BY DEF Fly
<1>4. /\ Distance \in Vectors /\ Approach \in Vectors /\ Approach' = Approach
      /\ Distance' = Plus(Distance, Times(1, Approach))
  BY SkyVectors, FlyMoves
<1>5. JudgedFresh'
  <2> SUFFICES ASSUME course # "new", NEW t \in remote', Verdict(DistanceThen(t)', Approach)
               PROVE  warned'
    BY <1>3, <1>4 DEF JudgedFresh
  <2>1. PICK s \in remote : t = [s EXCEPT !.lag = @ + 1]
    BY <1>2 DEF Older
  <2>2. s \in Samples /\ s.current /\ s.lag \in Nat /\ t.lag = s.lag + 1
    BY <1>1, <2>1 DEF SkyOK, SampleCurrent, Samples
  <2>3. DistanceThen(t)' = DistanceThen(s)
    <3>1. DistanceThen(t)' = Plus(Plus(Distance, Times(1, Approach)), Times(-t.lag, Approach))
      BY <1>4 DEF DistanceThen
    <3>2. Plus(Plus(Distance, Times(1, Approach)), Times(-t.lag, Approach))
              = Plus(Distance, Times(-s.lag, Approach))
      <4>1. PICK k \in Int : k = s.lag /\ -t.lag = -(k + 1)
        BY <2>2
      <4>2. \A i, j \in Int : (i + 1 * j) + (-(k + 1)) * j = i + (-k) * j
        OBVIOUS
      <4>3. /\ Distance.x \in Int /\ Distance.y \in Int /\ Distance.z \in Int
            /\ Approach.x \in Int /\ Approach.y \in Int /\ Approach.z \in Int
        BY <1>4 DEF Vectors
      <4>4. /\ (Distance.x + 1 * Approach.x) + (-(k + 1)) * Approach.x = Distance.x + (-k) * Approach.x
            /\ (Distance.y + 1 * Approach.y) + (-(k + 1)) * Approach.y = Distance.y + (-k) * Approach.y
            /\ (Distance.z + 1 * Approach.z) + (-(k + 1)) * Approach.z = Distance.z + (-k) * Approach.z
        BY <4>2, <4>3
      <4> QED
        BY <4>1, <4>4 DEF Plus, Times, Vec
    <3> QED
      BY <3>1, <3>2 DEF DistanceThen
  <2>4. CASE s.lag = 0
    BY <1>3, <2>2, <2>3, <2>4, ThenTypes, WarnsFresh
  <2>5. CASE s.lag > 0
    BY <1>1, <1>3, <2>3, <2>5 DEF JudgedFresh
  <2> QED
    BY <2>2, <2>4, <2>5
<1>6. /\ A \in Int /\ B \in Int /\ C \in Nat /\ S \in Int
      /\ (Approach # Still => C > 0)
  <2>1. A \in Int /\ B \in Int /\ C \in Nat /\ (C = 0 <=> Approach = Still)
    BY <1>4, VectorTypes, VelocityZero
  <2>2. S \in Int
    BY GeometryAssumption
  <2> HIDE DEF A, B, C, S
  <2> QED
    BY <2>1, <2>2
<1>7. /\ Dot(Distance', Approach) = B + 1 * C
      /\ Dot(Distance', Distance') = A + 2 * (1 * B) + 1 * 1 * C
  BY <1>4, AlongFlight
<1>8. Miss(Dot(Distance', Distance'), Dot(Distance', Approach), C) = Miss(A, B, C)
  <2> HIDE DEF A, B, C
  <2>1. PICK n \in Int : n = 1
    OBVIOUS
  <2>2. Miss(A + 2 * (n * B) + n * n * C, B + n * C, C) = Miss(A, B, C)
    BY <1>6, MissConstant
  <2>3. /\ Dot(Distance', Approach) = B + n * C
        /\ Dot(Distance', Distance') = A + 2 * (n * B) + n * n * C
    BY <1>7, <2>1
  <2> QED
    BY <2>2, <2>3
<1>9. PassedIsWarned'
  <2> SUFFICES ASSUME course = "apart", Approach # Still, B + C > 0, Miss(A, B, C) <= S * C
               PROVE  ~Close' \/ warned'
    <3>1. Dot(Distance', Approach) = B + C
      <4> HIDE DEF B, C
      <4> QED
        BY <1>6, <1>7
    <3> QED
      BY <1>3, <1>4, <1>8, <3>1 DEF PassedIsWarned
  <2>1. CASE B <= 0
    <3> DEFINE k == sinceSeen
    <3>1. k \in Nat /\ k + 1 <= BROADCAST_INTERVAL /\ k + 1 <= Horizon /\ Horizon \in Nat
      BY <1>1, <1>2, SampleAssumption, GeometryAssumption DEF SampleTimely, SampleCurrent
    <3>2. k * C \in Int /\ k * C >= 0 /\ k * C - B <= Horizon * C
      <4> HIDE DEF B, C, k
      <4>1. (k + 1) * C <= Horizon * C
        BY <1>6, <3>1, Factor
      <4>2. (k + 1) * C = k * C + C /\ k * C \in Int /\ Horizon * C \in Int
        BY <1>6, <3>1
      <4>3. k * C >= 0
        BY <1>6, <3>1
      <4> QED
        BY <1>6, <4>1, <4>2, <4>3
    <3>3. B <= k * C
      <4> HIDE DEF B, C, k
      <4> QED
        BY <1>6, <2>1, <3>2
    <3>4. warned \/ Warns
      BY <1>1, <3>2, <3>3, WarnedInTime
    <3> QED
      BY <1>3, <3>4
  <2>2. CASE B > 0
    <3>1. ~Close \/ warned
      BY <1>1, <2>2 DEF PassedIsWarned
    <3>2. ~Close => ~Close'
      <4>1. Close <=> A <= S
        BY DEF Close
      <4>2. Close' <=> A + 2 * (1 * B) + 1 * 1 * C <= S
        BY <1>7 DEF Close
      <4> HIDE DEF A, B, C, S
      <4> QED
        BY <1>6, <2>2, <4>1, <4>2
    <3> QED
      BY <1>3, <3>1, <3>2
  <2> QED
    BY <1>6, <2>1, <2>2
<1> QED
  BY <1>2, <1>5, <1>9 DEF TimelyOK

LEMMA TimelyInit == Init => TimelyOK
<1> SUFFICES ASSUME Init PROVE TimelyOK
  OBVIOUS
<1>1. /\ sinceTx = BROADCAST_INTERVAL /\ air = {} /\ remote = {} /\ sinceSeen = ENTRY_TIMEOUT
      /\ course = "new"
  BY DEF Init
<1> QED
  BY <1>1, SampleAssumption
  DEF TimelyOK, SampleTimely, SampleCurrent, JudgedFresh, PassedIsWarned

LEMMA TimelyStep ==
    ASSUME SkyOK, TimelyOK, [Next]_vars
    PROVE  TimelyOK'
<1> SUFFICES ASSUME radio = "timely" PROVE TimelyOK'
  <2>1. radio' = radio
    BY DEF Next, Broadcast, Receive, Lose, Fly, Turn, vars, mesh
  <2> QED
    BY <2>1 DEF TimelyOK
<1>1. CASE Broadcast
  BY <1>1, BroadcastTimely
<1>2. ASSUME NEW m \in air, Receive(m) PROVE TimelyOK'
  BY <1>2, ReceiveTimely
<1>3. ASSUME NEW m \in air, Lose(m) PROVE TimelyOK'
  BY <1>3 DEF Lose
<1>4. CASE Fly
  BY <1>4, FlyTimely
<1>5. ASSUME NEW d \in Pilot, NEW v \in Velocity, Turn(d, v) PROVE TimelyOK'
  BY <1>5, TurnTimely
<1>6. CASE UNCHANGED vars
  BY <1>6 DEF vars, mesh, TimelyOK, SampleTimely, SampleCurrent, JudgedFresh, PassedIsWarned,
              DistanceThen, Close, Distance, Approach
<1> QED
  BY <1>1, <1>2, <1>3, <1>4, <1>5, <1>6 DEF Next

\* A fast approach had its closest moment within the horizon when the sample was taken,
\* once the drones are close.
LEMMA CloseAndFast ==
    ASSUME SkyOK, TimelyOK
    PROVE  FastApproachIsSeen
<1> DEFINE A == Dot(Distance, Distance)
           B == Dot(Distance, Approach)
           C == Dot(Approach, Approach)
           S == SafetyDistance * SafetyDistance
           time == Horizon - BROADCAST_INTERVAL
           k == sinceSeen
<1> SUFFICES ASSUME radio = "timely", course = "apart", Close, Approach # Still,
                    C * time * time >= S
             PROVE  warned \/ Warns
  BY DEF FastApproachIsSeen
<1>1. SampleTimely /\ SampleCurrent /\ JudgedFresh /\ PassedIsWarned
  BY DEF TimelyOK
<1>2. /\ Distance \in Vectors /\ Approach \in Vectors
      /\ A \in Int /\ B \in Int /\ C \in Int /\ C > 0
  <2>1. Distance \in Vectors /\ Approach \in Vectors
    BY SkyVectors
  <2>2. A \in Int /\ B \in Int
    BY <2>1, VectorTypes
  <2>3. C \in Int /\ C > 0
    BY <2>1, VelocityZero
  <2> QED
    BY <2>1, <2>2, <2>3
<1>3. /\ S \in Int /\ time \in Nat /\ Horizon \in Nat /\ k \in Nat /\ k + time <= Horizon
  BY <1>1, GeometryAssumption, SampleAssumption DEF SampleTimely, SampleCurrent
<1>4. A <= S
  BY DEF Close
<1>5. Miss(A, B, C) >= 0
  BY <1>2, MissNotNegative
<1>6. C * time * time >= S
  OBVIOUS
<1> HIDE DEF A, B, C, S, time, k
<1>7. C * A <= C * S
  <2>1. A * C <= S * C /\ A * C = C * A /\ S * C = C * S
    BY <1>2, <1>3, <1>4, Factor
  <2> QED
    BY <2>1
<1>8. Miss(A, B, C) <= S * C /\ B * B <= C * S
  <2>1. B * B >= 0 /\ B * B \in Int /\ C * A \in Int /\ C * S \in Int /\ S * C = C * S
    BY <1>2, <1>3
  <2> QED
    BY <1>5, <1>7, <2>1 DEF Miss
<1>9. -B <= time * C
  <2> DEFINE h == time * C  r == C * time * time
  <2>1. h \in Int /\ h >= 0 /\ h * h = C * r /\ r \in Int
    BY <1>2, <1>3
  <2>2. C * S <= C * r
    <3>1. r >= S
      BY <1>6
    <3> HIDE DEF r
    <3> QED
      BY <1>2, <1>3, <2>1, <3>1
  <2>3. (-B) * (-B) = B * B /\ B * B \in Int /\ C * S \in Int /\ C * r \in Int
    BY <1>2, <1>3
  <2>4. (-B) * (-B) <= h * h
    <3> HIDE DEF h, r
    <3> QED
      BY <1>8, <2>1, <2>2, <2>3
  <2> HIDE DEF h, r
  <2>5. -B <= h
    BY <1>2, <2>1, <2>4, SquareOrder
  <2> QED
    BY <2>5 DEF h
<1>10. CASE B <= 0
  <2>1. k * C >= 0 /\ k * C \in Int
    BY <1>2, <1>3
  <2>2. (k + time) * C <= Horizon * C
    BY <1>2, <1>3, Factor
  <2>3. (k + time) * C = k * C + time * C /\ time * C \in Int /\ Horizon * C \in Int
    BY <1>2, <1>3
  <2>4. B <= k * C /\ k * C - B <= Horizon * C
    BY <1>2, <1>9, <1>10, <2>1, <2>2, <2>3
  <2> QED
    BY <1>1, <1>8, <2>4, WarnedInTime DEF A, B, C, S, k
<1>11. CASE B > 0
  BY <1>1, <1>8, <1>11 DEF PassedIsWarned, A, B, C, S
<1> QED
  BY <1>2, <1>10, <1>11

\* On a timely mesh no fast approach goes unseen, whatever turns the drones take before
\* and however long the units of time are against their speed: with samples as old as the
\* broadcast interval the moment the code looks at is within the horizon before the
\* drones are past it (fleet_state.c:79-106, 220-277).
THEOREM FastIsSeen == OneOrigin => (Spec => []FastApproachIsSeen)
<1> SUFFICES ASSUME OneOrigin PROVE Spec => []FastApproachIsSeen
  OBVIOUS
<1>1. Init => TimelyOK
  BY TimelyInit
<1>2. SkyOK /\ TimelyOK /\ [Next]_vars => TimelyOK'
  BY TimelyStep
<1>3. SkyOK /\ TimelyOK => FastApproachIsSeen
  BY CloseAndFast
<1> QED
  BY <1>1, <1>2, <1>3, SkyInv, PTL DEF Spec
=============================================================================
